CONSTANTS
    Thread = {t1, t2}
    Host = {"name", "literal"}
    Addr = {"pub", "v6", "lo"}
    ClassOf <- MCClassOf
    LiteralOf <- MCLiteralOf
    NoAddr = NoAddr
    IPv4 <- MCIPv4
    AllowPrivate = FALSE
    CacheTTL = 2
    Horizon = 3
    MaxAnswer = 2
    NoURL = NoURL
    Requests <- MCRequests
    DefaultTimeout = 2
    DefaultRedirects = 3
    Says <- MCSays
    MaxBodySize = 2
    MaxSent = 3
SPECIFICATION HttpFairSpec
CHECK_DEADLOCK FALSE
INVARIANTS NoForbiddenDial OneAddressPerHost BodyIsWholeOrFlagged
PROPERTY RequestReturns
