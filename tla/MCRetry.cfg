CONSTANTS
    Thread = {t1, t2}
    Trip = {t1}
    Host = {"name"}
    Addr = {"pub", "lo"}
    ClassOf <- MCClassOf
    LiteralOf <- MCLiteralOf
    NoAddr = NoAddr
    IPv4 = {"pub", "lo"}
    AllowPrivate = FALSE
    CacheTTL = 2
    Horizon = 3
    MaxAnswer = 1
    Transports <- MCTransports
    DefaultRetries = 2
    DefaultInitial = 3
    DefaultMax = 5
    Width = 4
    RetryAfter <- MCRetryAfter
    DateDelay = {4}
SPECIFICATION RetryFairSpec
INVARIANTS RetryTypeOK WaitMatchesReference OnlyReturnedIsOpen
    ResponseIsToWholeBody
PROPERTIES PinMovedOnlyByOverlap EndedRoundTripReturns
