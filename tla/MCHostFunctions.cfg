CONSTANTS
    Addr <- MCAddr
    ClassOf <- MCClassOf
    IPv4 <- MCIPv4
    Host <- MCHost
    FormOf <- MCFormOf
    LiteralOf <- MCLiteralOf
    JoinedOf <- MCJoinedOf
    NoAddr = NoAddr
    Pattern = {"name", "net", "local"}
    HostsOf <- MCHostsOf
    CidrOf <- MCCidrOf
    Port = {0, 25, 65535, 65536}
    Configs <- MCConfigs
    Record = {"192.0.2.1", "::1"}
    IPv4Record = {"192.0.2.1"}
    DnsAnswers <- MCDnsAnswers
    Entry = {"FOO", "ld_audit", "IFS", "path", "PATH", "HOME", "bare", "SECRET"}
    Key = {"FOO", "ld_audit", "LD_AUDIT", "IFS", "path", "PATH", "HOME", "SECRET"}
    NoKey = NoKey
    KeyOf <- MCKeyOf
    UpperKey <- MCUpperKey
    LinkerKey = {"LD_AUDIT"}
    alwaysBlockedEnvExact = {"IFS"}
    capabilityGatedEnv = {"PATH", "HOME"}
    GrantedEnv = {"PATH"}
    NilEnv = NilEnv
    Envs <- MCEnvs
    HostEnv = {"PATH", "SECRET"}
    MaxOutput = 2
    MaxWritten = 3
SPECIFICATION HostSpec
INVARIANTS
    HostTypeOK
    NoForbiddenConnect
    VerdictMatchesReference
    OutputIsWholeOrFlagged
    NothingInherited
    ReportIsTruthful
PROPERTY HostFunctionsReturn
