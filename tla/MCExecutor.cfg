SPECIFICATION ExecutorSpec
CONSTANTS
    Call = {c1}
    Plugin = {p1}
    NoPlugin = NoPlugin
    loop = loop
    t = t
    Target = {loop, t}
    NoTarget = NoTarget
    Loopback = loop
    Registered = {"http_request", "tcp_connect"}
    GrantSets <- MCGrantSets
    Chains <- MCChains
    w1 = w1
    w2 = w2
    w3 = w3
    n = n
    Wasm = {w1, w2, w3}
    NoWasm = NoWasm
    NameOf <- MCNameOf
    Anonymous = Anonymous
    Exports <- MCExports
    Instance = {i1, i2}
    NoInstance = NoInstance
SYMMETRY Symmetry
INVARIANTS
    ExecutorTypeOK
    GuardedHandlerIsGranted
    PrivateIsGranted
    RecoveryFirstNeverTraps
    OnlyInitializeLeaks
CHECK_DEADLOCK FALSE
