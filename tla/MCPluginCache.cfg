CONSTANTS
    Proc = {p1, p2}
    Version = {v1, v2}
    None = None
    Empty = Empty
    Torn = Torn
    RequireSigning = TRUE
    Faults = {"crash", "move", "write"}
SPECIFICATION Spec
INVARIANTS TypeOK DigestVouchesForWasm LockedLoadIsExact
    OverlapHealsWhenTagIsFixed
PROPERTY FilledOnce
