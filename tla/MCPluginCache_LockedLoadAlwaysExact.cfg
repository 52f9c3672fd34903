\* Overlapping loads while the tag moves.
CONSTANTS
    Proc = {p1, p2}
    Version = {v1, v2}
    None = None
    Empty = Empty
    Torn = Torn
    RequireSigning = FALSE
    Faults = {"move"}
SPECIFICATION Spec
INVARIANT LockedLoadAlwaysExact
