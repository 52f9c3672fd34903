\* A locked profile is asked for again.
CONSTANTS
    Proc = {p1}
    Name = {a}
    Constraint = {"latest", "1.0"}
    URL = {u}
    NoLock = NoLock
    BadDecl = BadDecl
    MaxDecls = 1
    Faults = {}
SPECIFICATION Spec
INVARIANT LockedProfileIsFound
