\* Two callers share the file, with every fault.
CONSTANTS
    Proc = {p1, p2}
    Name = {a}
    Constraint = {"latest", "1.0"}
    URL = {u}
    NoLock = NoLock
    BadDecl = BadDecl
    MaxDecls = 2
    Faults = {"crash", "write"}
SPECIFICATION Spec
SYMMETRY Symmetry
INVARIANTS TypeOK SaveIsReadBack SatisfiedLocksAreKept DeclaredIsLocked
