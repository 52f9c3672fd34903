CONSTANTS
    Proc = {p1}
    Cap = {"var", "sh", "kv"}
    KindOf <- MCKindOf
    Broad <- MCBroad
    Faults = {}
SPECIFICATION Spec
INVARIANT StoreHoldsOnlyAlways
