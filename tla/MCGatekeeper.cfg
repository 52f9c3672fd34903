\* Two processes share the store, with every fault.
CONSTANTS
    Proc = {p1, p2}
    Cap = {"var", "sh"}
    KindOf <- MCKindOf
    Broad <- MCBroad
    Faults = {"crash", "io"}
SPECIFICATION Spec
SYMMETRY Symmetry
INVARIANTS TypeOK StoreHoldsOnlyApproved StrictAddsNoBroad
    ResultCoversPrompted SavedGrantsSurvive
