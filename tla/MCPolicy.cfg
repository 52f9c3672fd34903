SPECIFICATION PolicySpec
CONSTANTS
    a = a
    b = b
    bad = bad
    Goroutine = {g1, g2}
    Obj = {o1, o2}
    NoObj = NoObj
    Pattern <- MCPattern
    ValidPattern <- MCValid
    Text = {1, 2}
    Match <- MCMatch
    Relative <- MCRelative
    Cwd = TRUE
    Resolved <- MCResolved
    Star = Star
    Word = Word
    Huge = Huge
    MaxPort = 4
    MaxInt = 6
    GrantSets <- MCGrantSets
    Requests <- MCRequests
SYMMETRY Symmetry
INVARIANTS
    PolicyTypeOK
    DecisionMatchesGrants
    DecisionWasOnceTrue
