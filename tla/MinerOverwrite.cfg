CONSTANTS
    Proc = {m1, m2}
    NoProc = none
    Key <- TwoKeys
    Json <- TwoKeys
    Poison <- NoKeys
    Failing <- TwoKeys
    Date <- Undated
    PageSize = 2
    MaxDay = 0
    MaxFaults = 0
    MaxSignals = 0
SPECIFICATION Spec
INVARIANT JudgedRowsKept
