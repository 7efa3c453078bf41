CONSTANTS
    Proc = {m1, m2}
    NoProc = none
    Key <- ThreeKeys
    Json <- FirstAndLast
    Poison <- NoKeys
    Failing <- NoKeys
    Date <- Undated
    PageSize = 1
    MaxDay = 0
    MaxFaults = 1
    MaxSignals = 1
SPECIFICATION FairSpec
INVARIANT TypeOK
PROPERTY EveryRecordMined
