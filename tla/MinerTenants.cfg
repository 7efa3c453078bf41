CONSTANTS
    Proc = {m1, m2}
    NoProc = none
    Key <- TwoKeys
    Json <- TwoKeys
    Poison <- NoKeys
    Failing <- NoKeys
    Date <- TwoTenants
    PageSize = 1
    MaxDay = 1
    MaxFaults = 0
    MaxSignals = 0
SPECIFICATION Spec
PROPERTY TodaysObjectsAhead
