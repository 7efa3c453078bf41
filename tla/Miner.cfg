CONSTANTS
    Proc = {m1, m2}
    NoProc = none
    Key <- ThreeKeys
    Json <- ThreeKeys
    Poison <- LastKey
    Failing <- OneKey
    Date <- Undated
    PageSize = 2
    MaxDay = 1
    MaxFaults = 1
    MaxSignals = 1
SPECIFICATION Spec
SYMMETRY Symmetry
INVARIANTS NoSkip OneRepeatPerFault LeavesFlushed
PROPERTIES CursorForward LostOnlyByCrashOrReplacement LeaseSpec
