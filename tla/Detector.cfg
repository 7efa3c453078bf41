CONSTANTS
    Window = 2
    MinEvents = 2
    Sigma = 2
    MaxTime = 7
    MaxScale = 3125
    MaxEvents = 4
SPECIFICATION Spec
CHECK_DEADLOCK FALSE
INVARIANTS TypeOK VarianceOfBaseline WindowIsRecent AnomalyNeedsQuietBaseline
