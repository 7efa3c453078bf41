CONSTANTS
    p1 = p1
    p2 = p2
    p3 = p3
    Process <- Launches
    NoOwner = NoOwner
    MaxFile = 3
    Place <- PathOrder
    MaxAlive = 2
    MaxFaults = 1
    MaxRepeats = 2
SPECIFICATION Spec
SYMMETRY Symmetry
CHECK_DEADLOCK FALSE
INVARIANTS TypeOK NoSkip FileIsWhole OneFilePerFault
PROPERTY LeaseUnlessOverlap
