CONSTANTS
    Owner = {m1, m2}
    NoOwner = none
    TTL = 2
    Skew = 1
    MaxTime = 4
SPECIFICATION Spec
SYMMETRY Symmetry
INVARIANTS TypeOK MatchingReadIsCurrent BoundedLockout
PROPERTY LeaseSpec
