CONSTANTS
    Owner = {m1, m2}
    NoOwner = none
    TTL = 2
    Skew = 1
    MaxTime = 6
SPECIFICATION Spec
INVARIANTS TypeOK SingleRunner BoundedLockout
PROPERTY LeaseSpec
