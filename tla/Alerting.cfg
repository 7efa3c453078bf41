CONSTANTS
    r1 = r1
    r2 = r2
    r3 = r3
    f1 = f1
    f2 = f2
    Replica = {n1}
    Req <- ThreeReqs
    NoReq = none
    Fingerprint = {f1, f2}
    FpOf <- TwoFps
    Critical <- OneCritical
    Mock = {"pagerduty"}
    TTL = 1
    MaxTime = 2
    MaxRestarts = 1
SPECIFICATION Spec
CHECK_DEADLOCK FALSE
INVARIANTS TypeOK OncePerWindow MutexIsReleased SuppressedHasAdmission AnswerIsHonest
PROPERTY AdmitIsAtomic
