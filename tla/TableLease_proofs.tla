-------------------------- MODULE TableLease_proofs ---------------------------
(***************************************************************************)
(* TableLease keeps its invariants and implements SweepLease for every set *)
(* of owners, every TTL and every clock skew, although it takes several    *)
(* requests to acquire or to release the lease.                            *)
(***************************************************************************)
EXTENDS TableLease, TLAPS

ClockBound == \A o \in Owner : clk[o] <= now + Skew

IInv == TypeOK /\ ClockBound /\ InForceHolds /\ MatchingReadIsCurrent /\ BoundedLockout

LEMMA InitIInv == Init => IInv
BY NoOwnerAssumption, TimeAssumption
   DEF Init, IInv, TypeOK, Entity, NoEntity, Acquiring, ClockBound, InForceHolds,
       Running, MatchingReadIsCurrent, BoundedLockout, Absent

(* A write by a process that may take the lease over, or that meets no entity,
   hurts no miner in force and leaves no matching read behind. *)
LEMMA WriteKeeps ==
    ASSUME IInv, NEW o \in Owner, Write(o), Absent \/ MayTakeOver(o),
           o \notin Running, now' = now, clk' = clk,
           \A p \in Owner \ {o} : pc'[p] = pc[p] /\ until'[p] = until[p],
           pc'[o] \in {"running", "delete"} => until'[o] = clk[o] + TTL
    PROVE  ClockBound' /\ InForceHolds' /\ MatchingReadIsCurrent' /\ BoundedLockout'
<1> USE NoOwnerAssumption, TimeAssumption
    DEF IInv, TypeOK, Entity, NoEntity, Absent
<1>1. entity' = [owner |-> o, expiry |-> clk[o] + TTL] /\ valid' = {}
    BY DEF Write
<1>2. ASSUME NEW p \in Running PROVE ~InForceUntil(until[p])
    BY <1>2 DEF InForceHolds, MayTakeOver, InForceUntil, ClockBound, Running
<1>3. InForceHolds'
    BY <1>1, <1>2 DEF InForceHolds, Running, InForceUntil
<1>4. BoundedLockout' /\ ClockBound'
    BY <1>1 DEF BoundedLockout, ClockBound
<1>5. MatchingReadIsCurrent'
    BY <1>1 DEF MatchingReadIsCurrent
<1> QED  BY <1>3, <1>4, <1>5

LEMMA StepTypeOK == IInv /\ [Next]_vars => TypeOK'
<1> SUFFICES ASSUME IInv, [Next]_vars PROVE TypeOK'
    OBVIOUS
<1> USE TimeAssumption DEF IInv, TypeOK, Entity, NoEntity, Acquiring, GoTo, Read, Write, Granted
<1>1. CASE Tick \/ UNCHANGED vars
    BY <1>1 DEF Tick, vars
<1>2. CASE \E o \in Owner : Start(o)
    BY <1>2 DEF Start
<1>3. CASE \E o \in Owner : Create(o) \/ Update(o)
    BY <1>3 DEF Create, Update
<1>4. CASE \E o \in Owner : Exists(o) \/ Get(o)
    BY <1>4 DEF Exists, Get
<1>5. CASE \E o \in Owner : WriteUnacknowledged(o)
    BY <1>5 DEF WriteUnacknowledged
<1>6. CASE \E o \in Owner : Leave(o) \/ Delete(o) \/ Crash(o)
    BY <1>6 DEF Leave, Delete, Crash
<1> QED  BY <1>1, <1>2, <1>3, <1>4, <1>5, <1>6 DEF Next

LEMMA StepIInv == IInv /\ [Next]_vars => IInv'
<1> SUFFICES ASSUME IInv, [Next]_vars
             PROVE  ClockBound' /\ InForceHolds' /\ MatchingReadIsCurrent' /\ BoundedLockout'
    BY StepTypeOK DEF IInv
<1>a. TypeOK /\ ClockBound /\ InForceHolds /\ MatchingReadIsCurrent /\ BoundedLockout
    BY DEF IInv
<1> USE NoOwnerAssumption, TimeAssumption
    DEF TypeOK, Entity, NoEntity, Running, InForceUntil, GoTo, Read, Absent
<1>1. CASE Tick
    BY <1>1, <1>a DEF Tick, ClockBound, InForceHolds, MatchingReadIsCurrent, MayTakeOver,
                      BoundedLockout
<1>2. CASE \E o \in Owner : Start(o)
    <2>1. PICK o \in Owner : Start(o)  BY <1>2
    <2>2. PICK t \in (now - Skew) .. (now + Skew) : clk' = [clk EXCEPT ![o] = t]
        BY <2>1 DEF Start
    <2> QED  BY <2>1, <2>2, <1>a DEF Start, ClockBound, InForceHolds,
                 MatchingReadIsCurrent, MayTakeOver, BoundedLockout
<1>3. CASE \E o \in Owner : Create(o)
    <2>1. PICK o \in Owner : Create(o)  BY <1>3
    <2> QED  BY <2>1, <1>a, WriteKeeps DEF Create, Granted
<1>4. CASE \E o \in Owner : Exists(o) \/ Get(o)
    BY <1>4, <1>a DEF Exists, Get, ClockBound, InForceHolds, MatchingReadIsCurrent,
                      MayTakeOver, BoundedLockout
<1>5. CASE \E o \in Owner : Update(o)
    <2>1. PICK o \in Owner : Update(o)  BY <1>5
    <2>2. CASE o \in valid
        <3>1. MayTakeOver(o)
            BY <2>1, <2>2, <1>a DEF MatchingReadIsCurrent, Update
        <3> QED  BY <2>1, <2>2, <3>1, <1>a, WriteKeeps DEF Update, ETagMatches, Granted
    <2>3. CASE o \notin valid
        BY <2>1, <2>3, <1>a DEF Update, ETagMatches, ClockBound, InForceHolds,
                                MatchingReadIsCurrent, MayTakeOver, BoundedLockout
    <2> QED  BY <2>2, <2>3
<1>6. CASE \E o \in Owner : WriteUnacknowledged(o)
    <2>1. PICK o \in Owner : WriteUnacknowledged(o)  BY <1>6
    <2>2. Absent \/ MayTakeOver(o)
        BY <2>1, <1>a DEF WriteUnacknowledged, ETagMatches, MatchingReadIsCurrent
    <2> QED  BY <2>1, <2>2, <1>a, WriteKeeps DEF WriteUnacknowledged
<1>7. CASE \E o \in Owner : Leave(o) \/ Crash(o)
    BY <1>7, <1>a DEF Leave, Crash, ClockBound, InForceHolds, MatchingReadIsCurrent,
                      MayTakeOver, BoundedLockout
<1>8. CASE \E o \in Owner : Delete(o)
    BY <1>8, <1>a DEF Delete, ETagMatches, ClockBound, InForceHolds, MatchingReadIsCurrent,
                      MayTakeOver, BoundedLockout
<1>9. CASE UNCHANGED vars
    BY <1>9, <1>a DEF vars, ClockBound, InForceHolds, MatchingReadIsCurrent, MayTakeOver,
                      BoundedLockout
<1> QED  BY <1>1, <1>2, <1>3, <1>4, <1>5, <1>6, <1>7, <1>8, <1>9 DEF Next

(* Type correctness of the Table Storage lease. *)
THEOREM TypeCorrect == Spec => []TypeOK
<1>1. IInv => TypeOK  BY DEF IInv
<1> QED  BY <1>1, InitIInv, StepIInv, PTL DEF Spec

(* However the requests of acquire_lease and release_lease interleave, two
   miners never both run before the expiry each was granted. *)
THEOREM SingleRunnerAlways == Spec => []SingleRunner
<1>1. IInv => SingleRunner
    BY DEF IInv, TypeOK, InForceHolds, SingleRunner, Overdue, Running, Lease!SingleRunner,
           Lease!InForce
<1> QED  BY <1>1, InitIInv, StepIInv, PTL DEF Spec

(* A matching ETag means that what was decided on the read still holds. *)
THEOREM MatchingReadIsAlwaysCurrent == Spec => []MatchingReadIsCurrent
<1>1. IInv => MatchingReadIsCurrent  BY DEF IInv
<1> QED  BY <1>1, InitIInv, StepIInv, PTL DEF Spec

(* A miner whose lease is in force is the one the entity names, with the expiry
   it was granted, whatever requests of others are on their way. *)
THEOREM InForceAlwaysHolds == Spec => []InForceHolds
<1>1. IInv => InForceHolds  BY DEF IInv
<1> QED  BY <1>1, InitIInv, StepIInv, PTL DEF Spec

(* An orphan entity expires at most a TTL, and the skew, from now. *)
THEOREM LockoutIsBounded == Spec => []BoundedLockout
<1>1. IInv => BoundedLockout  BY DEF IInv
<1> QED  BY <1>1, InitIInv, StepIInv, PTL DEF Spec

------------------------------------------------------------------------------
(* The refinement. *)

LEMMA InitLease == Init => Lease!Init
BY DEF Init, Lease!Init, NoEntity, Running, Overdue

(* A grant is an Acquire of the contract. *)
LEMMA GrantIsAcquire ==
    ASSUME IInv, NEW o \in Owner, Granted(o), Absent \/ MayTakeOver(o),
           pc[o] \in Acquiring, now' = now
    PROVE  Lease!Acquire(o)
<1> USE NoOwnerAssumption, TimeAssumption DEF IInv, TypeOK, Entity, NoEntity
<1>1. o \notin Running /\ Running' = Running \cup {o}
    BY DEF Granted, GoTo, Running, Acquiring
<1>2. entity' = [owner |-> o, expiry |-> clk[o] + TTL] /\ until'[o] = clk[o] + TTL
    BY DEF Granted, Write
<1>3. Lease!Grantable(o)
    BY DEF Lease!Grantable, Absent, MayTakeOver, InForceUntil, ClockBound
<1>4. \A p \in Owner \ {o} : until'[p] = until[p]
    BY DEF Granted
<1>5. Overdue' = IF InForceUntil(entity.expiry)' THEN Overdue ELSE Overdue \cup {o}
    BY <1>1, <1>2, <1>4 DEF Overdue, InForceUntil, Running
<1> QED  BY <1>1, <1>2, <1>3, <1>5 DEF Lease!Acquire

LEMMA StepLease == IInv /\ [Next]_vars => [Lease!Next]_Lease!vars
<1> SUFFICES ASSUME IInv, [Next]_vars PROVE [Lease!Next]_Lease!vars
    OBVIOUS
<1> DEFINE Live == entity.owner # NoOwner /\ InForceUntil(entity.expiry)
<1> USE NoOwnerAssumption, TimeAssumption DEF IInv, TypeOK, Entity, NoEntity, InForceUntil
<1>1. CASE Tick
    <2>1. Running' = Running /\ entity' = entity /\ until' = until /\ now' = now + 1
        BY <1>1 DEF Tick, Running
    <2>2. CASE Live /\ ~Live'
        <3>1. Overdue' = Running
            BY <2>1, <2>2 DEF Overdue, Running, InForceHolds
        <3> QED  BY <2>1, <2>2, <3>1 DEF Lease!Next, Lease!Lapse
    <2>3. CASE ~Live
        <3>1. Overdue = Running /\ Overdue' = Running /\ ~Live'
            BY <2>1, <2>3 DEF Overdue, Running, InForceHolds
        <3> QED  BY <2>1, <2>3, <3>1 DEF Lease!vars
    <2>4. CASE Live /\ Live'
        <3>1. Overdue' = Overdue
            BY <2>1, <2>4 DEF Overdue, Running, InForceHolds
        <3> QED  BY <2>1, <2>4, <3>1 DEF Lease!vars
    <2> QED  BY <2>2, <2>3, <2>4
<1>2. CASE UNCHANGED <<entity, now, until>> /\ Running' = Running
    <2>1. Overdue' = Overdue
        BY <1>2 DEF Overdue
    <2> QED  BY <1>2, <2>1 DEF Lease!vars
<1>3. CASE (\E o \in Owner : Start(o) \/ Exists(o) \/ Get(o)) \/ UNCHANGED vars
    BY <1>2, <1>3 DEF Start, Exists, Get, GoTo, Running, vars
<1>4. CASE \E o \in Owner : Create(o)
    <2>1. PICK o \in Owner : Create(o)  BY <1>4
    <2>2. Lease!Acquire(o)
        BY <2>1, GrantIsAcquire DEF Create, Acquiring
    <2> QED  BY <2>2 DEF Lease!Next
<1>5. CASE \E o \in Owner : Update(o)
    <2>1. PICK o \in Owner : Update(o)  BY <1>5
    <2>2. CASE o \in valid
        <3>1. MayTakeOver(o)
            BY <2>1, <2>2 DEF MatchingReadIsCurrent, Update
        <3>2. Lease!Acquire(o)
            BY <2>1, <2>2, <3>1, GrantIsAcquire DEF Update, ETagMatches, Acquiring
        <3> QED  BY <3>2 DEF Lease!Next
    <2>3. CASE o \notin valid
        BY <1>2, <2>1, <2>3 DEF Update, ETagMatches, GoTo, Running
    <2> QED  BY <2>2, <2>3
<1>6. CASE \E o \in Owner : WriteUnacknowledged(o)
    <2>1. PICK o \in Owner : WriteUnacknowledged(o)  BY <1>6
    <2>2. Absent \/ MayTakeOver(o)
        BY <2>1 DEF WriteUnacknowledged, ETagMatches, MatchingReadIsCurrent
    <2>3. o \notin Running /\ Running' = Running /\ Overdue' = Overdue
        BY <2>1 DEF WriteUnacknowledged, Running, Overdue
    <2>4. Lease!Grantable(o)
        BY <2>2 DEF Lease!Grantable, Absent, MayTakeOver, ClockBound
    <2>5. entity'.owner = o
        BY <2>1 DEF WriteUnacknowledged, Write
    <2>6. Lease!AcquireUnseen(o)
        BY <2>3, <2>4, <2>5 DEF Lease!AcquireUnseen
    <2> QED  BY <2>6 DEF Lease!Next
<1>7. CASE \E o \in Owner : Leave(o)
    <2>1. PICK o \in Owner : Leave(o)  BY <1>7
    <2>2. CASE entity.owner = o
        BY <1>2, <2>1, <2>2 DEF Leave, GoTo, Running
    <2>3. CASE entity.owner # o
        <3>1. o \in Running /\ Running' = Running \ {o} /\ Overdue' = Overdue \ {o}
            BY <2>1, <2>3 DEF Leave, GoTo, Running, Overdue
        <3>2. Lease!Release(o)
            BY <2>1, <2>3, <3>1 DEF Leave, Lease!Release
        <3> QED  BY <3>2 DEF Lease!Next
    <2> QED  BY <2>2, <2>3
<1>8. CASE \E o \in Owner : Delete(o)
    <2>1. PICK o \in Owner : Delete(o)  BY <1>8
    <2>2. o \in Running /\ Running' = Running \ {o} /\ Overdue' = Overdue \ {o}
        BY <2>1 DEF Delete, GoTo, Running, Overdue
    <2>3. CASE o \in valid
        <3>1. entity.owner = o
            BY <2>1, <2>3 DEF Delete, MatchingReadIsCurrent
        <3>2. entity' = NoEntity
            BY <2>1, <2>3 DEF Delete, ETagMatches
        <3>3. Lease!Release(o)
            BY <2>2, <3>1, <3>2 DEF Lease!Release
        <3> QED  BY <3>3 DEF Lease!Next
    <2>4. CASE o \notin valid
        <3>1. entity' = entity /\ now' = now
            BY <2>1, <2>4 DEF Delete, ETagMatches
        <3>2. Lease!Crash(o)
            BY <2>2, <3>1 DEF Lease!Crash
        <3> QED  BY <3>2 DEF Lease!Next
    <2> QED  BY <2>3, <2>4
<1>9. CASE \E o \in Owner : Crash(o)
    <2>1. PICK o \in Owner : Crash(o)  BY <1>9
    <2>2. entity' = entity /\ now' = now /\ until' = until
        BY <2>1 DEF Crash
    <2>3. CASE o \in Running
        <3>1. Running' = Running \ {o} /\ Overdue' = Overdue \ {o}
            BY <2>1, <2>3 DEF Crash, GoTo, Running, Overdue
        <3>2. Lease!Crash(o)
            BY <2>2, <2>3, <3>1 DEF Lease!Crash
        <3> QED  BY <3>2 DEF Lease!Next
    <2>4. CASE o \notin Running
        BY <1>2, <2>1, <2>2, <2>4 DEF Crash, GoTo, Running
    <2> QED  BY <2>3, <2>4
<1> QED  BY <1>1, <1>3, <1>4, <1>5, <1>6, <1>7, <1>8, <1>9 DEF Next

(* The Table Storage lease implements the abstract one. *)
THEOREM ImplementsLease == Spec => LeaseSpec
<1> QED  BY InitIInv, StepIInv, InitLease, StepLease, PTL DEF Spec, LeaseSpec, Lease!Spec
===============================================================================
