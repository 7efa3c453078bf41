-------------------------- MODULE DynamoLease_proofs --------------------------
(***************************************************************************)
(* DynamoLease keeps its invariants and implements SweepLease, for every   *)
(* set of owners, every TTL, every clock skew and an unbounded clock       *)
(* (MaxTime only stops Tick).                                              *)
(***************************************************************************)
EXTENDS DynamoLease, TLAPS

(* A clock reading, taken in the past, is never ahead of the time by more than
   the skew. *)
ClockBound == \A o \in Owner : clk[o] <= now + Skew

(* The inductive invariant: what the refinement needs of the reachable states. *)
IInv == TypeOK /\ ClockBound /\ InForceHolds /\ BoundedLockout

LEMMA InitIInv == Init => IInv
BY NoOwnerAssumption, TimeAssumption
   DEF Init, IInv, TypeOK, Item, NoItem, ClockBound, InForceHolds, Running,
       BoundedLockout

LEMMA StepIInv == IInv /\ [Next]_vars => IInv'
<1> SUFFICES ASSUME IInv, [Next]_vars PROVE IInv'
    OBVIOUS
<1> USE NoOwnerAssumption, TimeAssumption
    DEF IInv, TypeOK, Item, NoItem, ClockBound, InForceHolds, Running,
        InForceUntil, BoundedLockout
<1>1. CASE Tick
    BY <1>1 DEF Tick
<1>2. CASE \E o \in Owner : Start(o)
    <2>1. PICK o \in Owner : Start(o)  BY <1>2
    <2>2. PICK t \in (now - Skew) .. (now + Skew) : clk' = [clk EXCEPT ![o] = t]
        BY <2>1 DEF Start
    <2> QED  BY <2>1, <2>2 DEF Start
<1>3. CASE \E o \in Owner : Put(o)
    <2>1. PICK o \in Owner : Put(o)  BY <1>3
    <2>2. item' = [owner |-> o, expiry |-> clk[o] + TTL] /\ until'[o] = clk[o] + TTL
        BY <2>1 DEF Put, Write
    <2>3. TypeOK' /\ ClockBound' /\ BoundedLockout'
        BY <2>1, <2>2 DEF Put
    <2>4. \A p \in Owner : p # o /\ pc'[p] = "running" => ~InForceUntil(until'[p])
        BY <2>1 DEF Put, Grantable
    <2> QED  BY <2>1, <2>2, <2>3, <2>4 DEF Put
<1>4. CASE \E o \in Owner : PutUnacknowledged(o)
    <2>1. PICK o \in Owner : PutUnacknowledged(o)  BY <1>4
    <2>2. TypeOK' /\ ClockBound' /\ BoundedLockout'
        BY <2>1 DEF PutUnacknowledged, Write
    <2>3. \A p \in Owner : pc'[p] = "running" => ~InForceUntil(until'[p])
        BY <2>1 DEF PutUnacknowledged, Grantable
    <2> QED  BY <2>1, <2>2, <2>3 DEF PutUnacknowledged
<1>5. CASE \E o \in Owner : Refused(o)
    BY <1>5 DEF Refused
<1>6. CASE \E o \in Owner : Fail(o)
    BY <1>6 DEF Fail
<1>7. CASE \E o \in Owner : Release(o)
    <2>1. PICK o \in Owner : Release(o)  BY <1>7
    <2>2. TypeOK' /\ ClockBound' /\ BoundedLockout'
        BY <2>1 DEF Release, Deleted
    <2>3. InForceHolds'
        BY <2>1 DEF Release, Deleted
    <2> QED  BY <2>2, <2>3
<1>8. CASE \E o \in Owner : Crash(o)
    BY <1>8 DEF Crash
<1>9. CASE UNCHANGED vars
    BY <1>9 DEF vars
<1> QED  BY <1>1, <1>2, <1>3, <1>4, <1>5, <1>6, <1>7, <1>8, <1>9 DEF Next

(* Type correctness of the DynamoDB lease. *)
THEOREM TypeCorrect == Spec => []TypeOK
<1>1. IInv => TypeOK  BY DEF IInv
<1> QED  BY <1>1, InitIInv, StepIInv, PTL DEF Spec

(* Two miners never both run before the expiry each was granted, whatever the
   clock skew and however late or often the conditional put arrives. *)
THEOREM SingleRunnerAlways == Spec => []SingleRunner
<1>1. IInv => SingleRunner
    BY DEF IInv, TypeOK, InForceHolds, SingleRunner, Overdue, Running, Lease!SingleRunner,
           Lease!InForce
<1> QED  BY <1>1, InitIInv, StepIInv, PTL DEF Spec

(* A lease nobody releases ends by itself at most a TTL (and the skew) later. *)
THEOREM LockoutIsBounded == Spec => []BoundedLockout
<1>1. IInv => BoundedLockout  BY DEF IInv
<1> QED  BY <1>1, InitIInv, StepIInv, PTL DEF Spec

(* A miner whose lease is in force is the one the item names, with the expiry it
   was granted, although puts arrive late, twice or unacknowledged. *)
THEOREM InForceAlwaysHolds == Spec => []InForceHolds
<1>1. IInv => InForceHolds  BY DEF IInv
<1> QED  BY <1>1, InitIInv, StepIInv, PTL DEF Spec

------------------------------------------------------------------------------
(* The refinement, step by step. *)

LEMMA InitLease == Init => Lease!Init
BY DEF Init, Lease!Init, NoItem, Running, Overdue

LEMMA StepLease == IInv /\ [Next]_vars => [Lease!Next]_Lease!vars
<1> SUFFICES ASSUME IInv, [Next]_vars PROVE [Lease!Next]_Lease!vars
    OBVIOUS
<1> DEFINE Live == item.owner # NoOwner /\ InForceUntil(item.expiry)
<1> USE NoOwnerAssumption, TimeAssumption
    DEF IInv, TypeOK, Item, NoItem, ClockBound, InForceHolds, InForceUntil
<1>1. CASE Tick
    <2>1. Running' = Running /\ item' = item /\ until' = until /\ now' = now + 1
        BY <1>1 DEF Tick, Running
    <2>2. CASE Live /\ ~Live'
        <3>1. \A o \in Running : ~InForceUntil(until[o])'
            BY <2>1, <2>2 DEF Running
        <3>2. Overdue' = Running
            BY <2>1, <3>1 DEF Overdue
        <3> QED  BY <2>1, <2>2, <3>2 DEF Lease!Next, Lease!Lapse
    <2>3. CASE ~Live
        <3>1. Overdue = Running
            BY <2>3 DEF Overdue, Running
        <3>2. Overdue' = Running
            BY <2>1, <3>1 DEF Overdue, Running
        <3>3. ~Live'
            BY <2>1, <2>3
        <3> QED  BY <2>1, <2>3, <3>1, <3>2, <3>3 DEF Lease!vars
    <2>4. CASE Live /\ Live'
        <3>1. Overdue' = Overdue
            BY <2>1, <2>4 DEF Overdue, Running
        <3> QED  BY <2>1, <2>4, <3>1 DEF Lease!vars
    <2> QED  BY <2>2, <2>3, <2>4
<1>2. CASE \E o \in Owner : Start(o)
    <2>1. Running' = Running /\ Overdue' = Overdue /\ item' = item /\ now' = now
        BY <1>2 DEF Start, Running, Overdue
    <2> QED  BY <2>1 DEF Lease!vars
<1>3. CASE \E o \in Owner : Put(o)
    <2>1. PICK o \in Owner : Put(o)  BY <1>3
    <2>2. o \notin Running /\ Running' = Running \cup {o}
        BY <2>1 DEF Put, Running
    <2>3. item'.owner = o /\ item'.expiry = clk[o] + TTL /\ until'[o] = clk[o] + TTL
        BY <2>1 DEF Put, Write
    <2>4. Lease!Grantable(o)
        BY <2>1 DEF Put, Grantable, Lease!Grantable
    <2>5. Overdue' = IF Live' THEN Overdue ELSE Overdue \cup {o}
        BY <2>1, <2>2, <2>3 DEF Put, Overdue, Running
    <2>6. Lease!Acquire(o)
        BY <2>2, <2>3, <2>4, <2>5 DEF Lease!Acquire
    <2> QED  BY <2>6 DEF Lease!Next
<1>4. CASE \E o \in Owner : PutUnacknowledged(o)
    <2>1. PICK o \in Owner : PutUnacknowledged(o)  BY <1>4
    <2>2. o \notin Running /\ Running' = Running /\ Overdue' = Overdue
        BY <2>1 DEF PutUnacknowledged, Running, Overdue
    <2>3. item'.owner = o
        BY <2>1 DEF PutUnacknowledged, Write
    <2>4. Lease!Grantable(o)
        BY <2>1 DEF PutUnacknowledged, Grantable, Lease!Grantable
    <2>5. Lease!AcquireUnseen(o)
        BY <2>2, <2>3, <2>4 DEF Lease!AcquireUnseen
    <2> QED  BY <2>5 DEF Lease!Next
<1>5. CASE \E o \in Owner : Refused(o) \/ Fail(o)
    <2>1. Running' = Running /\ Overdue' = Overdue /\ item' = item /\ now' = now
        BY <1>5 DEF Refused, Fail, Running, Overdue
    <2> QED  BY <2>1 DEF Lease!vars
<1>6. CASE \E o \in Owner : Release(o)
    <2>1. PICK o \in Owner : Release(o)  BY <1>6
    <2>2. o \in Running /\ Running' = Running \ {o} /\ Overdue' = Overdue \ {o}
        BY <2>1 DEF Release, Running, Overdue
    <2>3. item'.owner = (IF item.owner = o THEN NoOwner ELSE item.owner)
        BY <2>1 DEF Release, Deleted
    <2>4. Live' = (Live /\ item.owner # o)
        BY <2>1 DEF Release, Deleted
    <2>5. Lease!Release(o)
        BY <2>2, <2>3, <2>4 DEF Lease!Release
    <2> QED  BY <2>5 DEF Lease!Next
<1>7. CASE \E o \in Owner : Crash(o)
    <2>1. PICK o \in Owner : Crash(o)  BY <1>7
    <2>2. o \in Running /\ Running' = Running \ {o} /\ Overdue' = Overdue \ {o}
        BY <2>1 DEF Crash, Running, Overdue
    <2>3. item' = item /\ now' = now
        BY <2>1 DEF Crash
    <2>4. Lease!Crash(o)
        BY <2>2, <2>3 DEF Lease!Crash
    <2> QED  BY <2>4 DEF Lease!Next
<1>8. CASE UNCHANGED vars
    BY <1>8 DEF vars, Lease!vars, Running, Overdue
<1> QED  BY <1>1, <1>2, <1>3, <1>4, <1>5, <1>6, <1>7, <1>8 DEF Next

(* The DynamoDB lease implements the abstract one: every step of a process or
   of the clock is a step the contract allows, or none. *)
THEOREM ImplementsLease == Spec => LeaseSpec
<1> QED  BY InitIInv, StepIInv, InitLease, StepLease, PTL DEF Spec, LeaseSpec, Lease!Spec

------------------------------------------------------------------------------
(* The contract is enough: whatever the store does, if its steps are the
   contract's, whoever runs under a lease in force is the holder of a live one. *)

Live == item.owner # NoOwner /\ InForceUntil(item.expiry)

ContractInv == \A o \in Running \ Overdue : item.owner = o /\ Live

LEMMA StepContract == ContractInv /\ [Lease!Next]_(Lease!vars) => ContractInv'
<1> SUFFICES ASSUME ContractInv, [Lease!Next]_(Lease!vars) PROVE ContractInv'
    OBVIOUS
<1>1. CASE UNCHANGED Lease!vars
    <2>1. UNCHANGED <<item.owner, Live, Running, Overdue>>
        BY <1>1 DEF Lease!vars, Live
    <2> QED  BY <2>1 DEF ContractInv
<1>2. CASE Lease!Lapse
    <2>1. Overdue' = Running /\ Running' = Running
        BY <1>2 DEF Lease!Lapse
    <2> QED  BY <2>1 DEF ContractInv
<1>3. ASSUME NEW o \in Owner, Lease!Acquire(o) PROVE ContractInv'
    <2>1. /\ item'.owner = o /\ Running' = Running \cup {o}
          /\ ~Live \/ item.owner = o
          /\ Overdue' = IF Live' THEN Overdue ELSE Overdue \cup {o}
        BY <1>3 DEF Lease!Acquire, Lease!Grantable, Live
    <2>2. CASE Live'
        <3>1. \A q \in Running \ Overdue : q = o
            BY <2>1 DEF ContractInv
        <3> QED  BY <2>1, <2>2, <3>1 DEF ContractInv
    <2>3. CASE ~Live'
        <3>1. \A q \in Running \ Overdue : q = o
            BY <2>1 DEF ContractInv
        <3>2. Running' \ Overdue' = {}
            BY <2>1, <2>3, <3>1
        <3> QED  BY <3>2 DEF ContractInv
    <2> QED  BY <2>2, <2>3
<1>4. ASSUME NEW o \in Owner, Lease!AcquireUnseen(o) PROVE ContractInv'
    <2>1. /\ o \notin Running /\ Running' = Running /\ Overdue' = Overdue
          /\ ~Live \/ item.owner = o
        BY <1>4 DEF Lease!AcquireUnseen, Lease!Grantable, Live
    <2> QED  BY <2>1 DEF ContractInv
<1>5. ASSUME NEW o \in Owner, Lease!Release(o) PROVE ContractInv'
    <2>1. /\ Running' = Running \ {o} /\ Overdue' = Overdue \ {o}
          /\ item'.owner = IF item.owner = o THEN NoOwner ELSE item.owner
          /\ Live' = (Live /\ item.owner # o)
        BY <1>5 DEF Lease!Release, Live
    <2> QED  BY <2>1 DEF ContractInv
<1>6. ASSUME NEW o \in Owner, Lease!Crash(o) PROVE ContractInv'
    <2>1. /\ Running' = Running \ {o} /\ Overdue' = Overdue \ {o}
          /\ item'.owner = item.owner /\ Live' = Live
        BY <1>6 DEF Lease!Crash, Live
    <2> QED  BY <2>1 DEF ContractInv
<1> QED  BY <1>1, <1>2, <1>3, <1>4, <1>5, <1>6 DEF Lease!Next

(* Single-runner exclusion follows from the contract alone: a store that
   implements it needs no other argument. *)
THEOREM ContractKeepsOneRunner == LeaseSpec => []SingleRunner
<1>1. Lease!Init => ContractInv
    BY DEF Lease!Init, ContractInv
<1>2. ContractInv => SingleRunner
    BY DEF ContractInv, SingleRunner, Lease!SingleRunner, Lease!InForce
<1> QED  BY <1>1, <1>2, StepContract, PTL DEF LeaseSpec, Lease!Spec
===============================================================================
