------------------------------ MODULE TableLease -------------------------------
(***************************************************************************)
(* The lease entity of TableCursorStore (azure_sources.py).  Table Storage *)
(* has no conditional write on a field, so acquire_lease takes several     *)
(* requests: insert, read, insert again or replace if the ETag still       *)
(* matches; release_lease reads and then deletes if the ETag matches.      *)
(* Other processes act between any two requests, a response can be lost    *)
(* and its request sent again by the SDK, and nothing renews the lease.    *)
(***************************************************************************)
EXTENDS Integers

CONSTANTS Owner,    \* identities host-pid of miner processes
          NoOwner,  \* owner field of the absent entity
          TTL,      \* LEASE_TTL_SECONDS, in ticks
          Skew,     \* how far two clocks can be from the true time
          MaxTime   \* bound of the clock, for model checking only

ASSUME NoOwnerAssumption == NoOwner \notin Owner
ASSUME TimeAssumption == TTL \in Nat \ {0} /\ Skew \in Nat /\ MaxTime \in Nat

VARIABLES now,     \* true time
          entity,  \* the entity lease/miner: owner and expiry
          valid,   \* the processes whose last read carries the current ETag
          pc,      \* the next request of each process
          clk,     \* the clock a process read at the start of acquire_lease
          until    \* history: the expiry a running process was granted

vars == <<now, entity, valid, pc, clk, until>>

NoEntity == [owner |-> NoOwner, expiry |-> 0]
Entity == [owner : Owner, expiry : Int] \cup {NoEntity}
Acquiring == {"create", "get", "recreate", "update"}

TypeOK ==
    /\ now \in Nat
    /\ entity \in Entity
    /\ valid \subseteq Owner
    /\ pc \in [Owner -> Acquiring \cup {"off", "running", "delete"}]
    /\ clk \in [Owner -> Int]
    /\ until \in [Owner -> Int]

Init ==
    /\ now = 0
    /\ entity = NoEntity
    /\ valid = {}
    /\ pc = [o \in Owner |-> "off"]
    /\ clk = [o \in Owner |-> 0]
    /\ until = [o \in Owner |-> 0]

Absent == entity.owner = NoOwner

GoTo(o, step) == pc' = [pc EXCEPT ![o] = step]

(* Mutated forms: the entity is written without its expiry, a repeated write
   extends the expiry, or the ETag stays as it was. *)
WriteOwnerOnly(o) ==
    /\ entity' = [owner |-> o]
    /\ valid' = {}

WriteExtending(o) ==
    /\ entity' = [owner |-> o, expiry |-> entity.expiry + TTL]
    /\ valid' = {}

WriteKeepingETag(o) ==
    /\ entity' = [owner |-> o, expiry |-> clk[o] + TTL]
    /\ UNCHANGED valid

(* Every write gives the entity a new ETag. *)
Write(o) ==
    /\ entity' = [owner |-> o, expiry |-> clk[o] + TTL]
    /\ valid' = {}

Granted(o) ==
    /\ Write(o)
    /\ GoTo(o, "running")
    /\ until' = [until EXCEPT ![o] = clk[o] + TTL]

Read(o) == valid' = valid \cup {o}

------------------------------------------------------------------------------
(* acquire_lease *)

Start(o) ==
    /\ pc[o] = "off"
    /\ GoTo(o, "create")
    /\ \E t \in (now - Skew) .. (now + Skew) : clk' = [clk EXCEPT ![o] = t]
    /\ UNCHANGED <<now, entity, valid, until>>

(* create(fresh): the first request, and the one retry after a release. *)
Create(o) ==
    /\ pc[o] \in {"create", "recreate"}
    /\ Absent
    /\ Granted(o)
    /\ UNCHANGED <<now, clk>>

(* ResourceExistsError: read the entity; after the retry, give up. *)
Exists(o) ==
    /\ ~Absent
    /\ \/ pc[o] = "create" /\ GoTo(o, "get")
       \/ pc[o] = "recreate" /\ GoTo(o, "off")
    /\ UNCHANGED <<now, entity, valid, clk, until>>

(* Only a lease of somebody else that has not expired refuses. *)
MayTakeOver(o) == entity.expiry <= clk[o] \/ entity.owner = o

Get(o) ==
    /\ pc[o] = "get"
    /\ IF Absent THEN GoTo(o, "recreate") /\ UNCHANGED valid
       ELSE IF MayTakeOver(o) THEN GoTo(o, "update") /\ Read(o)
       ELSE GoTo(o, "off") /\ UNCHANGED valid
    /\ UNCHANGED <<now, entity, clk, until>>

(* Mutated form: the request carries no If-Match condition. *)
ETagIgnored(o) == TRUE

(* The condition If-Match of update_entity and delete_entity. *)
ETagMatches(o) == o \in valid

(* update_if_match: replaces the entity it has read, or fails. *)
Update(o) ==
    /\ pc[o] = "update"
    /\ IF ETagMatches(o)
       THEN Granted(o)
       ELSE GoTo(o, "off") /\ UNCHANGED <<entity, valid, until>>
    /\ UNCHANGED <<now, clk>>

(* An insert or a replacement is applied and its response is lost. The SDK
   repeats the request, which then meets the process's own entity (Exists, or
   Update without a matching ETag), or the process gives up (Crash). *)
WriteUnacknowledged(o) ==
    /\ \/ pc[o] \in {"create", "recreate"} /\ Absent
       \/ pc[o] = "update" /\ ETagMatches(o)
    /\ Write(o)
    /\ UNCHANGED <<now, pc, clk, until>>

------------------------------------------------------------------------------
(* release_lease, and the end of a process. *)

Leave(o) ==
    /\ pc[o] = "running"
    /\ IF entity.owner = o THEN GoTo(o, "delete") /\ Read(o)
       ELSE GoTo(o, "off") /\ UNCHANGED valid
    /\ UNCHANGED <<now, entity, clk, until>>

(* delete_if_match: leaves an entity that has changed. *)
Delete(o) ==
    /\ pc[o] = "delete"
    /\ GoTo(o, "off")
    /\ IF ETagMatches(o) THEN entity' = NoEntity /\ valid' = {}
       ELSE UNCHANGED <<entity, valid>>
    /\ UNCHANGED <<now, clk, until>>

Crash(o) ==
    /\ pc[o] # "off"
    /\ GoTo(o, "off")
    /\ UNCHANGED <<now, entity, valid, clk, until>>

Tick ==
    /\ now < MaxTime
    /\ now' = now + 1
    /\ UNCHANGED <<entity, valid, pc, clk, until>>

Next ==
    \/ Tick
    \/ \E o \in Owner :
          \/ Start(o) \/ Create(o) \/ Exists(o) \/ Get(o) \/ Update(o)
          \/ WriteUnacknowledged(o) \/ Leave(o) \/ Delete(o) \/ Crash(o)

Spec == Init /\ [][Next]_vars

------------------------------------------------------------------------------

Running == {o \in Owner : pc[o] \in {"running", "delete"}}

(* No clock, however fast, has reached the expiry t. *)
InForceUntil(t) == now + Skew < t

Overdue == {o \in Running : ~InForceUntil(until[o])}

(* The refinement: the entity is a live lease as long as no clock has reached
   its expiry. *)
Lease == INSTANCE SweepLease WITH
             holder  <- entity.owner,
             live    <- entity.owner # NoOwner /\ InForceUntil(entity.expiry),
             running <- Running,
             overdue <- Overdue

(* The several requests amount to the lease contract: however processes
   interleave, an insert or a matching replacement is the atomic grant. *)
LeaseSpec == Lease!Spec

(* Two miners never both run before the expiry each was granted. *)
SingleRunner == Lease!SingleRunner

(* Why: the entity still names a miner whose lease is in force, with the expiry
   that miner was granted. *)
InForceHolds ==
    \A o \in Running :
        InForceUntil(until[o]) => entity = [owner |-> o, expiry |-> until[o]]

(* A decision taken on an earlier read is still right when its request arrives
   with a matching ETag: the entity to replace may be taken over, the entity to
   delete is one's own. *)
MatchingReadIsCurrent ==
    \A o \in valid :
        /\ pc[o] = "update" => ~Absent /\ MayTakeOver(o)
        /\ pc[o] = "delete" => entity.owner = o

(* An orphan lease locks the others out for a bounded time (REQ-STATE-6). *)
BoundedLockout == ~Absent => entity.expiry <= now + Skew + TTL
===============================================================================
