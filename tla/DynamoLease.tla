------------------------------ MODULE DynamoLease ------------------------------
(***************************************************************************)
(* The lease item lease#miner of DynamoCursorStore (sources.py) and the    *)
(* miner processes that contend for it (worker.py main).  A process reads  *)
(* its own clock before it sends the conditional put, so the write it asks *)
(* for can arrive late and with another machine's idea of the time.  The   *)
(* put is retried by the AWS SDK when its response is lost.  Nothing       *)
(* renews the lease.                                                       *)
(***************************************************************************)
EXTENDS Integers

CONSTANTS Owner,    \* identities host-pid of miner processes
          NoOwner,  \* owner field of the absent item
          TTL,      \* LEASE_TTL_SECONDS, in ticks
          Skew,     \* how far two clocks can be from the true time
          MaxTime   \* bound of the clock, for model checking only

ASSUME NoOwnerAssumption == NoOwner \notin Owner
ASSUME TimeAssumption == TTL \in Nat \ {0} /\ Skew \in Nat /\ MaxTime \in Nat

VARIABLES now,     \* true time
          item,    \* the DynamoDB item: owner and expiry
          pc,      \* off, asking (main 258), running (main 262-276)
          clk,     \* the clock a process read at the start of acquire_lease
          until    \* history: the expiry a running process was granted

vars == <<now, item, pc, clk, until>>

NoItem == [owner |-> NoOwner, expiry |-> 0]
Item == [owner : Owner, expiry : Int] \cup {NoItem}

TypeOK ==
    /\ now \in Nat
    /\ item \in Item
    /\ pc \in [Owner -> {"off", "asking", "running"}]
    /\ clk \in [Owner -> Int]
    /\ until \in [Owner -> Int]

Init ==
    /\ now = 0
    /\ item = NoItem
    /\ pc = [o \in Owner |-> "off"]
    /\ clk = [o \in Owner |-> 0]
    /\ until = [o \in Owner |-> 0]

(* Mutated form: the comparison of the expiry is turned round. *)
GrantableReversed(o) ==
    \/ item.owner = NoOwner
    \/ item.expiry > clk[o]
    \/ item.owner = o

(* attribute_not_exists(pk) OR expiry < :now OR #o = :owner *)
Grantable(o) ==
    \/ item.owner = NoOwner
    \/ item.expiry < clk[o]
    \/ item.owner = o

(* A process starts (EventBridge, or a restart of the same container, which
   has the same host and pid) and reads its clock. *)
Start(o) ==
    /\ pc[o] = "off"
    /\ pc' = [pc EXCEPT ![o] = "asking"]
    /\ \E t \in (now - Skew) .. (now + Skew) : clk' = [clk EXCEPT ![o] = t]
    /\ UNCHANGED <<now, item, until>>

(* Mutated forms: the item is written without its expiry, or a repeated put
   extends the expiry it finds. *)
WriteOwnerOnly(o) == item' = [owner |-> o]
WriteExtending(o) == item' = [owner |-> o, expiry |-> item.expiry + TTL]

(* The item that the put stores. *)
Write(o) == item' = [owner |-> o, expiry |-> clk[o] + TTL]

(* The conditional put succeeds and its caller is told. *)
Put(o) ==
    /\ pc[o] = "asking"
    /\ Grantable(o)
    /\ Write(o)
    /\ pc' = [pc EXCEPT ![o] = "running"]
    /\ until' = [until EXCEPT ![o] = clk[o] + TTL]
    /\ UNCHANGED <<now, clk>>

(* It succeeds and the response is lost. The SDK sends it again (Put, with the
   same :now), or the process gives up (Fail). *)
PutUnacknowledged(o) ==
    /\ pc[o] = "asking"
    /\ Grantable(o)
    /\ Write(o)
    /\ UNCHANGED <<now, pc, clk, until>>

(* ConditionalCheckFailedException: main logs lease_not_acquired and exits 0. *)
Refused(o) ==
    /\ pc[o] = "asking"
    /\ ~Grantable(o)
    /\ pc' = [pc EXCEPT ![o] = "off"]
    /\ UNCHANGED <<now, item, clk, until>>

(* The process dies, or another ClientError ends it, before the try of main. *)
Fail(o) ==
    /\ pc[o] = "asking"
    /\ pc' = [pc EXCEPT ![o] = "off"]
    /\ UNCHANGED <<now, item, clk, until>>

(* Mutated form: the delete has no condition. *)
DeletedBlindly(o) == NoItem

(* release_lease deletes the item on the condition that it is still one's own. *)
Deleted(o) == IF item.owner = o THEN NoItem ELSE item

Release(o) ==
    /\ pc[o] = "running"
    /\ pc' = [pc EXCEPT ![o] = "off"]
    /\ item' = Deleted(o)
    /\ UNCHANGED <<now, clk, until>>

(* The task is killed, or the delete itself fails: the item is left behind. *)
Crash(o) ==
    /\ pc[o] = "running"
    /\ pc' = [pc EXCEPT ![o] = "off"]
    /\ UNCHANGED <<now, item, clk, until>>

Tick ==
    /\ now < MaxTime
    /\ now' = now + 1
    /\ UNCHANGED <<item, pc, clk, until>>

Next ==
    \/ Tick
    \/ \E o \in Owner :
          \/ Start(o) \/ Put(o) \/ PutUnacknowledged(o) \/ Refused(o)
          \/ Fail(o) \/ Release(o) \/ Crash(o)

Spec == Init /\ [][Next]_vars

------------------------------------------------------------------------------

Running == {o \in Owner : pc[o] = "running"}

(* No clock, however fast, has passed the expiry t. *)
InForceUntil(t) == now + Skew <= t

Overdue == {o \in Running : ~InForceUntil(until[o])}

(* The refinement: the item is a live lease as long as no clock reads past its
   expiry. *)
Lease == INSTANCE SweepLease WITH
             holder  <- item.owner,
             live    <- item.owner # NoOwner /\ InForceUntil(item.expiry),
             running <- Running,
             overdue <- Overdue

(* The store implements the lease contract, clock skew, late and repeated puts
   included. *)
LeaseSpec == Lease!Spec

(* Two miners never both run before the expiry each was granted: a takeover
   needs an expired or deleted item. *)
SingleRunner == Lease!SingleRunner

(* Why it holds: a miner whose lease is in force is the one the item names,
   and the item still carries the expiry that miner was granted. *)
InForceHolds ==
    \A o \in Running : InForceUntil(until[o]) => item = [owner |-> o, expiry |-> until[o]]

(* A lease left behind by a crash or by an unacknowledged put locks the other
   miners out for a bounded time: its expiry is at most a TTL ahead of the
   fastest clock (REQ-STATE-6, no permanent lockout). *)
BoundedLockout ==
    item.owner # NoOwner => item.expiry <= now + Skew + TTL
===============================================================================
