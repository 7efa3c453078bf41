-------------------------------- MODULE Miner ---------------------------------
(***************************************************************************)
(* Miner processes sweeping the ingestion lake (worker.py main and run,    *)
(* poll of S3Source or BlobSource, the cursor store, ResultsSink): each    *)
(* takes the lease of the single runner, then polls again and again.       *)
(* A poll reads the durable cursor once, lists the keys after it page by   *)
(* page, mines each record and moves the cursor to it.  Judged rows wait   *)
(* in memory until the poll ends and are then stored under today's date    *)
(* and the sweep id.                                                       *)
(*                                                                         *)
(* The lease is the one of SweepLease: here it lapses at some moment, its  *)
(* clock is in DynamoLease and TableLease.  A record is its key; keys are  *)
(* numbered in their lexicographic order.                                  *)
(***************************************************************************)
EXTENDS Naturals, FiniteSets

CONSTANTS Proc,        \* identities host-pid of miner processes
          NoProc,      \* nobody holds the lease
          Key,         \* object keys, as their ranks in lexicographic order
          Json,        \* those that end in .json
          Poison,      \* records whose body the miner cannot process
          Failing,     \* records with a failure, which the judge may score
          Date,        \* the date written in each key
          PageSize,    \* most keys per page of a listing
          MaxDay,      \* bounds: days,
          MaxFaults,   \*   crashes, exceptions and lost responses,
          MaxSignals   \*   SIGTERM or SIGINT

ASSUME ProcAssumption == NoProc \notin Proc
ASSUME KeyAssumption ==
    /\ Key \subseteq Nat \ {0}
    /\ Json \subseteq Key
    /\ Poison \subseteq Key
    /\ Failing \subseteq Key
    /\ Date \in [Key -> Nat]
ASSUME BoundAssumption ==
    /\ PageSize \in Nat \ {0}
    /\ MaxDay \in Nat
    /\ MaxFaults \in Nat
    /\ MaxSignals \in Nat

VARIABLES
    lake,      \* the keys in the bucket
    cursor,    \* the durable cursor; 0 is "never set"
    holder,    \* the owner in the lease item
    live,      \* the lease is in force
    pc,        \* where each process is
    after,     \* the listing of a process continues after this key
    more,      \* its last page was truncated
    page,      \* the .json keys of its page that are not settled yet
    buffer,    \* rows it has judged since its last flush
    object,    \* rows in the object its next flush of today would replace
    archive,   \* rows in the objects no process will write again
    today,     \* the current UTC date
    faults, signals,   \* counted against their bounds
    \* history:
    overdue,   \* running processes whose lease has lapsed
    overran,   \* some process has been overdue
    late,      \* keys that were uploaded behind a sweep (backfills)
    mined,     \* keys process_record has completed
    judged,    \* rows the judge has scored
    repeats    \* how often a mined record was mined again

store == <<cursor, holder, live>>
local == <<pc, after, more, page, buffer>>
rows == <<object, archive, judged>>
history == <<overdue, overran, late, mined, repeats>>
vars == <<lake, store, local, rows, today, faults, signals, history>>

Polling == {"listing", "record", "commit"}
Working == Polling \cup {"loop", "flushing"}
Running == {p \in Proc : pc[p] # "off"}

TypeOK ==
    /\ lake \subseteq Key
    /\ cursor \in Key \cup {0}
    /\ holder \in Proc \cup {NoProc}
    /\ live \in BOOLEAN
    /\ pc \in [Proc -> Working \cup {"off", "leaving", "failing"}]
    /\ after \in [Proc -> Key \cup {0}]
    /\ more \in [Proc -> BOOLEAN]
    /\ page \in [Proc -> SUBSET (lake \cap Json)]
    /\ buffer \in [Proc -> SUBSET Failing]
    /\ object \in [Proc -> SUBSET Failing]
    /\ archive \subseteq Failing
    /\ judged \subseteq Failing
    /\ today \in Nat
    /\ faults \in Nat
    /\ signals \in Nat
    /\ overdue \subseteq Running
    /\ overran \in BOOLEAN
    /\ late \subseteq lake
    /\ mined \subseteq lake
    /\ repeats \in Nat

Init ==
    /\ lake = {}
    /\ cursor = 0
    /\ holder = NoProc
    /\ live = FALSE
    /\ pc = [p \in Proc |-> "off"]
    /\ after = [p \in Proc |-> 0]
    /\ more = [p \in Proc |-> FALSE]
    /\ page = [p \in Proc |-> {}]
    /\ buffer = [p \in Proc |-> {}]
    /\ object = [p \in Proc |-> {}]
    /\ archive = {}
    /\ judged = {}
    /\ today = 0
    /\ faults = 0
    /\ signals = 0
    /\ overdue = {}
    /\ overran = FALSE
    /\ late = {}
    /\ mined = {}
    /\ repeats = 0

------------------------------------------------------------------------------
(* The world around the miners. *)

(* The ingestion gateway adds an object, dated today or earlier. *)
BehindSweep(k) ==
    \/ k <= cursor
    \/ \E p \in Proc : pc[p] \in Polling /\ k <= after[p]

Upload(k) ==
    /\ k \notin lake
    /\ Date[k] <= today
    /\ lake' = lake \cup {k}
    /\ late' = IF BehindSweep(k) THEN late \cup {k} ELSE late
    /\ UNCHANGED <<store, local, rows, today, faults, signals,
                   overdue, overran, mined, repeats>>

(* From midnight on, flushes go to another date partition. *)
NewDay ==
    /\ today < MaxDay
    /\ today' = today + 1
    /\ archive' = archive \cup UNION {object[p] : p \in Proc}
    /\ object' = [p \in Proc |-> {}]
    /\ UNCHANGED <<lake, store, local, judged, faults, signals, history>>

(* The TTL of the lease runs out; nothing has renewed it. *)
Lapse ==
    /\ live
    /\ live' = FALSE
    /\ overdue' = Running
    /\ overran' = (overran \/ Running # {})
    /\ UNCHANGED <<lake, cursor, holder, local, rows, today, faults, signals,
                   late, mined, repeats>>

------------------------------------------------------------------------------
(* Start and end of a process. *)

(* The condition of the lease write. *)
Grantable(p) == ~live \/ holder = p

(* acquire_lease succeeds. A refused launch exits 0 and changes nothing. *)
Launch(p) ==
    /\ pc[p] = "off"
    /\ Grantable(p)
    /\ holder' = p
    /\ live' = TRUE
    /\ pc' = [pc EXCEPT ![p] = "loop"]
    /\ UNCHANGED <<lake, cursor, after, more, page, buffer, rows, today,
                   faults, signals, history>>

(* The conditional write is applied, its response is lost and the process
   ends: acquire_lease is called outside the try of main. *)
LaunchUnseen(p) ==
    /\ pc[p] = "off"
    /\ Grantable(p)
    /\ faults < MaxFaults
    /\ faults' = faults + 1
    /\ holder' = p
    /\ live' = TRUE
    /\ UNCHANGED <<lake, cursor, local, rows, today, signals, history>>

(* The process is gone: its memory is lost and, as a new process has a new
   sweep id, no later flush replaces the objects it has stored. *)
EndProcess(p) ==
    /\ pc' = [pc EXCEPT ![p] = "off"]
    /\ page' = [page EXCEPT ![p] = {}]
    /\ buffer' = [buffer EXCEPT ![p] = {}]
    /\ archive' = archive \cup object[p]
    /\ object' = [object EXCEPT ![p] = {}]
    /\ overdue' = overdue \ {p}
    /\ UNCHANGED <<lake, cursor, after, more, judged, today, signals,
                   overran, late, mined, repeats>>

(* Mutated form: the delete has no condition. *)
FreedAlways(p) == TRUE

(* release_lease deletes the lease item only if it is one's own. *)
Freed(p) == holder = p

(* The finally of main: release_lease, then exit. *)
Release(p) ==
    /\ pc[p] \in {"leaving", "failing"}
    /\ EndProcess(p)
    /\ holder' = IF Freed(p) THEN NoProc ELSE holder
    /\ live' = (live /\ ~Freed(p))
    /\ UNCHANGED faults

(* Killed, or release_lease raises: the lease item stays. *)
Crash(p) ==
    /\ pc[p] # "off"
    /\ faults < MaxFaults
    /\ faults' = faults + 1
    /\ EndProcess(p)
    /\ UNCHANGED <<holder, live>>

------------------------------------------------------------------------------
(* MiningWorker.run and S3Source.poll. *)

(* The stop flag is tested only between two polls; SIGTERM set it. *)
Leave(p) ==
    /\ pc[p] = "loop"
    /\ signals < MaxSignals
    /\ signals' = signals + 1
    /\ pc' = [pc EXCEPT ![p] = "leaving"]
    /\ UNCHANGED <<lake, store, after, more, page, buffer, rows, today, faults,
                   history>>

(* poll() reads the cursor, once. *)
StartPoll(p) ==
    /\ pc[p] = "loop"
    /\ after' = [after EXCEPT ![p] = cursor]
    /\ pc' = [pc EXCEPT ![p] = "listing"]
    /\ UNCHANGED <<lake, store, more, page, buffer, rows, today, faults, signals,
                   history>>

(* Mutated forms: StartAfter is taken as "from", or is forgotten. *)
UnlistedFrom(p) == {k \in lake : k >= after[p]}
UnlistedAll(p) == lake

(* The keys after StartAfter, or after the last page. *)
Unlisted(p) == {k \in lake : k > after[p]}

(* A page is the first keys of those left, at most PageSize of them.  Blob
   listing has no StartAfter: it starts at the first name, so the page in which
   the cursor lies brings fewer than PageSize names after it. *)
IsPage(batch, keys) ==
    /\ \A k \in batch, j \in keys \ batch : k < j
    /\ batch = {} => keys = {}
    /\ Cardinality(batch) <= PageSize

IsLast(k, batch) == k \in batch /\ \A j \in batch : j <= k

(* Mutated form: the suffix is not tested. *)
WantedAny(batch) == batch

(* key.endswith(".json") *)
Wanted(batch) == batch \cap Json

(* Mutated forms: IsTruncated is not looked at, or the poll ends without a
   flush. *)
ContinueOnePage(p, records, truncated) ==
    pc' = [pc EXCEPT ![p] = IF records # {} THEN "record" ELSE "flushing"]

ContinueUnflushed(p, records, truncated) ==
    pc' = [pc EXCEPT ![p] = IF records # {} THEN "record"
                            ELSE IF truncated THEN "listing" ELSE "loop"]

(* Where the loops of poll() and run() go next. *)
Continue(p, records, truncated) ==
    pc' = [pc EXCEPT ![p] = IF records # {} THEN "record"
                            ELSE IF truncated THEN "listing" ELSE "flushing"]

ListPage(p) ==
    /\ pc[p] = "listing"
    /\ \E batch \in SUBSET Unlisted(p) :
          /\ IsPage(batch, Unlisted(p))
          /\ page' = [page EXCEPT ![p] = Wanted(batch)]
          /\ more' = [more EXCEPT ![p] = batch # Unlisted(p)]
          /\ IF batch = {}
             THEN UNCHANGED after
             ELSE \E k \in batch : IsLast(k, batch) /\ after' = [after EXCEPT ![p] = k]
          /\ Continue(p, page'[p], more'[p])
    /\ UNCHANGED <<lake, store, buffer, rows, today, faults, signals, history>>

(* Mutated form: a page is worked off backwards. *)
IsNextBackwards(k, keys) == k \in keys /\ \A j \in keys : j <= k

(* Records are delivered in the order of their keys. *)
IsNext(k, keys) == k \in keys /\ \A j \in keys : k <= j

(* get_object, json.loads and process_record. The dedup gate decides whether a
   failing record is judged; a judged one is a row in the buffer. *)
Mine(p) ==
    /\ pc[p] = "record"
    /\ \E k \in page[p] \ Poison :
          /\ IsNext(k, page[p])
          /\ \E score \in BOOLEAN :
                /\ score => k \in Failing
                /\ buffer' = [buffer EXCEPT ![p] = IF score THEN @ \cup {k} ELSE @]
                /\ judged' = IF score THEN judged \cup {k} ELSE judged
          /\ mined' = mined \cup {k}
          /\ repeats' = IF k \in mined THEN repeats + 1 ELSE repeats
    /\ pc' = [pc EXCEPT ![p] = "commit"]
    /\ UNCHANGED <<lake, store, after, more, page, object, archive, today, faults,
                   signals, overdue, overran, late>>

(* json.loads or process_record raises, out of poll() and out of run(). *)
MinePoison(p) ==
    /\ pc[p] = "record"
    /\ \E k \in page[p] \cap Poison : IsNext(k, page[p])
    /\ pc' = [pc EXCEPT ![p] = "failing"]
    /\ UNCHANGED <<lake, store, after, more, page, buffer, rows, today, faults,
                   signals, history>>

(* The consumer is done with the record: store.set(cursor_key, key). *)
Commit(p) ==
    /\ pc[p] = "commit"
    /\ \E k \in page[p] :
          /\ IsNext(k, page[p])
          /\ cursor' = k
          /\ page' = [page EXCEPT ![p] = @ \ {k}]
          /\ Continue(p, page[p] \ {k}, more[p])
    /\ UNCHANGED <<lake, holder, live, after, more, buffer, rows, today, faults,
                   signals, history>>

(* Mutated form: the test for an empty buffer is gone. *)
StoreEmptyToo(p) == object' = [object EXCEPT ![p] = buffer[p]]

(* _store replaces the object results/dt=<today>/<sweep id>.jsonl. *)
Store(p) == object' = [object EXCEPT ![p] = IF buffer[p] = {} THEN @ ELSE buffer[p]]

Flush(p) ==
    /\ pc[p] = "flushing"
    /\ Store(p)
    /\ buffer' = [buffer EXCEPT ![p] = {}]
    /\ pc' = [pc EXCEPT ![p] = "loop"]
    /\ UNCHANGED <<lake, store, after, more, page, archive, judged, today, faults,
                   signals, history>>

(* A call to a store or to the bucket raises; a write may have been applied. *)
Raise(p) ==
    /\ pc[p] \in Working
    /\ faults < MaxFaults
    /\ faults' = faults + 1
    /\ \/ UNCHANGED <<cursor, object>>
       \/ /\ pc[p] = "commit"
          /\ \E k \in page[p] : IsNext(k, page[p]) /\ cursor' = k
          /\ UNCHANGED object
       \/ /\ pc[p] = "flushing"
          /\ Store(p)
          /\ UNCHANGED cursor
    /\ pc' = [pc EXCEPT ![p] = "failing"]
    /\ UNCHANGED <<lake, holder, live, after, more, page, buffer, archive, judged,
                   today, signals, history>>

------------------------------------------------------------------------------

Step(p) ==
    \/ StartPoll(p) \/ ListPage(p) \/ Mine(p) \/ MinePoison(p) \/ Commit(p)
    \/ Flush(p) \/ Release(p)

Next ==
    \/ \E k \in Key : Upload(k)
    \/ NewDay
    \/ Lapse
    \/ \E p \in Proc :
          \/ Launch(p) \/ LaunchUnseen(p) \/ Leave(p) \/ Step(p)
          \/ Raise(p) \/ Crash(p)

Spec == Init /\ [][Next]_vars

(* A running process keeps taking its steps (a single-threaded loop that blocks
   only in calls with a timeout); a lease that is not released lapses; and the
   scheduler fires again every fifteen minutes (eventbridge.tf), so that some
   launch eventually finds the lease free. Faults and signals are not fair. *)
Fairness ==
    /\ WF_vars(Lapse)
    /\ WF_vars(\E p \in Proc : Launch(p))
    /\ \A p \in Proc : WF_vars(Step(p))

FairSpec == Spec /\ Fairness

------------------------------------------------------------------------------

(* The lease contract the miners rely on. *)
Lease == INSTANCE SweepLease WITH
             Owner <- Proc, NoOwner <- NoProc, running <- Running

LeaseSpec == Lease!Spec

(* Two miners never both run under a lease in force. *)
SingleRunner == Lease!SingleRunner

(* REQ-STATE-3, never skips: the cursor has passed no record that was not
   mined, except those uploaded behind a sweep, which are skipped by design.
   Crashes, several pages, objects that arrive during a poll and a cursor that
   an overdue miner moves back are all allowed. *)
NoSkip == \A k \in (lake \cap Json) \ late : k <= cursor => k \in mined

(* As long as no miner has outlived its lease, the cursor only moves forward. *)
CursorForward == [][~overran' => cursor' >= cursor]_vars

(* REQ-STATE-3, re-delivers exactly that record: as long as no miner has
   outlived its lease, each fault makes at most one record be mined again. *)
OneRepeatPerFault == ~overran => repeats <= faults

(* A miner that leaves on a signal has no judged row left in memory. *)
LeavesFlushed == \A p \in Proc : pc[p] = "leaving" => buffer[p] = {}

(* The rows in the bucket or on their way there. *)
Kept == archive \cup UNION {object[p] \cup buffer[p] : p \in Proc}

(* What can happen to a judged row: it is lost only with the memory of a process
   that a fault or a rejected record has ended, or because a later flush of the
   same process on the same day brought other rows.  Midnight, a clean end, an
   empty flush, lapses and the other miners lose nothing. *)
LostOnlyByCrashOrReplacement ==
    [][\A k \in Kept \ Kept' : \E p \in Proc :
          \/ k \in buffer[p] /\ pc'[p] = "off" /\ pc[p] # "leaving"
          \/ k \in object[p] /\ pc[p] = "flushing" /\ buffer[p] # {}]_vars

(* At-least-once delivery: a record that is not uploaded behind a sweep is
   eventually mined, through crashes, overruns and restarts. *)
EveryRecordMined ==
    \A k \in Json \ Poison : (k \in lake \ late) ~> (k \in mined)

------------------------------------------------------------------------------
(* What the documentation says and the code does not do. *)

(* results.py 1: every judged case lands in queryable storage. The row of every
   judged record the cursor has passed, which no later sweep will mine again, is
   in an object of the bucket or waits in a buffer. *)
JudgedRowsKept ==
    \A k \in judged : k <= cursor =>
        k \in archive \cup UNION {object[p] \cup buffer[p] : p \in Proc}

(* sources.py 8-10: lexicographic resume is chronological and only backfills
   are skipped. An object dated today is never uploaded behind a sweep. *)
TodaysObjectsAhead ==
    [][\A k \in lake' \ lake : Date[k] = today => k \notin late']_vars
===============================================================================
