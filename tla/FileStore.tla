------------------------------- MODULE FileStore -------------------------------
(***************************************************************************)
(* Local runs of the miner: FileCursorStore keeps cursor and lease in one  *)
(* JSON file that every operation loads and, if it changes anything, saves *)
(* through one temporary file; LocalDirSource delivers whole files and     *)
(* moves the cursor once per file.  Nothing locks the store, so the steps  *)
(* of two processes interleave.                                            *)
(*                                                                         *)
(* All input files are there from the start.  A process is one launch: its *)
(* owner name, host and pid, is never used again.                          *)
(***************************************************************************)
EXTENDS Naturals, FiniteSets

CONSTANTS Process,     \* launches of the miner
          NoOwner,     \* the lease is null
          MaxFile,     \* input files, 1 .. MaxFile in the order of their path strings
          Place,       \* the place of each among the sorted Path objects
          MaxAlive,    \* bounds: processes at a time,
          MaxFaults,   \*   crashes and exceptions,
          MaxRepeats   \*   aligned files begun again

ASSUME OwnerAssumption == NoOwner \notin Process
ASSUME PlaceAssumption ==
    /\ Place \in [0 .. MaxFile -> Nat]      \* 0: no file
    /\ \A f, g \in 0 .. MaxFile : Place[f] = Place[g] => f = g
    /\ Place[0] = 0
ASSUME BoundAssumption ==
    MaxFile \in Nat /\ MaxAlive \in Nat /\ MaxFaults \in Nat /\ MaxRepeats \in Nat

VARIABLES
    file, tmp,   \* what the store's path and its .tmp hold
    pc, job,     \* per process: its step, and the store's operation it is in
    draft,       \*   the dictionary it has loaded and changed
    handle,      \*   what its open file has become: .tmp, the path, or nothing
    start,       \*   the cursor its poll began with,
    at,          \*   the input file the poll took last
    lapsed,      \* leases whose expiry has passed
    delivered,   \* history: input files mined to the last line,
    begun,       \*   begun,
    repeats,     \*   the aligned ones begun again,
    faults,      \*   crashes and exceptions,
    overlap,     \*   two changes of the store have overlapped,
    outlived     \*   a lease has lapsed under the miner that held it

store == <<file, tmp, draft, handle>>
position == <<start, at>>
mining == <<delivered, begun, repeats>>
history == <<faults, overlap, outlived>>
vars == <<store, pc, job, position, lapsed, mining, history>>

Content == [kind : {"absent", "empty", "torn", "whole"},
            cursor : 0 .. MaxFile, lease : Process \cup {NoOwner}]
Without(kind) == [kind |-> kind, cursor |-> 0, lease |-> NoOwner]

TypeOK ==
    /\ file \in Content /\ tmp \in Content
    /\ pc \in [Process -> {"off", "load", "open", "write", "replace", "read",
                           "reading", "ended"}]
    /\ job \in [Process -> {"acquire", "get", "set", "release"}]
    /\ draft \in [Process -> Content]
    /\ handle \in [Process -> {"none", "tmp", "path", "gone"}]
    /\ start \in [Process -> 0 .. MaxFile] /\ at \in [Process -> 0 .. MaxFile]
    /\ lapsed \subseteq Process
    /\ delivered \subseteq 1 .. MaxFile /\ begun \subseteq 1 .. MaxFile
    /\ repeats \in Nat /\ faults \in Nat
    /\ overlap \in BOOLEAN /\ outlived \in BOOLEAN

Init ==
    /\ file = Without("absent") /\ tmp = Without("absent")
    /\ pc = [p \in Process |-> "off"] /\ job = [p \in Process |-> "acquire"]
    /\ draft = [p \in Process |-> Without("absent")]
    /\ handle = [p \in Process |-> "none"]
    /\ start = [p \in Process |-> 0] /\ at = [p \in Process |-> 0]
    /\ lapsed = {}
    /\ delivered = {} /\ begun = {} /\ repeats = 0
    /\ faults = 0 /\ overlap = FALSE /\ outlived = FALSE

------------------------------------------------------------------------------

GoTo(p, s, j) == pc' = [pc EXCEPT ![p] = s] /\ job' = [job EXCEPT ![p] = j]

(* The poll loop: granted and not yet on the way out. *)
Mining(p) == pc[p] \notin {"off", "ended"} /\ job[p] \in {"get", "set"}

(* Between its load and its rename. *)
Changing(p) == pc[p] \in {"open", "write", "replace"}

(* The locals of a poll go when it is over. *)
Forget(p) == start' = [start EXCEPT ![p] = 0] /\ at' = [at EXCEPT ![p] = 0]

(* The finally of main(), and the end of a process: its memory is gone. *)
Leave(p) == GoTo(p, "load", "release") /\ Forget(p)
End(p) == GoTo(p, "ended", "release") /\ Forget(p)

(* An exception in acquire_lease or release_lease is not caught. *)
Raise(p) == IF Mining(p) THEN Leave(p) ELSE End(p)

Launch(p) ==
    /\ pc[p] = "off"
    /\ Cardinality({q \in Process : pc[q] \notin {"off", "ended"}}) < MaxAlive
    /\ GoTo(p, "load", "acquire")
    /\ UNCHANGED <<store, position, lapsed, mining, history>>

(* _load: no file is an empty store; json.loads rejects half a file. *)
Readable == file.kind \in {"absent", "whole"}
Loaded == [file EXCEPT !.kind = "whole"]

LoadFails(p) ==
    /\ pc[p] = "load" /\ ~Readable
    /\ Raise(p)
    /\ UNCHANGED <<store, lapsed, mining, history>>

(* Mutated form: the lease of another is not looked at. *)
GrantableAlways(p) == TRUE

Grantable(p) == Loaded.lease \in {NoOwner, p} \cup lapsed

(* The operations that change nothing: a refused lease, a get, and the release
   of a lease that is another's. *)
Refused(p) ==
    /\ pc[p] = "load" /\ Readable /\ job[p] = "acquire" /\ ~Grantable(p)
    /\ End(p)
    /\ UNCHANGED <<store, lapsed, mining, history>>

Get(p) ==
    /\ pc[p] = "load" /\ Readable /\ job[p] = "get"
    /\ GoTo(p, "read", "get")
    /\ start' = [start EXCEPT ![p] = Loaded.cursor]
    /\ at' = [at EXCEPT ![p] = 0]
    /\ UNCHANGED <<store, lapsed, mining, history>>

NotMine(p) ==
    /\ pc[p] = "load" /\ Readable /\ job[p] = "release" /\ Loaded.lease # p
    /\ End(p)
    /\ UNCHANGED <<store, lapsed, mining, history>>

Changes(p) == \/ job[p] = "acquire" /\ Grantable(p)
              \/ job[p] = "set"
              \/ job[p] = "release" /\ Loaded.lease = p

(* Mutated form: the cursors are not written back. *)
ChangedLeaseOnly(p) ==
    IF job[p] = "set" THEN [Loaded EXCEPT !.cursor = at[p]]
    ELSE [kind |-> "whole", lease |-> IF job[p] = "acquire" THEN p ELSE NoOwner]

Changed(p) ==
    IF job[p] = "set" THEN [Loaded EXCEPT !.cursor = at[p]]
    ELSE [Loaded EXCEPT !.lease = IF job[p] = "acquire" THEN p ELSE NoOwner]

Load(p) ==
    /\ pc[p] = "load" /\ Readable /\ Changes(p)
    /\ draft' = [draft EXCEPT ![p] = Changed(p)]
    /\ overlap' = (overlap \/ \E q \in Process \ {p} : Changing(q))
    /\ GoTo(p, "open", job[p])
    /\ UNCHANGED <<file, tmp, handle, position, lapsed, mining, faults, outlived>>

(* Mutated form: the path itself is written. *)
OpenPath(p) ==
    /\ pc[p] = "open"
    /\ file' = Without("empty")
    /\ handle' = [handle EXCEPT ![p] = "path"]
    /\ GoTo(p, "write", job[p])
    /\ UNCHANGED <<tmp, draft, position, lapsed, mining, history>>

(* _save, opening: write_text truncates the .tmp that is there, even one that
   another process has open, or creates it. *)
Open(p) ==
    /\ pc[p] = "open"
    /\ tmp' = Without("empty")
    /\ handle' = [handle EXCEPT ![p] = "tmp"]
    /\ GoTo(p, "write", job[p])
    /\ UNCHANGED <<file, draft, position, lapsed, mining, history>>

(* _save, writing and closing: over what another has written to the same file
   since, the result is the longer of the two or a mixture. *)
Over(c, p) == IF c.kind = "empty" THEN {draft[p]} ELSE {draft[p], Without("torn")}

Write(p) ==
    /\ pc[p] = "write"
    /\ IF handle[p] = "tmp" THEN tmp' \in Over(tmp, p) ELSE UNCHANGED tmp
    /\ IF handle[p] = "path" THEN file' \in Over(file, p) ELSE UNCHANGED file
    /\ handle' = [handle EXCEPT ![p] = "none"]
    /\ draft' = [draft EXCEPT ![p] = Without("absent")]
    /\ GoTo(p, "replace", job[p])
    /\ UNCHANGED <<position, lapsed, mining, history>>

Following(p) ==
    \/ job[p] = "acquire" /\ GoTo(p, "load", "get") /\ UNCHANGED position
    \/ job[p] = "set"     /\ GoTo(p, "read", "get") /\ UNCHANGED position
    \/ job[p] = "release" /\ End(p)

(* The rename moves whatever is at .tmp, with the files open there; the old
   file of the path is gone. *)
Renamed(h) == IF h = "tmp" THEN "path" ELSE IF h = "path" THEN "gone" ELSE h

Replace(p) ==
    /\ pc[p] = "replace" /\ tmp.kind # "absent"
    /\ file' = tmp /\ tmp' = Without("absent")
    /\ handle' = [q \in Process |-> Renamed(handle[q])]
    /\ Following(p)
    /\ UNCHANGED <<draft, lapsed, mining, history>>

(* FileNotFoundError: another process has renamed the one .tmp. *)
ReplaceFails(p) ==
    /\ pc[p] = "replace" /\ tmp.kind = "absent"
    /\ Raise(p)
    /\ UNCHANGED <<store, lapsed, mining, history>>

------------------------------------------------------------------------------

(* A file the loop of poll has still to come to, and does not pass over: it runs
   through the paths as Path objects compare, part by part, but passes over those
   whose string is not after the cursor's. *)
Ahead(p, f) == f > start[p] /\ Place[f] > Place[at[p]]

(* Mutated form: the files are not sorted. *)
IsNextUnsorted(p, f) == Ahead(p, f)

IsNext(p, f) == Ahead(p, f) /\ \A g \in 1 .. MaxFile : Ahead(p, g) => Place[f] <= Place[g]

(* Both orders have the same files before f and the same after it. *)
Aligned(f) == \A g \in 1 .. MaxFile : g < f <=> Place[g] < Place[f]

Begin(p, f) ==
    /\ pc[p] = "read" /\ IsNext(p, f)
    /\ f \in begun /\ Aligned(f) => repeats < MaxRepeats
    /\ begun' = begun \cup {f}
    /\ repeats' = repeats + (IF f \in begun /\ Aligned(f) THEN 1 ELSE 0)
    /\ at' = [at EXCEPT ![p] = f]
    /\ GoTo(p, "reading", "get")
    /\ UNCHANGED <<store, start, lapsed, delivered, history>>

(* Mutated form: the cursor is not set. *)
FinishUnsaved(p) ==
    /\ pc[p] = "reading"
    /\ delivered' = delivered \cup {at[p]}
    /\ GoTo(p, "read", "get")
    /\ UNCHANGED <<store, position, lapsed, begun, repeats, history>>

(* All lines are mined before the cursor is set. *)
Finish(p) ==
    /\ pc[p] = "reading"
    /\ delivered' = delivered \cup {at[p]}
    /\ GoTo(p, "load", "set")
    /\ UNCHANGED <<store, position, lapsed, begun, repeats, history>>

(* The poll is over: poll again, or leave if stop() was called. *)
Rest(p) ==
    /\ pc[p] = "read" /\ \A f \in 1 .. MaxFile : ~Ahead(p, f)
    /\ (GoTo(p, "load", "get") /\ Forget(p)) \/ Leave(p)
    /\ UNCHANGED <<store, lapsed, mining, history>>

(* A line that cannot be mined raises in the middle of its file. *)
Reject(p) ==
    /\ pc[p] = "reading" /\ faults < MaxFaults
    /\ Raise(p)
    /\ faults' = faults + 1
    /\ UNCHANGED <<store, lapsed, mining, overlap, outlived>>

(* A killed process closes its files and cleans up nothing. *)
Crash(p) ==
    /\ pc[p] \notin {"off", "ended"} /\ faults < MaxFaults
    /\ End(p)
    /\ handle' = [handle EXCEPT ![p] = "none"]
    /\ draft' = [draft EXCEPT ![p] = Without("absent")]
    /\ faults' = faults + 1
    /\ UNCHANGED <<file, tmp, lapsed, mining, overlap, outlived>>

(* The expiry in the store passes. *)
Lapse(p) ==
    /\ file.lease = p /\ p \notin lapsed
    /\ lapsed' = lapsed \cup {p}
    /\ outlived' = (outlived \/ Mining(p))
    /\ UNCHANGED <<store, pc, job, position, mining, faults, overlap>>

Operation(p) == \/ LoadFails(p) \/ Refused(p) \/ Get(p) \/ NotMine(p) \/ Load(p)
                \/ Open(p) \/ Write(p) \/ Replace(p) \/ ReplaceFails(p)

Poll(p) == Finish(p) \/ Rest(p) \/ Reject(p) \/ \E f \in 1 .. MaxFile : Begin(p, f)

Next == \E p \in Process : Launch(p) \/ Operation(p) \/ Poll(p) \/ Crash(p) \/ Lapse(p)

Spec == Init /\ [][Next]_vars

------------------------------------------------------------------------------

(* Whatever the operations of several processes do to each other, a file that is
   not after the cursor in the store has been mined to its end by somebody, or is
   passed over because of the two orders alone: one that is after it as a string
   and before it as a Path is not after the cursor either.  Lost updates take the
   cursor back, never forward (REQ-STATE-3). *)
NoSkip ==
    file.kind = "whole" =>
        \A f \in 1 .. file.cursor :
            f \in delivered \/ \E g \in f + 1 .. file.cursor : Place[g] < Place[f]

(* "Written atomically": what is at the path is a whole store or none, however
   often a save is cut off by a crash, unless two changes have overlapped. *)
FileIsWhole == overlap \/ Readable

(* At most one process mines under a lease that has not lapsed, unless two
   changes have overlapped: the lease is safe from everything but the lock the
   store does not have. *)
SingleRunner ==
    overlap \/ \A p, q \in Process : Mining(p) /\ Mining(q) => p = q \/ {p, q} \cap lapsed # {}

(* A crash or an exception makes at most one file be mined again, and nothing
   else does, while one process at a time mines and changes the store; but for the
   files on which the two orders disagree, which a poll mines again unprovoked. *)
OneFilePerFault == overlap \/ outlived \/ repeats <= faults

------------------------------------------------------------------------------

(* Granted and not yet gone: mining, or on the way out through the release. *)
Running(p) == pc[p] \notin {"off", "ended"} /\ job[p] # "acquire"

Lease == INSTANCE SweepLease
            WITH Owner <- Process,
                 holder <- file.lease,
                 live <- file.lease \notin lapsed \cup {NoOwner},
                 running <- {p \in Process : Running(p)},
                 overdue <- {p \in lapsed : Running(p)}

(* As long as no two changes of the store have overlapped, the file keeps the
   promise of the lease step by step: saves cut off, failed loads, crashes and
   lapses included, every step is one of the contract's or none.  What the file
   lacks against the other stores is the lock, and nothing else. *)
LeaseUnlessOverlap ==
    Lease!Init /\ [][overlap' \/ Lease!Next]_(Lease!vars)
===============================================================================
