------------------------------- MODULE CostGate --------------------------------
(***************************************************************************)
(* The semantic deduplication gate in front of the paid judge              *)
(* (SemanticDeduplicator in dedup.py, asked by _judge_case in worker.py).  *)
(* A case that is near a fingerprint in memory is dropped; any other is    *)
(* fingerprinted and goes to the judge.  Fingerprints age out after a TTL, *)
(* the oldest one goes when the memory is full, and a duplicate refreshes  *)
(* nothing.                                                                *)
(*                                                                         *)
(* A text stands for its shingle set; nearness (Jaccard similarity of at   *)
(* least the threshold) is symmetric but not transitive.                   *)
(***************************************************************************)
EXTENDS Integers, FiniteSets

CONSTANTS Text,      \* gate texts: failure mode and response
          Near,      \* the pairs whose similarity reaches the threshold
          TTL,       \* ttl_seconds, in ticks
          Cap,       \* max_fingerprints
          MaxTime,   \* bounds: clock,
          MaxCases   \*   cases judged

ASSUME NearAssumption ==
    /\ Near \subseteq Text \X Text
    /\ \A x, y \in Text : <<x, y>> \in Near => <<y, x>> \in Near
ASSUME BoundAssumption ==
    TTL \in Nat /\ Cap \in Nat \ {0} /\ MaxTime \in Nat /\ MaxCases \in Nat

VARIABLES
    now,       \* time.monotonic
    memory,    \* _fingerprints: the n-th case admitted, and when
    admitted,  \* history: cases admitted so far,
    judged,    \*   all of them,
    dropped    \*   and the latest duplicate

vars == <<now, memory, admitted, judged, dropped>>

Fingerprint == [n : Nat \ {0}, text : Text, time : Nat]

TypeOK ==
    /\ now \in Nat
    /\ memory \subseteq Fingerprint
    /\ admitted \in Nat
    /\ judged \subseteq Fingerprint
    /\ dropped \subseteq [text : Text, time : Nat]

Init ==
    /\ now = 0
    /\ memory = {}
    /\ admitted = 0
    /\ judged = {}
    /\ dropped = {}

------------------------------------------------------------------------------

(* _evict_expired keeps what is at most a TTL old. *)
Unexpired == {f \in memory : f.time >= now - TTL}

IsDuplicate(x) == \E f \in Unexpired : <<x, f.text>> \in Near

(* Mutated forms: the newest are deleted, or the times are not kept. *)
TrimmedNewest(list) == {f \in list : Cardinality({g \in list : g.n < f.n}) < Cap}
TrimmedTexts(list) == {[n |-> f.n, text |-> f.text] : f \in list}

(* del _fingerprints[:-max_fingerprints], the list being in order of n *)
Trimmed(list) == {f \in list : Cardinality({g \in list : g.n > f.n}) < Cap}

(* A near-duplicate is counted and never judged. *)
Drop(x) ==
    /\ IsDuplicate(x)
    /\ memory' = Unexpired
    /\ dropped' = {[text |-> x, time |-> now]}
    /\ UNCHANGED <<now, admitted, judged>>

(* A novel case is remembered, with a second reading of the clock, and judged. *)
Judge(x) ==
    /\ ~IsDuplicate(x)
    /\ admitted < MaxCases
    /\ now' \in {now, now + 1}
    /\ now' <= MaxTime
    /\ LET f == [n |-> admitted + 1, text |-> x, time |-> now']
       IN  /\ memory' = Trimmed(Unexpired \cup {f})
           /\ judged' = judged \cup {f}
    /\ admitted' = admitted + 1
    /\ UNCHANGED dropped

Tick ==
    /\ now < MaxTime
    /\ now' = now + 1
    /\ UNCHANGED <<memory, admitted, judged, dropped>>

Next == Tick \/ \E x \in Text : Drop(x) \/ Judge(x)

Spec == Init /\ [][Next]_vars

------------------------------------------------------------------------------

(* Memory is capped (REQ-JUDGE-1). *)
WithinCap == Cardinality(memory) <= Cap

(* What makes the next property hold: the memory has lost only the cases that
   are older than a TTL or that Cap newer ones followed. *)
RecentRemembered ==
    \A j \in judged \ memory : j.time < now - TTL \/ j.n + Cap <= admitted

(* Near-duplicates are never scored twice: two near cases are both judged only
   if more than a TTL, or at least Cap other cases, lie between them. *)
NeverScoredTwice ==
    \A a, b \in judged : a.n < b.n /\ <<a.text, b.text>> \in Near =>
        a.time + TTL < b.time \/ a.n + Cap < b.n

(* No novel failure is lost: whatever is dropped is near a case that was judged
   at most a TTL before, however long a chain of duplicates has run since. *)
DroppedWasJudged ==
    \A d \in dropped : \E j \in judged :
        /\ <<d.text, j.text>> \in Near
        /\ j.time <= d.time
        /\ d.time <= j.time + TTL
===============================================================================
