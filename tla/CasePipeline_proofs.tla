------------------------- MODULE CasePipeline_proofs --------------------------
(***************************************************************************)
(* The deduplication gate, for any texts and any symmetric nearness, every *)
(* TTL and every capacity, and the pipeline around it, for any records;    *)
(* and what the nearness computed from shingles makes of a record's cases. *)
(***************************************************************************)
EXTENDS CasePipeline, Similarity, TLAPS, FiniteSetTheorems, WellFoundedInduction

(* The serial number is unique, and neither it nor a time stamp is ahead. *)
HistoryInv ==
    /\ \A j \in judged : j.n <= admitted /\ j.time <= now
    /\ \A a, b \in judged : a.n = b.n => a = b

MemoryInv == memory \subseteq judged /\ IsFiniteSet(memory)

IInv == /\ TypeOK /\ HistoryInv /\ MemoryInv /\ RecentRemembered /\ WithinCap
        /\ NeverScoredTwice /\ DroppedWasJudged

------------------------------------------------------------------------------
(* Lists of fingerprints *)

Distinct(S) == \A f, g \in S : f.n = g.n => f = g

(* At most m - k fingerprints have a number in k+1 .. m. *)
LEMMA Between ==
    ASSUME NEW S, S \subseteq Fingerprint, Distinct(S), NEW k \in Nat, NEW m \in Nat,
           k <= m, \A f \in S : k < f.n /\ f.n <= m
    PROVE  IsFiniteSet(S) /\ Cardinality(S) <= m - k
<1> DEFINE number == [f \in S |-> f.n]
<1>1. number \in [S -> (k + 1) .. m]
    BY DEF Fingerprint
<1>2. IsInjective(number)
    BY DEF Distinct, IsInjective
<1>3. number \in Injection(S, (k + 1) .. m)
    BY <1>1, <1>2 DEF Injection
<1>4. IsFiniteSet((k + 1) .. m) /\ Cardinality((k + 1) .. m) <= m - k
    <2>1. k + 1 \in Int /\ m \in Int
        OBVIOUS
    <2>2. /\ IsFiniteSet((k + 1) .. m)
          /\ Cardinality((k + 1) .. m) = IF k + 1 > m THEN 0 ELSE m - (k + 1) + 1
        BY <2>1, FS_Interval
    <2> QED  BY <2>2
<1> HIDE DEF number
<1>5. IsFiniteSet(S) /\ Cardinality(S) <= Cardinality((k + 1) .. m)
    BY <1>3, <1>4, FS_Injection
<1>6. Cardinality(S) \in Nat /\ Cardinality((k + 1) .. m) \in Nat
    BY <1>4, <1>5, FS_CardinalityType
<1> QED  BY <1>4, <1>5, <1>6

(* A nonempty list has an oldest fingerprint. *)
LEMMA Oldest ==
    ASSUME NEW S, S \subseteq Fingerprint, S # {}
    PROVE  \E f \in S : \A g \in S : f.n <= g.n
<1> DEFINE Less == {p \in Nat \X Nat : p[1] < p[2]}
           T == {f.n : f \in S}
<1>1. IsWellFoundedOn(Less, Nat)
    BY NatLessThanWellFounded DEF OpToRel
<1>2. T \subseteq Nat /\ T # {}
    BY DEF Fingerprint
<1>3. PICK x \in T : \A y \in T : <<y, x>> \notin Less
    <2> HIDE DEF Less, T
    <2> QED  BY <1>1, <1>2, WFMin
<1>4. ASSUME NEW y \in T PROVE x <= y
    <2>1. x \in Nat /\ y \in Nat
        BY <1>2, <1>3
    <2>2. <<y, x>> \notin Less
        BY <1>3
    <2> HIDE DEF T
    <2>3. ~(y < x)
        BY <2>1, <2>2
    <2> QED  BY <2>1, <2>3
<1> QED  BY <1>3, <1>4

(* del _fingerprints[:-max_fingerprints] leaves at most Cap fingerprints. *)
LEMMA TrimmedFits ==
    ASSUME NEW S, S \subseteq Fingerprint, IsFiniteSet(S), Distinct(S)
    PROVE  /\ Trimmed(S) \subseteq S
           /\ IsFiniteSet(Trimmed(S))
           /\ Cardinality(Trimmed(S)) <= Cap
<1> USE BoundAssumption
<1>1. Trimmed(S) \subseteq S
    BY DEF Trimmed
<1>2. IsFiniteSet(Trimmed(S))
    BY <1>1, FS_Subset
<1>3. CASE Trimmed(S) = {}
    BY <1>3, FS_EmptySet
<1>4. CASE Trimmed(S) # {}
    <2>1. PICK f \in Trimmed(S) : \A g \in Trimmed(S) : f.n <= g.n
        BY <1>1, <1>4, Oldest
    <2> DEFINE newer == {g \in S : g.n > f.n}
    <2>2. IsFiniteSet(newer) /\ Cardinality(newer) < Cap
        <3>1. newer \subseteq S  OBVIOUS
        <3>2. Cardinality(newer) < Cap
            BY <2>1 DEF Trimmed
        <3> QED  BY <3>1, <3>2, FS_Subset
    <2>3. Trimmed(S) \subseteq newer \cup {f}
        BY <1>1, <2>1 DEF Distinct, Fingerprint
    <2>4. /\ IsFiniteSet(newer \cup {f})
          /\ Cardinality(newer \cup {f}) \in Nat
          /\ Cardinality(newer \cup {f}) <= Cap
        <3> HIDE DEF newer
        <3>1. /\ IsFiniteSet(newer \cup {f})
              /\ Cardinality(newer \cup {f}) = IF f \in newer THEN Cardinality(newer)
                                               ELSE Cardinality(newer) + 1
            BY <2>2, FS_AddElement
        <3>2. Cardinality(newer) \in Nat
            BY <2>2, FS_CardinalityType
        <3> QED  BY <2>2, <3>1, <3>2
    <2> HIDE DEF newer
    <2>5. Cardinality(Trimmed(S)) <= Cardinality(newer \cup {f})
        BY <2>3, <2>4, FS_Subset
    <2>6. Cardinality(Trimmed(S)) \in Nat
        BY <1>2, FS_CardinalityType
    <2> QED  BY <1>1, <1>2, <2>4, <2>5, <2>6
<1> QED  BY <1>1, <1>2, <1>3, <1>4

(* Whatever it removes has at least Cap newer ones. *)
LEMMA RemovedIsOld ==
    ASSUME NEW S, S \subseteq Fingerprint, Distinct(S), NEW m \in Nat,
           \A f \in S : f.n <= m,
           NEW f \in S \ Trimmed(S)
    PROVE  f.n + Cap <= m
<1> DEFINE newer == {g \in S : g.n > f.n}
<1>1. ~(Cardinality(newer) < Cap)
    BY DEF Trimmed
<1>2. f.n \in Nat /\ f.n <= m
    BY DEF Fingerprint
<1>3. newer \subseteq Fingerprint /\ Distinct(newer)
      /\ \A g \in newer : f.n < g.n /\ g.n <= m
    BY DEF Distinct, Fingerprint
<1> HIDE DEF newer
<1>4. IsFiniteSet(newer) /\ Cardinality(newer) <= m - f.n
    BY <1>2, <1>3, Between
<1>5. Cardinality(newer) \in Nat
    BY <1>4, FS_CardinalityType
<1> QED  BY <1>1, <1>2, <1>4, <1>5, BoundAssumption

------------------------------------------------------------------------------

LEMMA InitIInv == Init => IInv
<1> SUFFICES ASSUME Init PROVE IInv
    OBVIOUS
<1>1. IsFiniteSet(memory) /\ Cardinality(memory) = 0
    BY FS_EmptySet DEF Init
<1> QED  BY <1>1, BoundAssumption DEF Init, IInv, TypeOK, HistoryInv, MemoryInv,
             RecentRemembered, WithinCap, NeverScoredTwice, DroppedWasJudged

(* Expiry loses nothing that is recent, and keeps the list well formed. *)
LEMMA ExpiryKeepsRecent ==
    ASSUME IInv
    PROVE  /\ Unexpired \subseteq judged
           /\ Unexpired \subseteq Fingerprint
           /\ Distinct(Unexpired)
           /\ IsFiniteSet(Unexpired)
           /\ Cardinality(Unexpired) <= Cap
           /\ \A j \in judged \ Unexpired : j.time < now - TTL \/ j.n + Cap <= admitted
<1>1. Unexpired \subseteq memory
    BY DEF Unexpired
<1>2. memory \subseteq judged /\ IsFiniteSet(memory) /\ judged \subseteq Fingerprint
    BY DEF IInv, MemoryInv, TypeOK
<1>3. Distinct(Unexpired)
    BY <1>1, <1>2 DEF IInv, HistoryInv, Distinct
<1>4. IsFiniteSet(Unexpired) /\ Cardinality(Unexpired) <= Cardinality(memory)
    BY <1>1, <1>2, FS_Subset
<1>5. Cardinality(Unexpired) <= Cap
    <2>1. Cardinality(Unexpired) \in Nat /\ Cardinality(memory) \in Nat
        BY <1>2, <1>4, FS_CardinalityType
    <2> QED  BY <1>4, <2>1, BoundAssumption DEF IInv, WithinCap
<1>6. ASSUME NEW j \in judged \ Unexpired
      PROVE  j.time < now - TTL \/ j.n + Cap <= admitted
    <2>1. j.time \in Nat /\ now \in Nat /\ TTL \in Nat
        BY <1>2, BoundAssumption DEF Fingerprint, IInv, TypeOK
    <2> QED  BY <1>6, <2>1 DEF IInv, RecentRemembered, Unexpired
<1> QED  BY <1>1, <1>2, <1>3, <1>4, <1>5, <1>6

LEMMA StepIInv == IInv /\ [Next]_vars => IInv'
<1> SUFFICES ASSUME IInv, [Next]_vars PROVE IInv'
    OBVIOUS
<1>a. /\ TypeOK /\ HistoryInv /\ MemoryInv /\ RecentRemembered /\ WithinCap
      /\ NeverScoredTwice /\ DroppedWasJudged
    BY DEF IInv
<1>b. now \in Nat /\ TTL \in Nat /\ Cap \in Nat /\ admitted \in Nat
    BY <1>a, BoundAssumption DEF TypeOK
<1>c. \A j \in judged : j.n \in Nat /\ j.time \in Nat /\ j.text \in Text
    BY <1>a DEF TypeOK, Fingerprint
<1>1. CASE UNCHANGED vars
    BY <1>1, <1>a DEF vars, IInv, TypeOK, HistoryInv, MemoryInv, RecentRemembered,
                      WithinCap, NeverScoredTwice, DroppedWasJudged
<1>2. CASE Tick
    <2>1. now' = now + 1 /\ UNCHANGED <<memory, admitted, judged, dropped>>
        BY <1>2 DEF Tick
    <2>2. TypeOK' /\ MemoryInv' /\ WithinCap' /\ NeverScoredTwice' /\ DroppedWasJudged'
        BY <2>1, <1>a DEF TypeOK, MemoryInv, WithinCap, NeverScoredTwice, DroppedWasJudged
    <2>3. HistoryInv' /\ RecentRemembered'
        BY <2>1, <1>a, <1>b, <1>c DEF HistoryInv, RecentRemembered
    <2> QED  BY <2>2, <2>3 DEF IInv
<1>3. CASE \E x \in Text : Drop(x)
    <2>1. PICK x \in Text : Drop(x)  BY <1>3
    <2> DEFINE d == [text |-> x, time |-> now]
    <2>2. /\ memory' = Unexpired /\ dropped' = {d}
          /\ UNCHANGED <<now, admitted, judged>>
        BY <2>1 DEF Drop
    <2>3. /\ MemoryInv' /\ RecentRemembered' /\ WithinCap'
          /\ Unexpired \subseteq Fingerprint
        BY <2>2, ExpiryKeepsRecent DEF MemoryInv, RecentRemembered, WithinCap
    <2>4. TypeOK' /\ HistoryInv' /\ NeverScoredTwice'
        BY <2>2, <2>3, <1>a DEF TypeOK, HistoryInv, NeverScoredTwice
    <2>5. DroppedWasJudged'
        <3>1. PICK f \in Unexpired : <<x, f.text>> \in Near
            BY <2>1 DEF Drop, IsDuplicate
        <3>2. f \in judged /\ f.time >= now - TTL
            BY <3>1, ExpiryKeepsRecent DEF Unexpired
        <3>3. f.time <= now /\ now <= f.time + TTL
            BY <3>2, <1>a, <1>b, <1>c DEF HistoryInv
        <3> QED  BY <2>2, <3>1, <3>2, <3>3 DEF DroppedWasJudged
    <2> QED  BY <2>3, <2>4, <2>5 DEF IInv
<1>4. CASE \E x \in Text : Judge(x)
    <2>1. PICK x \in Text : Judge(x)  BY <1>4
    <2> DEFINE f == [n |-> admitted + 1, text |-> x, time |-> now']
               list == Unexpired \cup {f}
    <2>2. /\ now' \in {now, now + 1} /\ admitted' = admitted + 1
          /\ memory' = Trimmed(list) /\ judged' = judged \cup {f}
          /\ dropped' = dropped
        BY <2>1 DEF Judge
    <2>3. now' \in Nat /\ now <= now' /\ admitted' \in Nat /\ f \in Fingerprint
        BY <2>2, <1>b DEF Fingerprint
    <2>4. TypeOK'
        BY <2>2, <2>3, <1>a, TrimmedFits, ExpiryKeepsRecent DEF TypeOK, Trimmed
    <2>5. HistoryInv'
        BY <2>2, <2>3, <1>a, <1>b, <1>c DEF HistoryInv
    <2>6. list \subseteq judged' /\ list \subseteq Fingerprint /\ IsFiniteSet(list)
        BY <2>2, <2>3, ExpiryKeepsRecent, FS_AddElement
    <2>7. Distinct(list) /\ \A g \in list : g.n <= admitted'
        BY <2>5, <2>6 DEF HistoryInv, Distinct
    <2> HIDE DEF list
    <2>8. MemoryInv' /\ WithinCap'
        BY <2>2, <2>6, <2>7, TrimmedFits DEF MemoryInv, WithinCap
    <2>9. RecentRemembered'
        <3>1. ASSUME NEW j \in judged' \ Trimmed(list)
              PROVE  j.time < now' - TTL \/ j.n + Cap <= admitted'
            <4>1. CASE j \in list
                BY <4>1, <3>1, <2>3, <2>6, <2>7, RemovedIsOld
            <4>2. CASE j \notin list
                <5>1. j \in judged \ Unexpired
                    BY <4>2, <3>1, <2>2 DEF list
                <5>2. j.time < now - TTL \/ j.n + Cap <= admitted
                    BY <5>1, ExpiryKeepsRecent
                <5> QED  BY <5>1, <5>2, <2>2, <2>3, <1>b, <1>c
            <4> QED  BY <4>1, <4>2
        <3> QED  BY <3>1, <2>2 DEF RecentRemembered
    <2>10. NeverScoredTwice'
        <3>1. ASSUME NEW a \in judged, <<a.text, x>> \in Near
              PROVE  a.time + TTL < now' \/ a.n + Cap < admitted + 1
            <4>1. <<x, a.text>> \in Near
                BY <3>1, <1>c, NearAssumption
            <4>2. a \notin Unexpired
                BY <4>1, <2>1 DEF Judge, IsDuplicate
            <4>3. a.time < now - TTL \/ a.n + Cap <= admitted
                BY <4>2, ExpiryKeepsRecent
            <4> QED  BY <4>3, <2>2, <2>3, <1>b, <1>c
        <3>2. \A a \in judged : a.n < admitted + 1
            BY <1>a, <1>b, <1>c DEF HistoryInv
        <3>3. ASSUME NEW a \in judged', NEW b \in judged', a.n < b.n,
                     <<a.text, b.text>> \in Near
              PROVE  a.time + TTL < b.time \/ a.n + Cap < b.n
            <4>1. CASE a \in judged /\ b \in judged
                BY <4>1, <3>3, <1>a DEF NeverScoredTwice
            <4>2. CASE a \in judged /\ b = f
                BY <4>2, <3>1, <3>3
            <4>3. a # f
                BY <2>2, <3>2, <3>3, <1>b, <1>c
            <4> QED  BY <2>2, <4>1, <4>2, <4>3
        <3> QED  BY <3>3 DEF NeverScoredTwice
    <2>11. DroppedWasJudged'
        BY <2>2, <1>a DEF DroppedWasJudged
    <2> QED  BY <2>4, <2>5, <2>8, <2>9, <2>10, <2>11 DEF IInv
<1> QED  BY <1>1, <1>2, <1>3, <1>4 DEF Next

(* Type correctness of the gate. *)
THEOREM TypeCorrect == Spec => []TypeOK
<1>1. IInv => TypeOK  BY DEF IInv
<1> QED  BY <1>1, InitIInv, StepIInv, PTL DEF Spec

(* The memory never outgrows its capacity. *)
THEOREM MemoryIsCapped == Spec => []WithinCap
<1>1. IInv => WithinCap  BY DEF IInv
<1> QED  BY <1>1, InitIInv, StepIInv, PTL DEF Spec

(* Two near cases are both judged only across a TTL or Cap other cases. *)
THEOREM NeverScoredTwiceAlways == Spec => []NeverScoredTwice
<1>1. IInv => NeverScoredTwice  BY DEF IInv
<1> QED  BY <1>1, InitIInv, StepIInv, PTL DEF Spec

(* Nothing is dropped without a near case judged within the TTL. *)
THEOREM DroppedAlwaysWasJudged == Spec => []DroppedWasJudged
<1>1. IInv => DroppedWasJudged  BY DEF IInv
<1> QED  BY <1>1, InitIInv, StepIInv, PTL DEF Spec

(* The memory has lost only what is a TTL old or what Cap newer cases followed. *)
THEOREM RecentAlwaysRemembered == Spec => []RecentRemembered
<1>1. IInv => RecentRemembered  BY DEF IInv
<1> QED  BY <1>1, InitIInv, StepIInv, PTL DEF Spec

------------------------------------------------------------------------------
(* The pipeline: it is a behaviour of the gate, so what was proved of the gate
   holds in it. *)

(* A case past the gate is still at the head of todo. *)
TodoInv == todo \in Seq(Text) /\ (stage # "gate" => todo # <<>>)

LEMMA TodoStep == TodoInv /\ [PipelineNext]_allVars => TodoInv'
<1> SUFFICES ASSUME TodoInv, [PipelineNext]_allVars PROVE TodoInv'
    OBVIOUS
<1> USE DEF TodoInv
<1>1. CASE UNCHANGED allVars
    BY <1>1 DEF allVars, pipeVars
<1>2. CASE \E r \in Record : Receive(r)
    <2>1. PICK r \in Record : Receive(r)  BY <1>2
    <2>2. todo' = Cases[r] /\ stage' = stage /\ todo = <<>>
        BY <2>1 DEF Receive
    <2>3. Cases[r] \in Seq(Text)
        BY RecordAssumption
    <2> QED  BY <2>2, <2>3
<1>3. CASE Suppress
    BY <1>3 DEF Suppress, Remaining
<1>4. CASE Admit
    BY <1>4 DEF Admit
<1>5. CASE \E reply \in Reply : Score(reply)
    BY <1>5 DEF Score
<1>6. CASE Send
    BY <1>6 DEF Send
<1>7. CASE Wait
    BY <1>7 DEF Wait, pipeVars
<1> QED  BY <1>1, <1>2, <1>3, <1>4, <1>5, <1>6, <1>7 DEF PipelineNext

(* Around the gate the pipeline does nothing that the gate does not allow. *)
LEMMA GateStep == TodoInv /\ [PipelineNext]_allVars => [Next]_vars
<1> SUFFICES ASSUME TodoInv, [PipelineNext]_allVars PROVE [Next]_vars
    OBVIOUS
<1>1. CASE UNCHANGED allVars
    BY <1>1 DEF allVars
<1>2. CASE \E r \in Record : Receive(r)
    BY <1>2 DEF Receive
<1>3. todo # <<>> => Head(todo) \in Text
    BY DEF TodoInv
<1>4. CASE Suppress
    BY <1>3, <1>4 DEF Suppress, Next
<1>5. CASE Admit
    BY <1>3, <1>5 DEF Admit, Next
<1>6. CASE \E reply \in Reply : Score(reply)
    BY <1>6 DEF Score
<1>7. CASE Send
    BY <1>7 DEF Send
<1>8. CASE Wait
    BY <1>8 DEF Wait, Next
<1> QED  BY <1>1, <1>2, <1>4, <1>5, <1>6, <1>7, <1>8 DEF PipelineNext

(* The pipeline implements the gate: whatever the worker does around it, the
   gate's own promises hold. *)
THEOREM PipelineIsGate == PipelineSpec => Spec
<1>1. PipelineInit => Init /\ TodoInv
    BY DEF PipelineInit, TodoInv
<1> QED  BY <1>1, TodoStep, GateStep, PTL DEF PipelineSpec, Spec

(* WithinCap and NeverScoredTwice in the pipeline *)
THEOREM PipelineGatePromises == PipelineSpec => [](WithinCap /\ NeverScoredTwice)
<1> QED  BY PipelineIsGate, MemoryIsCapped, NeverScoredTwiceAlways, PTL

------------------------------------------------------------------------------

(* The n-th case admitted is the n-th judged and leaves the row n. *)
ProgressInv ==
    /\ calls = admitted - (IF stage = "judge" THEN 1 ELSE 0)
    /\ stage # "gate" => admitted # 0
    /\ stage = "alert" => \E r \in rows : r.n = admitted /\ r.severity # "none"
    /\ \A i \in DOMAIN sent : sent[i] <= admitted

PInv == /\ IInv /\ TodoInv /\ PipelineTypeOK /\ ProgressInv
        /\ CasesAccounted /\ AlertedOnce /\ DroppedHasVerdict

LEMMA InitPInv == PipelineInit => PInv
<1> SUFFICES ASSUME PipelineInit PROVE PInv
    OBVIOUS
<1>1. IInv /\ TypeOK
    BY InitIInv DEF PipelineInit, IInv
<1>2. /\ stage = "gate" /\ todo = <<>> /\ anomalous = FALSE /\ rows = {} /\ sent = <<>>
      /\ calls = 0 /\ suppressed = 0 /\ received = 0 /\ admitted = 0 /\ dropped = {}
    BY DEF PipelineInit, Init
<1>3. TodoInv /\ DroppedHasVerdict
    BY <1>2 DEF TodoInv, DroppedHasVerdict
<1>7. PipelineTypeOK
    <2>1. <<>> \in Seq(Text) /\ <<>> \in Seq(Nat)
        OBVIOUS
    <2> QED  BY <1>1, <1>2, <2>1 DEF PipelineTypeOK
<1>6. ProgressInv
    <2>1. DOMAIN <<>> = {}
        OBVIOUS
    <2> QED  BY <1>2, <2>1 DEF ProgressInv
<1>4. CasesAccounted
    <2>1. 1 .. 0 = {} /\ Len(<<>>) = 0
        OBVIOUS
    <2> QED  BY <1>2, <2>1 DEF CasesAccounted
<1>5. AlertedOnce
    <2>1. Sent = {}
        BY <1>2 DEF Sent
    <2> QED  BY <1>2, <2>1 DEF AlertedOnce
<1> QED  BY <1>1, <1>3, <1>4, <1>5, <1>6, <1>7 DEF PInv

LEMMA StepPInv == PInv /\ [PipelineNext]_allVars => PInv'
<1> SUFFICES ASSUME PInv, [PipelineNext]_allVars PROVE PInv'
    OBVIOUS
<1>a. /\ IInv /\ TodoInv /\ PipelineTypeOK /\ ProgressInv
      /\ CasesAccounted /\ AlertedOnce /\ DroppedHasVerdict
    BY DEF PInv
<1>b. IInv' /\ TodoInv' /\ TypeOK'
    BY <1>a, GateStep, StepIInv, TodoStep DEF IInv
<1>c. /\ stage \in {"gate", "judge", "alert"} /\ anomalous \in BOOLEAN
      /\ rows \subseteq Row /\ sent \in Seq(Nat) /\ todo \in Seq(Text)
      /\ calls \in Nat /\ suppressed \in Nat /\ received \in Nat /\ admitted \in Nat
    BY <1>a DEF PipelineTypeOK, TypeOK
<1>1. CASE UNCHANGED allVars
    <2>1. UNCHANGED vars /\ UNCHANGED pipeVars
        BY <1>1 DEF allVars
    <2>2. PipelineTypeOK' /\ ProgressInv'
        BY <2>1, <1>a, <1>b DEF vars, pipeVars, PipelineTypeOK, ProgressInv
    <2>3. CasesAccounted' /\ AlertedOnce' /\ DroppedHasVerdict'
        <3>1. Sent' = Sent
            BY <2>1 DEF pipeVars, Sent
        <3>2. AlertedOnce'
            BY <2>1, <3>1, <1>a DEF vars, pipeVars, AlertedOnce
        <3> QED  BY <2>1, <3>1, <3>2, <1>a DEF vars, pipeVars, CasesAccounted,
                                             DroppedHasVerdict
    <2> QED  BY <1>b, <2>2, <2>3 DEF PInv
<1>2. CASE Wait
    <2>1. UNCHANGED <<memory, admitted, judged, dropped>> /\ UNCHANGED pipeVars
        BY <1>2 DEF Wait, Tick
    <2>2. PipelineTypeOK' /\ ProgressInv'
        BY <2>1, <1>a, <1>b DEF pipeVars, PipelineTypeOK, ProgressInv
    <2>3. CasesAccounted' /\ AlertedOnce' /\ DroppedHasVerdict'
        <3>1. Sent' = Sent
            BY <2>1 DEF pipeVars, Sent
        <3>2. AlertedOnce'
            BY <2>1, <3>1, <1>a DEF pipeVars, AlertedOnce
        <3> QED  BY <2>1, <3>1, <3>2, <1>a DEF pipeVars, CasesAccounted, DroppedHasVerdict
    <2> QED  BY <1>b, <2>2, <2>3 DEF PInv
<1>3. CASE \E r \in Record : Receive(r)
    <2>1. PICK r \in Record : Receive(r)
        BY <1>3
    <2>2. /\ todo = <<>> /\ todo' = Cases[r] /\ received' = received + Len(Cases[r])
          /\ anomalous' \in BOOLEAN
          /\ UNCHANGED <<now, memory, admitted, judged, dropped>>
          /\ UNCHANGED <<stage, rows, calls, suppressed, sent>>
        BY <2>1 DEF Receive, vars
    <2>3. Cases[r] \in Seq(Text) /\ Len(Cases[r]) \in Nat /\ Len(todo) = 0
        BY <2>2, RecordAssumption
    <2>4. stage = "gate"
        BY <2>2, <1>a, <1>c DEF TodoInv
    <2>5. PipelineTypeOK' /\ ProgressInv'
        BY <2>2, <2>3, <1>a, <1>b, <1>c DEF PipelineTypeOK, ProgressInv
    <2>6. CasesAccounted'
        BY <2>2, <2>3, <2>4, <1>a, <1>c DEF CasesAccounted
    <2>7. AlertedOnce' /\ DroppedHasVerdict'
        <3>1. Sent' = Sent
            BY <2>2 DEF Sent
        <3>2. AlertedOnce'
            BY <2>2, <3>1, <1>a DEF AlertedOnce
        <3> QED  BY <2>2, <3>1, <3>2, <1>a DEF DroppedHasVerdict
    <2> QED  BY <1>b, <2>5, <2>6, <2>7 DEF PInv
<1>4. CASE Suppress
    <2>1. /\ stage = "gate" /\ todo # <<>> /\ Drop(Head(todo))
          /\ suppressed' = suppressed + 1 /\ todo' = Tail(todo)
          /\ UNCHANGED <<stage, anomalous, rows, calls, sent, received>>
        BY <1>4 DEF Suppress, Remaining
    <2> DEFINE x == Head(todo)
    <2>2. /\ dropped' = {[text |-> x, time |-> now]} /\ IsDuplicate(x)
          /\ UNCHANGED <<now, admitted, judged>>
        BY <2>1 DEF Drop
    <2>3. PipelineTypeOK' /\ ProgressInv'
        BY <2>1, <2>2, <1>a, <1>b, <1>c DEF PipelineTypeOK, ProgressInv
    <2>4. CasesAccounted'
        <3>1. Len(todo') = Len(todo) - 1 /\ Len(todo) \in Nat
            BY <2>1, <1>c
        <3> QED  BY <2>1, <3>1, <1>a, <1>c DEF CasesAccounted
    <2>5. AlertedOnce'
        BY <2>1, <2>2, <1>a DEF AlertedOnce, Sent
    <2>6. DroppedHasVerdict'
        <3>1. PICK f \in Unexpired : <<x, f.text>> \in Near
            BY <2>2 DEF IsDuplicate
        <3>2. /\ f \in judged /\ f.time >= now - TTL /\ f.n \in Nat \ {0}
              /\ f.n <= admitted /\ f.time <= now
              /\ f.time \in Nat /\ now \in Nat /\ TTL \in Nat
            BY <3>1, <1>a, ExpiryKeepsRecent, BoundAssumption
               DEF Unexpired, IInv, HistoryInv, TypeOK, Fingerprint
        <3>3. f.n \in 1 .. calls
            BY <3>2, <2>1, <1>a, <1>c DEF ProgressInv
        <3>4. PICK r \in rows : r.n = f.n
            BY <3>3, <1>a DEF CasesAccounted
        <3>5. r.severity # "none" => r.n \in Sent
            BY <3>4, <2>1, <1>a DEF AlertedOnce
        <3>6. Sent' = Sent
            BY <2>1 DEF Sent
        <3>7. f.time <= now /\ now <= f.time + TTL
            BY <3>2
        <3>8. \E q \in rows' : q.n = f.n /\ (q.severity # "none" => q.n \in Sent')
            BY <2>1, <3>4, <3>5, <3>6
        <3> DEFINE d == [text |-> x, time |-> now]
        <3>9. /\ <<d.text, f.text>> \in Near /\ f \in judged'
              /\ f.time <= d.time /\ d.time <= f.time + TTL
            BY <2>2, <3>1, <3>2, <3>7
        <3>10. dropped' = {d}
            BY <2>2
        <3> HIDE DEF d
        <3> QED  BY <3>8, <3>9, <3>10 DEF DroppedHasVerdict
    <2> QED  BY <1>b, <2>3, <2>4, <2>5, <2>6 DEF PInv
<1>5. CASE Admit
    <2>1. /\ stage = "gate" /\ todo # <<>> /\ stage' = "judge"
          /\ admitted' = admitted + 1 /\ dropped' = dropped
          /\ judged \subseteq judged'
          /\ UNCHANGED <<todo, anomalous, rows, calls, suppressed, sent, received>>
        BY <1>5 DEF Admit, Judge
    <2>2. PipelineTypeOK'
        BY <2>1, <1>a, <1>b DEF PipelineTypeOK
    <2>3. ProgressInv'
        <3>1. \A i \in DOMAIN sent : sent[i] \in Nat
            BY <1>c
        <3> QED  BY <2>1, <3>1, <1>a, <1>c DEF ProgressInv
    <2>4. CasesAccounted' /\ AlertedOnce'
        BY <2>1, <1>a DEF CasesAccounted, AlertedOnce, Sent
    <2>5. DroppedHasVerdict'
        BY <2>1, <1>a DEF DroppedHasVerdict, Sent
    <2> QED  BY <1>b, <2>2, <2>3, <2>4, <2>5 DEF PInv
<1>6. CASE \E reply \in Reply : Score(reply)
    <2>1. PICK reply \in Reply : Score(reply)
        BY <1>6
    <2> DEFINE s == Severity(Head(todo), reply)
               row == [n |-> admitted, severity |-> s]
    <2>2. /\ stage = "judge" /\ calls' = calls + 1 /\ rows' = rows \cup {row}
          /\ IF s = "none" THEN stage' = "gate" /\ todo' = Tail(todo)
             ELSE stage' = "alert" /\ todo' = todo
          /\ UNCHANGED <<now, memory, admitted, judged, dropped>>
          /\ UNCHANGED <<anomalous, suppressed, sent, received>>
        BY <2>1 DEF Score, Written, vars
    <2>3. s \in {"none", "high", "critical"}
        BY DEF Severity
    <2>4. admitted \in Nat \ {0} /\ calls + 1 = admitted /\ todo # <<>>
        BY <2>2, <1>a, <1>c DEF ProgressInv, TodoInv
    <2> HIDE DEF s
    <2>5. row \in Row
        BY <2>3, <2>4 DEF Row
    <2>6. PipelineTypeOK'
        BY <2>2, <2>3, <2>5, <1>a, <1>b, <1>c DEF PipelineTypeOK, TodoInv
    <2>7. ProgressInv'
        <3>1. row \in rows' /\ row.n = admitted /\ row.severity = s
            BY <2>2
        <3>2. stage' = "alert" => \E r \in rows' : r.n = admitted' /\ r.severity # "none"
            BY <2>2, <3>1
        <3>3. /\ calls' = admitted' /\ stage' # "judge" /\ admitted' # 0
              /\ \A i \in DOMAIN sent' : sent'[i] <= admitted'
            BY <2>2, <2>4, <1>a DEF ProgressInv
        <3>4. calls' = admitted' - (IF stage' = "judge" THEN 1 ELSE 0)
            <4>1. admitted' \in Nat /\ admitted' - 0 = admitted'
                BY <2>2, <1>c
            <4>2. (IF stage' = "judge" THEN 1 ELSE 0) = 0
                BY <3>3
            <4> QED  BY <3>3, <4>1, <4>2
        <3> HIDE DEF row
        <3> QED  BY <3>2, <3>3, <3>4 DEF ProgressInv
    <2>8. CasesAccounted'
        <3>1. {r.n : r \in rows'} = {r.n : r \in rows} \cup {admitted}
            <4>1. {r.n : r \in rows \cup {row}} = {r.n : r \in rows} \cup {row.n}
                OBVIOUS
            <4> QED  BY <4>1, <2>2
        <3>2. 1 .. (calls + 1) = (1 .. calls) \cup {calls + 1}
            BY <1>c
        <3>3. {r.n : r \in rows'} = 1 .. calls'
            BY <3>1, <3>2, <2>2, <2>4, <1>a DEF CasesAccounted
        <3>4. Len(todo) \in Nat /\ Len(Tail(todo)) = Len(todo) - 1
            BY <2>4, <1>c
        <3>5. received = suppressed + calls + Len(todo)
            BY <2>2, <3>4, <1>a, <1>c DEF CasesAccounted
        <3>6. received' = suppressed' + calls' + Len(todo')
                          - (IF stage' = "alert" THEN 1 ELSE 0)
            <4>1. CASE s = "none"
                <5>1. stage' # "alert" /\ Len(todo') = Len(todo) - 1
                    BY <4>1, <2>2, <3>4
                <5> QED  BY <5>1, <2>2, <3>4, <3>5, <1>c
            <4>2. CASE s # "none"
                <5>1. stage' = "alert" /\ Len(todo') = Len(todo)
                    BY <4>2, <2>2
                <5> QED  BY <5>1, <2>2, <3>4, <3>5, <1>c
            <4> QED  BY <4>1, <4>2
        <3> QED  BY <3>3, <3>6 DEF CasesAccounted
    <2>9. AlertedOnce'
        <3> DEFINE Alerted(R) == {r.n : r \in {q \in R : q.severity # "none"}}
        <3>1. Sent' = Sent /\ Sent = Alerted(rows)
            BY <2>2, <1>a DEF Sent, AlertedOnce
        <3>2. Alerted(rows') = Alerted(rows) \cup (IF s = "none" THEN {} ELSE {admitted})
            <4>1. row.n = admitted /\ row.severity = s
                OBVIOUS
            <4> HIDE DEF row
            <4>2. Alerted(rows \cup {row})
                    = Alerted(rows) \cup (IF row.severity = "none" THEN {} ELSE {row.n})
                OBVIOUS
            <4> QED  BY <4>1, <4>2, <2>2
        <3>3. admitted \notin Alerted(rows)
            <4>1. Alerted(rows) \subseteq 1 .. calls
                BY <1>a DEF CasesAccounted
            <4>2. admitted \notin 1 .. calls
                BY <2>4, <1>c
            <4> QED  BY <4>1, <4>2
        <3>4. Sent' = Alerted(rows') \ (IF stage' = "alert" THEN {admitted'} ELSE {})
            BY <3>1, <3>2, <3>3, <2>2
        <3> QED  BY <3>4, <2>2, <1>a DEF AlertedOnce
    <2>10. DroppedHasVerdict'
        BY <2>2, <1>a DEF DroppedHasVerdict, Sent
    <2> QED  BY <1>b, <2>6, <2>7, <2>8, <2>9, <2>10 DEF PInv
<1>7. CASE Send
    <2>1. /\ stage = "alert" /\ stage' = "gate" /\ todo' = Tail(todo)
          /\ sent' = Append(sent, admitted)
          /\ UNCHANGED <<now, memory, admitted, judged, dropped>>
          /\ UNCHANGED <<anomalous, rows, calls, suppressed, received>>
        BY <1>7 DEF Send, vars
    <2>2. /\ todo # <<>> /\ admitted \in Nat \ {0} /\ calls = admitted
        BY <2>1, <1>a, <1>c DEF TodoInv, ProgressInv
    <2>3. /\ Len(sent') = Len(sent) + 1 /\ Len(sent) \in Nat
          /\ DOMAIN sent = 1 .. Len(sent) /\ DOMAIN sent' = 1 .. Len(sent')
          /\ \A i \in DOMAIN sent : sent'[i] = sent[i] /\ sent[i] \in Nat
          /\ sent'[Len(sent')] = admitted
        BY <2>1, <1>c
    <2>4. PipelineTypeOK'
        BY <2>1, <1>a, <1>b, <1>c DEF PipelineTypeOK, TodoInv
    <2>5. ProgressInv'
        BY <2>1, <2>2, <2>3, <1>a, <1>c DEF ProgressInv
    <2>6. CasesAccounted'
        <3>1. Len(todo) \in Nat /\ Len(todo') = Len(todo) - 1
            BY <2>1, <2>2, <1>c
        <3>2. received = suppressed + calls + Len(todo) - 1
            BY <2>1, <1>a DEF CasesAccounted
        <3>3. stage' # "alert" /\ received' = suppressed' + calls' + Len(todo')
            BY <2>1, <3>1, <3>2, <1>c
        <3>4. {r.n : r \in rows'} = 1 .. calls'
            BY <2>1, <1>a DEF CasesAccounted
        <3>5. suppressed' + calls' + Len(todo') \in Int
            BY <2>1, <3>1, <1>c
        <3> QED  BY <3>3, <3>4, <3>5 DEF CasesAccounted
    <2>7. Sent' = Sent \cup {admitted}
        BY <2>3 DEF Sent
    <2>8. admitted \notin Sent
        BY <2>1, <1>a DEF AlertedOnce
    <2>9. AlertedOnce'
        <3>1. \A i \in DOMAIN sent : sent[i] < admitted
            BY <2>3, <2>8, <1>a, <1>c DEF ProgressInv, Sent
        <3>2. \A i, j \in DOMAIN sent' : i < j => sent'[i] < sent'[j]
            BY <2>3, <3>1, <1>a DEF AlertedOnce
        <3>3. admitted \in {r.n : r \in {q \in rows : q.severity # "none"}}
            BY <2>1, <1>a DEF ProgressInv
        <3>4. Sent' = {r.n : r \in {q \in rows : q.severity # "none"}}
            BY <2>1, <2>7, <3>3, <1>a DEF AlertedOnce
        <3> QED  BY <2>1, <3>2, <3>4 DEF AlertedOnce
    <2>10. DroppedHasVerdict'
        BY <2>1, <2>7, <1>a DEF DroppedHasVerdict
    <2> QED  BY <1>b, <2>4, <2>5, <2>6, <2>9, <2>10 DEF PInv
<1> QED  BY <1>1, <1>2, <1>3, <1>4, <1>5, <1>6, <1>7 DEF PipelineNext

LEMMA PInvAlways == PipelineSpec => []PInv
<1> QED  BY InitPInv, StepPInv, PTL DEF PipelineSpec

(* Type correctness of the pipeline. *)
THEOREM PipelineTypeCorrect == PipelineSpec => []PipelineTypeOK
<1>1. PInv => PipelineTypeOK  BY DEF PInv
<1> QED  BY <1>1, PInvAlways, PTL

(* Every case is in hand, suppressed, or one call and one row. *)
THEOREM CasesAlwaysAccounted == PipelineSpec => []CasesAccounted
<1>1. PInv => CasesAccounted  BY DEF PInv
<1> QED  BY <1>1, PInvAlways, PTL

(* One alert for each row marked alerted. *)
THEOREM AlertedAlwaysOnce == PipelineSpec => []AlertedOnce
<1>1. PInv => AlertedOnce  BY DEF PInv
<1> QED  BY <1>1, PInvAlways, PTL

(* Nothing is dropped without a near verdict whose alert, if any, is out. *)
THEOREM DroppedAlwaysHasVerdict == PipelineSpec => []DroppedHasVerdict
<1>1. PInv => DroppedHasVerdict  BY DEF PInv
<1> QED  BY <1>1, PInvAlways, PTL

------------------------------------------------------------------------------
(* Nearness *)

(* The shingle of a text that begins at its i-th word. *)
ShingleAt(words, i) == SubSeq(words, i, i + ShingleSize - 1)

LEMMA ShinglesFinite ==
    ASSUME NEW words, Len(words) \in Nat, Len(words) >= ShingleSize
    PROVE  /\ Shingles(words) = {ShingleAt(words, i) : i \in 1 .. Len(words) - 2}
           /\ IsFiniteSet(Shingles(words)) /\ Shingles(words) # {}
<1> DEFINE n == Len(words) - 2
           f == [i \in 1 .. n |-> ShingleAt(words, i)]
<1>1. n \in Nat /\ n >= 1 /\ Len(words) - ShingleSize + 1 = n
    BY DEF ShingleSize
<1>2. Shingles(words) = {ShingleAt(words, i) : i \in 1 .. n}
    <2>1. ~(Len(words) < ShingleSize)
        BY DEF ShingleSize
    <2>2. Shingles(words) = {ShingleAt(words, i) : i \in 1 .. Len(words) - ShingleSize + 1}
        BY <2>1, Zenon DEF Shingles, ShingleAt
    <2> HIDE DEF n
    <2> QED  BY <1>1, <2>2
<1>3. IsFiniteSet(1 .. n)
    BY <1>1, FS_Interval
<1>4. f \in Surjection(1 .. n, {ShingleAt(words, i) : i \in 1 .. n})
    BY DEF Surjection
<1> HIDE DEF n, f
<1>5. IsFiniteSet({ShingleAt(words, i) : i \in 1 .. n})
    BY <1>3, <1>4, FS_Surjection
<1>6. ShingleAt(words, 1) \in {ShingleAt(words, i) : i \in 1 .. n}
    BY <1>1
<1> QED  BY <1>2, <1>5, <1>6 DEF n

(* At most k things are counted by 1 .. k. *)
LEMMA FewShingles ==
    ASSUME NEW words, NEW k \in Nat
    PROVE  /\ IsFiniteSet({ShingleAt(words, i) : i \in 1 .. k})
           /\ Cardinality({ShingleAt(words, i) : i \in 1 .. k}) <= k
<1> DEFINE T == {ShingleAt(words, i) : i \in 1 .. k}
           f == [i \in 1 .. k |-> ShingleAt(words, i)]
<1>1. IsFiniteSet(1 .. k) /\ Cardinality(1 .. k) = k
    <2>1. /\ IsFiniteSet(1 .. k) /\ Cardinality(1 .. k) = IF 1 > k THEN 0 ELSE k - 1 + 1
        BY FS_Interval
    <2> QED  BY <2>1
<1>2. f \in Surjection(1 .. k, T)
    BY DEF Surjection
<1> HIDE DEF f, T
<1>3. IsFiniteSet(T) /\ Cardinality(T) <= Cardinality(1 .. k)
    BY <1>1, <1>2, FS_Surjection
<1> QED  BY <1>1, <1>3 DEF T

(* Words in front of a text add as many shingles at most, and take none away. *)
LEMMA ShinglesOfPrefixed ==
    ASSUME NEW Word, NEW m \in Seq(Word), NEW r \in Seq(Word), Len(r) >= ShingleSize
    PROVE  /\ Len(m \o r) \in Nat /\ Len(m \o r) >= ShingleSize
           /\ Shingles(r) \subseteq Shingles(m \o r)
           /\ Shingles(m \o r) \subseteq
                 Shingles(r) \cup {ShingleAt(m \o r, i) : i \in 1 .. Len(m)}
<1> DEFINE w == m \o r
<1>1. /\ w \in Seq(Word) /\ Len(w) = Len(m) + Len(r) /\ Len(m) \in Nat /\ Len(r) \in Nat
      /\ \A i \in 1 .. Len(r) : w[Len(m) + i] = r[i]
    OBVIOUS
<1>2. Len(w) >= ShingleSize /\ ShingleSize = 3
    BY <1>1 DEF ShingleSize
<1>3. ASSUME NEW i \in 1 .. Len(r) - 2 PROVE ShingleAt(w, Len(m) + i) = ShingleAt(r, i)
    <2> DEFINE a == ShingleAt(w, Len(m) + i)
               b == ShingleAt(r, i)
    <2>0. i \in Nat /\ Len(m) + i \in Nat /\ 1 <= i /\ i + 2 <= Len(r) /\ Len(m) + i + 2 <= Len(w)
        BY <1>1, <1>2
    <2>a. a = SubSeq(w, Len(m) + i, (Len(m) + i) + 2) /\ b = SubSeq(r, i, i + 2)
        BY <2>0 DEF ShingleAt, ShingleSize
    <2> HIDE DEF w, a, b
    <2>1. a \in Seq(Word) /\ Len(a) = 3 /\ \A j \in 1 .. 3 : a[j] = w[(Len(m) + i) + (j - 1)]
        <3>1. w \in Seq(Word) /\ Len(w) \in Nat /\ 1 <= Len(m) + i
            BY <1>1, <2>0
        <3> DEFINE k == Len(m) + i
        <3>2. k \in Nat /\ 1 <= k /\ k + 2 <= Len(w) /\ a = SubSeq(w, k, k + 2)
            BY <2>0, <3>1, <2>a
        <3> HIDE DEF k
        <3>3. a \in Seq(Word) /\ Len(a) = 3 /\ \A j \in 1 .. 3 : a[j] = w[k + (j - 1)]
            BY <3>1, <3>2
        <3> QED  BY <3>3 DEF k
    <2>2. b \in Seq(Word) /\ Len(b) = 3 /\ \A j \in 1 .. 3 : b[j] = r[i + (j - 1)]
        BY <1>1, <2>0, <2>a
    <2>3. ASSUME NEW j \in 1 .. 3 PROVE a[j] = b[j]
        <3>1. i + (j - 1) \in 1 .. Len(r) /\ (Len(m) + i) + (j - 1) = Len(m) + (i + (j - 1))
            BY <2>0, <1>1
        <3>2. w[Len(m) + (i + (j - 1))] = r[i + (j - 1)]
            BY <3>1, <1>1
        <3> QED  BY <3>1, <3>2, <2>1, <2>2
    <2>4. a = b
        <3>1. ASSUME NEW c \in Seq(Word), Len(c) = 3 PROVE c \in [1 .. 3 -> Word]
            <4>1. c \in [1 .. Len(c) -> Word]
                OBVIOUS
            <4> QED  BY <4>1, <3>1
        <3>2. a \in [1 .. 3 -> Word]
            BY <2>1, <3>1
        <3>3. b \in [1 .. 3 -> Word]
            BY <2>2, <3>1
        <3> QED  BY <3>2, <3>3, <2>3
    <2> QED  BY <2>4 DEF a, b
<1> HIDE DEF w
<1>4. /\ Shingles(w) = {ShingleAt(w, i) : i \in 1 .. Len(w) - 2}
      /\ Shingles(r) = {ShingleAt(r, i) : i \in 1 .. Len(r) - 2}
    <2>1. Len(w) \in Nat /\ Len(r) \in Nat
        BY <1>1
    <2> QED  BY <2>1, <1>2, ShinglesFinite
<1>5. Shingles(r) \subseteq Shingles(w)
    <2>1. \A i \in 1 .. Len(r) - 2 : Len(m) + i \in 1 .. Len(w) - 2
        BY <1>1, <1>2
    <2> QED  BY <2>1, <1>3, <1>4
<1>6. Shingles(w) \subseteq Shingles(r) \cup {ShingleAt(w, i) : i \in 1 .. Len(m)}
    <2> SUFFICES ASSUME NEW i \in 1 .. Len(w) - 2, ~(i \in 1 .. Len(m))
                 PROVE  ShingleAt(w, i) \in Shingles(r)
        BY <1>4
    <2>1. i - Len(m) \in 1 .. Len(r) - 2 /\ Len(m) + (i - Len(m)) = i
        BY <1>1, <1>2
    <2>2. ShingleAt(w, i) = ShingleAt(r, i - Len(m))
        BY <2>1, <1>3
    <2> QED  BY <2>1, <2>2, <1>4
<1> QED  BY <1>1, <1>2, <1>5, <1>6 DEF w

(* Similarity does not depend on which text is the new one. *)
LEMMA SimilarIsSymmetric ==
    ASSUME NEW a, NEW b, Similar(a, b)
    PROVE  Similar(b, a)
<1>1. /\ Shingles(a) \cap Shingles(b) = Shingles(b) \cap Shingles(a)
      /\ Shingles(a) \cup Shingles(b) = Shingles(b) \cup Shingles(a)
    OBVIOUS
<1> QED  BY <1>1 DEF Similar

(* Two cases of one response are near duplicates, whatever their modes are called,
   as soon as the response has four different shingles for every word of the two
   modes: the critical finding of such a record is dropped after its failure. *)
THEOREM CasesOfOneResponseAreNear ==
    ASSUME NEW Word, NEW m1 \in Seq(Word), NEW m2 \in Seq(Word), NEW response \in Seq(Word),
           Len(response) >= ShingleSize,
           Cardinality(Shingles(response)) >= 4 * (Len(m1) + Len(m2))
    PROVE  Similar(m1 \o response, m2 \o response)
<1> DEFINE A == Shingles(m1 \o response)
           B == Shingles(m2 \o response)
           R == Shingles(response)
           P == {ShingleAt(m1 \o response, i) : i \in 1 .. Len(m1)}
           Q == {ShingleAt(m2 \o response, i) : i \in 1 .. Len(m2)}
<1>1. Len(m1) \in Nat /\ Len(m2) \in Nat /\ Len(response) \in Nat
    OBVIOUS
<1>2. /\ R \subseteq A /\ A \subseteq R \cup P /\ R \subseteq B /\ B \subseteq R \cup Q
    BY ShinglesOfPrefixed
<1>3. IsFiniteSet(R) /\ R # {} /\ IsFiniteSet(A) /\ A # {} /\ IsFiniteSet(B) /\ B # {}
    BY <1>1, ShinglesOfPrefixed, ShinglesFinite
<1>4. /\ IsFiniteSet(P) /\ Cardinality(P) <= Len(m1)
      /\ IsFiniteSet(Q) /\ Cardinality(Q) <= Len(m2)
    BY <1>1, FewShingles
<1>5. Cardinality(R) >= 4 * (Len(m1) + Len(m2))
    OBVIOUS
<1> HIDE DEF A, B, R, P, Q
<1>6. Cardinality(R) <= Cardinality(A \cap B) /\ IsFiniteSet(A \cap B)
    <2>1. R \subseteq A \cap B
        BY <1>2
    <2>2. IsFiniteSet(A \cap B)
        BY <1>3, FS_Subset
    <2> QED  BY <2>1, <2>2, FS_Subset
<1>7. IsFiniteSet(P \cup Q) /\ Cardinality(P \cup Q) <= Len(m1) + Len(m2)
    <2>1. /\ IsFiniteSet(P \cup Q) /\ IsFiniteSet(P \cap Q)
          /\ Cardinality(P \cup Q) = Cardinality(P) + Cardinality(Q) - Cardinality(P \cap Q)
        <3>1. IsFiniteSet(P \cap Q)
            BY <1>4, FS_Subset
        <3> QED  BY <1>4, <3>1, FS_Union
    <2>2. /\ Cardinality(P) \in Nat /\ Cardinality(Q) \in Nat /\ Cardinality(P \cap Q) \in Nat
        BY <1>4, <2>1, FS_CardinalityType
    <2> QED  BY <1>1, <1>4, <2>1, <2>2
<1>8. IsFiniteSet(R \cup (P \cup Q)) /\
      Cardinality(R \cup (P \cup Q)) <= Cardinality(R) + (Len(m1) + Len(m2))
    <2>1. IsFiniteSet(R \cap (P \cup Q))
        BY <1>3, FS_Subset
    <2>2. /\ IsFiniteSet(R \cup (P \cup Q))
          /\ Cardinality(R \cup (P \cup Q)) =
                Cardinality(R) + Cardinality(P \cup Q) - Cardinality(R \cap (P \cup Q))
        BY <1>3, <1>7, FS_Union
    <2>3. /\ Cardinality(R) \in Nat /\ Cardinality(P \cup Q) \in Nat
          /\ Cardinality(R \cap (P \cup Q)) \in Nat
        BY <1>3, <1>7, <2>1, FS_CardinalityType
    <2> QED  BY <1>1, <1>7, <2>2, <2>3
<1>9. IsFiniteSet(A \cup B) /\ Cardinality(A \cup B) <= Cardinality(R) + (Len(m1) + Len(m2))
    <2>1. A \cup B \subseteq R \cup (P \cup Q)
        BY <1>2
    <2>2. IsFiniteSet(A \cup B) /\ Cardinality(A \cup B) <= Cardinality(R \cup (P \cup Q))
        BY <2>1, <1>8, FS_Subset
    <2>3. Cardinality(A \cup B) \in Nat /\ Cardinality(R \cup (P \cup Q)) \in Nat
          /\ Cardinality(R) \in Nat
        BY <1>3, <1>8, <2>2, FS_CardinalityType
    <2> QED  BY <1>1, <1>8, <2>2, <2>3
<1>10. Cardinality(A \cap B) \in Nat /\ Cardinality(A \cup B) \in Nat /\ Cardinality(R) \in Nat
    BY <1>3, <1>6, <1>9, FS_CardinalityType
<1>11. 5 * Cardinality(A \cap B) >= 4 * Cardinality(A \cup B)
    BY <1>1, <1>5, <1>6, <1>9, <1>10
<1> QED  BY <1>3, <1>11 DEF Similar, A, B
===============================================================================
