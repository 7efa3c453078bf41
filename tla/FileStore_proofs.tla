--------------------------- MODULE FileStore_proofs ----------------------------
(***************************************************************************)
(* The file store, for any number of processes, input files and faults.    *)
(***************************************************************************)
EXTENDS FileStore, TLAPS

USE BoundAssumption

LEMMA WithoutType ==
    ASSUME NEW k \in {"absent", "empty", "torn", "whole"}
    PROVE  Without(k) \in Content /\ Without(k).kind = k /\ Without(k).cursor = 0
           /\ Without(k).lease = NoOwner
BY DEF Without, Content

LEMMA LoadedType ==
    ASSUME file \in Content
    PROVE  /\ Loaded \in Content /\ Loaded.kind = "whole"
           /\ Loaded.cursor = file.cursor /\ Loaded.lease = file.lease
BY DEF Loaded, Content

LEMMA ChangedType ==
    ASSUME file \in Content, NEW p \in Process, at[p] \in 0 .. MaxFile
    PROVE  /\ Changed(p) \in Content /\ Changed(p).kind = "whole"
           /\ Changed(p).cursor = IF job[p] = "set" THEN at[p] ELSE file.cursor
           /\ Changed(p).lease = IF job[p] = "set" THEN file.lease
                                 ELSE IF job[p] = "acquire" THEN p ELSE NoOwner
BY LoadedType DEF Changed, Content

(* A step of p leaves the control of the others alone. *)
LEMMA Moved ==
    ASSUME TypeOK, NEW p \in Process, NEW s, NEW j, GoTo(p, s, j)
    PROVE  /\ pc'[p] = s /\ job'[p] = j
           /\ \A q \in Process : q # p => pc'[q] = pc[q] /\ job'[q] = job[q]
BY DEF TypeOK, GoTo

LEMMA InitType == Init => TypeOK
<1> SUFFICES ASSUME Init PROVE TypeOK
    OBVIOUS
<1>1. file \in Content /\ tmp \in Content /\ draft \in [Process -> Content]
    BY WithoutType DEF Init
<1> HIDE DEF Content
<1>2. 0 \in 0 .. MaxFile
    OBVIOUS
<1> QED  BY <1>1, <1>2 DEF Init, TypeOK

Steps == {"off", "load", "open", "write", "replace", "read", "reading", "ended"}
Jobs == {"acquire", "get", "set", "release"}

LEMMA MovedType ==
    ASSUME TypeOK, NEW p \in Process, NEW s \in Steps, NEW j \in Jobs, GoTo(p, s, j)
    PROVE  pc' \in [Process -> Steps] /\ job' \in [Process -> Jobs]
BY DEF TypeOK, GoTo, Steps, Jobs

LEMMA ForgetType ==
    ASSUME TypeOK, NEW p \in Process, Forget(p)
    PROVE  start' \in [Process -> 0 .. MaxFile] /\ at' \in [Process -> 0 .. MaxFile]
BY DEF TypeOK, Forget

LEMMA RaiseType ==
    ASSUME TypeOK, NEW p \in Process, Raise(p) \/ Leave(p) \/ End(p)
    PROVE  /\ pc' \in [Process -> Steps] /\ job' \in [Process -> Jobs]
           /\ start' \in [Process -> 0 .. MaxFile] /\ at' \in [Process -> 0 .. MaxFile]
<1>1. Forget(p)
    BY DEF Raise, Leave, End
<1>2. GoTo(p, "load", "release") \/ GoTo(p, "ended", "release")
    BY DEF Raise, Leave, End
<1>3. pc' \in [Process -> Steps] /\ job' \in [Process -> Jobs]
    BY <1>2, MovedType DEF Steps, Jobs
<1> QED  BY <1>1, <1>3, ForgetType

(* A process in the middle of a file has taken one, and a file taken is after the
   cursor its poll began with. *)
ReadingOf(p) ==
    /\ pc[p] = "reading" => at[p] # 0
    /\ at[p] # 0 => at[p] > start[p]

ReadingInv == \A p \in Process : ReadingOf(p)

LEMMA StepType == TypeOK /\ ReadingInv /\ [Next]_vars => TypeOK'
<1> SUFFICES ASSUME TypeOK, ReadingInv, [Next]_vars PROVE TypeOK'
    OBVIOUS
<1> USE DEF store, position, mining, history
<1>t. /\ pc \in [Process -> Steps] /\ job \in [Process -> Jobs]
      /\ file \in Content /\ tmp \in Content /\ draft \in [Process -> Content]
      /\ handle \in [Process -> {"none", "tmp", "path", "gone"}]
      /\ start \in [Process -> 0 .. MaxFile] /\ at \in [Process -> 0 .. MaxFile]
    BY DEF TypeOK, Steps, Jobs
<1>u. (/\ pc' \in [Process -> Steps] /\ job' \in [Process -> Jobs]
       /\ file' \in Content /\ tmp' \in Content /\ draft' \in [Process -> Content]
       /\ handle' \in [Process -> {"none", "tmp", "path", "gone"}]
       /\ start' \in [Process -> 0 .. MaxFile] /\ at' \in [Process -> 0 .. MaxFile]
       /\ lapsed' \subseteq Process
       /\ delivered' \subseteq 1 .. MaxFile /\ begun' \subseteq 1 .. MaxFile
       /\ repeats' \in Nat /\ faults' \in Nat
       /\ overlap' \in BOOLEAN /\ outlived' \in BOOLEAN) => TypeOK'
    BY DEF TypeOK, Steps, Jobs
<1>1. CASE UNCHANGED vars
    BY <1>1 DEF vars, TypeOK
<1>2. ASSUME NEW p \in Process, Launch(p) PROVE TypeOK'
    BY <1>2, <1>u, MovedType DEF Launch, TypeOK, Steps, Jobs
<1>3. ASSUME NEW p \in Process, LoadFails(p) \/ Refused(p) \/ NotMine(p) \/ ReplaceFails(p)
                                \/ Reject(p)
      PROVE  TypeOK'
    <2>1. Raise(p) \/ End(p)
        BY <1>3 DEF LoadFails, Refused, NotMine, ReplaceFails, Reject
    <2>2. faults' \in Nat /\ UNCHANGED <<file, tmp, draft, handle, lapsed, delivered, begun,
                                         repeats, overlap, outlived>>
        BY <1>3 DEF LoadFails, Refused, NotMine, ReplaceFails, Reject, TypeOK
    <2> QED  BY <2>1, <2>2, <1>u, <1>t, RaiseType DEF TypeOK
<1>4. ASSUME NEW p \in Process, Get(p) PROVE TypeOK'
    <2>1. start' \in [Process -> 0 .. MaxFile]
        BY <1>4, <1>t, LoadedType DEF Get, Content
    <2> QED  BY <1>4, <2>1, <1>u, MovedType DEF Get, TypeOK, Steps, Jobs
<1>5. ASSUME NEW p \in Process, Load(p) PROVE TypeOK'
    <2>1. draft' \in [Process -> Content]
        BY <1>5, <1>t, ChangedType DEF Load
    <2>2. overlap' \in BOOLEAN
        BY <1>5 DEF Load, TypeOK
    <2>3. pc' \in [Process -> Steps] /\ job' \in [Process -> Jobs]
        BY <1>5, <1>t, MovedType DEF Load, Steps
    <2>4. UNCHANGED <<file, tmp, handle, start, at, lapsed, delivered, begun, repeats,
                      faults, outlived>>
        BY <1>5 DEF Load
    <2> QED  BY <2>1, <2>2, <2>3, <2>4, <1>u DEF TypeOK
<1>6. ASSUME NEW p \in Process, Open(p) PROVE TypeOK'
    <2>1. handle' \in [Process -> {"none", "tmp", "path", "gone"}] /\ tmp' \in Content
        BY <1>6, <1>t, WithoutType DEF Open
    <2>2. pc' \in [Process -> Steps] /\ job' \in [Process -> Jobs]
        BY <1>6, <1>t, MovedType DEF Open, Steps
    <2> QED  BY <1>6, <2>1, <2>2, <1>u DEF Open, TypeOK
<1>7. ASSUME NEW p \in Process, Write(p) PROVE TypeOK'
    <2>1. \A c : Over(c, p) \subseteq Content
        BY <1>t, WithoutType DEF Over
    <2>2. tmp' \in Content /\ file' \in Content
        BY <1>7, <2>1, <1>t DEF Write
    <2>3. handle' \in [Process -> {"none", "tmp", "path", "gone"}]
          /\ draft' \in [Process -> Content]
        BY <1>7, <1>t, WithoutType DEF Write
    <2>4. pc' \in [Process -> Steps] /\ job' \in [Process -> Jobs]
        BY <1>7, <1>t, MovedType DEF Write, Steps
    <2> QED  BY <1>7, <2>2, <2>3, <2>4, <1>u DEF Write, TypeOK
<1>8. ASSUME NEW p \in Process, Replace(p) PROVE TypeOK'
    <2>1. handle' \in [Process -> {"none", "tmp", "path", "gone"}]
        BY <1>8, <1>t DEF Replace, Renamed
    <2>2. /\ pc' \in [Process -> Steps] /\ job' \in [Process -> Jobs]
          /\ start' \in [Process -> 0 .. MaxFile] /\ at' \in [Process -> 0 .. MaxFile]
        BY <1>8, <1>t, MovedType, RaiseType DEF Replace, Following, Steps, Jobs
    <2>3. file' \in Content /\ tmp' \in Content
        BY <1>8, <1>t, WithoutType DEF Replace
    <2> QED  BY <1>8, <2>1, <2>2, <2>3, <1>u DEF Replace, TypeOK
<1>9. ASSUME NEW p \in Process, NEW f \in 1 .. MaxFile, Begin(p, f) PROVE TypeOK'
    <2>1. at' \in [Process -> 0 .. MaxFile]
        BY <1>9, <1>t DEF Begin
    <2>2. repeats' \in Nat /\ begun' \subseteq 1 .. MaxFile
        BY <1>9 DEF Begin, TypeOK
    <2> QED  BY <1>9, <2>1, <2>2, <1>u, MovedType DEF Begin, TypeOK, Steps, Jobs
<1>10. ASSUME NEW p \in Process, Finish(p) PROVE TypeOK'
    <2>1. at[p] \in 1 .. MaxFile
        BY <1>10, <1>t DEF Finish, ReadingInv, ReadingOf
    <2>2. delivered' \subseteq 1 .. MaxFile
        BY <1>10, <2>1 DEF Finish, TypeOK
    <2> QED  BY <1>10, <2>2, <1>u, MovedType DEF Finish, TypeOK, Steps, Jobs
<1>11. ASSUME NEW p \in Process, Rest(p) PROVE TypeOK'
    <2>1. /\ pc' \in [Process -> Steps] /\ job' \in [Process -> Jobs]
          /\ start' \in [Process -> 0 .. MaxFile] /\ at' \in [Process -> 0 .. MaxFile]
        <3>1. Leave(p) \/ (GoTo(p, "load", "get") /\ Forget(p))
            BY <1>11 DEF Rest
        <3>2. CASE Leave(p)
            BY <3>2, RaiseType
        <3>3. CASE GoTo(p, "load", "get") /\ Forget(p)
            BY <3>3, MovedType, ForgetType DEF Steps, Jobs
        <3> QED  BY <3>1, <3>2, <3>3
    <2> QED  BY <1>11, <2>1, <1>u, <1>t DEF Rest, TypeOK
<1>12. ASSUME NEW p \in Process, Crash(p) PROVE TypeOK'
    <2>1. handle' \in [Process -> {"none", "tmp", "path", "gone"}]
          /\ draft' \in [Process -> Content]
        BY <1>12, <1>t, WithoutType DEF Crash
    <2> QED  BY <1>12, <2>1, <1>u, RaiseType DEF Crash, TypeOK
<1>13. ASSUME NEW p \in Process, Lapse(p) PROVE TypeOK'
    <2>1. outlived' \in BOOLEAN
        BY <1>13 DEF Lapse, TypeOK
    <2> QED  BY <1>13, <2>1, <1>u, <1>t DEF Lapse, TypeOK
<1> QED  BY <1>1, <1>2, <1>3, <1>4, <1>5, <1>6, <1>7, <1>8, <1>9, <1>10, <1>11, <1>12, <1>13
         DEF Next, Operation, Poll

------------------------------------------------------------------------------
(* No cursor, in the store or on its way there, is past a file that was not
   delivered and that the two orders agree on; and a poll has delivered what it
   came by. *)

CoveredTo(n) ==
    \A f \in 1 .. n : f \in delivered \/ \E g \in f + 1 .. n : Place[g] < Place[f]

Covered(c) == CoveredTo(c.cursor)

(* Files after the cursor the poll began with, before the one it took last or,
   unless it is in the middle of it, that one. *)
PlaceCovered(p) ==
    /\ CoveredTo(start[p])
    /\ \A f \in 1 .. MaxFile : f > start[p] /\ Place[f] < Place[at[p]] => f \in delivered
    /\ pc[p] # "reading" /\ at[p] # 0 => at[p] \in delivered

CoverInv ==
    /\ Covered(file) /\ Covered(tmp)
    /\ \A p \in Process : Covered(draft[p]) /\ PlaceCovered(p)

LEMMA CoveredZero == CoveredTo(0)
<1>1. 1 .. 0 = {}
    OBVIOUS
<1> QED  BY <1>1 DEF CoveredTo

(* What is delivered since takes nothing away. *)
LEMMA CoveredStays ==
    ASSUME delivered \subseteq delivered', NEW n, CoveredTo(n)
    PROVE  \A f \in 1 .. n : f \in delivered' \/ \E g \in f + 1 .. n : Place[g] < Place[f]
BY DEF CoveredTo

(* The cursor a poll sets after a file. *)
LEMMA CoveredAt ==
    ASSUME TypeOK, NEW p \in Process, ReadingOf(p), PlaceCovered(p),
           pc[p] # "reading"
    PROVE  CoveredTo(at[p])
<1>1. start[p] \in 0 .. MaxFile /\ at[p] \in 0 .. MaxFile
    BY DEF TypeOK
<1>2. CASE at[p] = 0
    BY <1>2, CoveredZero
<1>3. CASE at[p] # 0
    <2>1. at[p] > start[p] /\ at[p] \in delivered
        BY <1>3 DEF ReadingOf, PlaceCovered
    <2>2. ASSUME NEW f \in 1 .. at[p], f \notin delivered
          PROVE  \E g \in f + 1 .. at[p] : Place[g] < Place[f]
        <3>1. f \in 1 .. MaxFile /\ f \in Nat /\ f # at[p]
            BY <1>1, <2>1, <2>2
        <3>2. CASE f \in 1 .. start[p]
            <4>1. PICK g \in f + 1 .. start[p] : Place[g] < Place[f]
                BY <2>2, <3>2 DEF PlaceCovered, CoveredTo
            <4>2. g \in f + 1 .. at[p]
                BY <1>1, <2>1, <3>1
            <4> QED  BY <4>1, <4>2
        <3>3. CASE f \notin 1 .. start[p]
            <4>1. f > start[p]
                BY <1>1, <3>1, <3>3
            <4>2. ~(Place[f] < Place[at[p]])
                BY <2>2, <3>1, <4>1 DEF PlaceCovered
            <4>3. /\ Place[f] # Place[at[p]]
                  /\ Place[f] \in Nat /\ Place[at[p]] \in Nat
                BY <1>1, <3>1, PlaceAssumption
            <4>4. at[p] \in f + 1 .. at[p] /\ Place[at[p]] < Place[f]
                BY <1>1, <3>1, <4>2, <4>3
            <4> QED  BY <4>4
        <3> QED  BY <3>2, <3>3
    <2> QED  BY <2>2 DEF CoveredTo
<1> QED  BY <1>2, <1>3

LEMMA InitCover == Init => CoverInv /\ ReadingInv
<1> SUFFICES ASSUME Init PROVE CoverInv /\ ReadingInv
    OBVIOUS
<1>1. Covered(file) /\ Covered(tmp) /\ \A p \in Process : Covered(draft[p])
    BY CoveredZero, WithoutType DEF Init, Covered
<1>2. ASSUME NEW p \in Process PROVE PlaceCovered(p) /\ ReadingOf(p)
    <2>1. start[p] = 0 /\ at[p] = 0 /\ pc[p] = "off"
        BY DEF Init
    <2>2. \A f \in 1 .. MaxFile : ~(Place[f] < Place[0])
        BY PlaceAssumption
    <2> QED  BY <2>1, <2>2, CoveredZero DEF PlaceCovered, ReadingOf
<1> QED  BY <1>1, <1>2 DEF CoverInv, ReadingInv

LEMMA StepCover == TypeOK /\ CoverInv /\ ReadingInv /\ [Next]_vars
                   => CoverInv' /\ ReadingInv'
<1> SUFFICES ASSUME TypeOK, CoverInv, ReadingInv, [Next]_vars
             PROVE  CoverInv' /\ ReadingInv'
    OBVIOUS
<1> USE DEF store, position, mining, history
<1>a. /\ pc \in [Process -> Steps] /\ job \in [Process -> Jobs]
      /\ file \in Content /\ tmp \in Content /\ draft \in [Process -> Content]
      /\ start \in [Process -> 0 .. MaxFile] /\ at \in [Process -> 0 .. MaxFile]
    BY DEF TypeOK, Steps, Jobs
<1>b. /\ Covered(file) /\ Covered(tmp)
      /\ \A p \in Process : Covered(draft[p]) /\ PlaceCovered(p) /\ ReadingOf(p)
    BY DEF CoverInv, ReadingInv
<1>n. /\ \A f \in 0 .. MaxFile : Place[f] \in Nat /\ Place[f] >= Place[0]
      /\ \A f, g \in 0 .. MaxFile : Place[f] = Place[g] => f = g
    BY PlaceAssumption
<1>z. CoveredTo(0)' /\ \A k \in {"absent", "empty", "torn"} : CoveredTo(Without(k).cursor)'
    <2>1. 1 .. 0 = {}
        OBVIOUS
    <2>2. CoveredTo(0)'
        BY <2>1 DEF CoveredTo
    <2> QED  BY <2>2, WithoutType
(* What every step must show: of what the store holds, and of the one process
   that moved. *)
<1>d. ASSUME delivered \subseteq delivered', NEW p \in Process,
             \A q \in Process : q # p => /\ pc'[q] = pc[q] /\ start'[q] = start[q]
                                         /\ at'[q] = at[q] /\ draft'[q] = draft[q],
             Covered(file)', Covered(tmp)', Covered(draft[p])', PlaceCovered(p)',
             ReadingOf(p)'
      PROVE  CoverInv' /\ ReadingInv'
    <2>1. ASSUME NEW q \in Process, q # p
          PROVE  Covered(draft[q])' /\ PlaceCovered(q)' /\ ReadingOf(q)'
        <3>1. CoveredTo(draft[q].cursor)' /\ CoveredTo(start[q])'
            BY <1>b, <1>d, <2>1 DEF Covered, PlaceCovered, CoveredTo
        <3> QED  BY <1>b, <1>d, <2>1, <3>1 DEF Covered, PlaceCovered, ReadingOf
    <2> QED  BY <1>d, <2>1 DEF CoverInv, ReadingInv
<1>e. ASSUME delivered \subseteq delivered', UNCHANGED <<file, tmp, draft>>
      PROVE  Covered(file)' /\ Covered(tmp)' /\ \A p \in Process : Covered(draft[p])'
    BY <1>e, <1>b DEF Covered, CoveredTo
(* A process that is in no poll. *)
<1>f. ASSUME NEW p \in Process, start'[p] = 0, at'[p] = 0, pc'[p] # "reading"
      PROVE  PlaceCovered(p)' /\ ReadingOf(p)'
    BY <1>f, <1>n, <1>z DEF PlaceCovered, ReadingOf
(* A process that stays where it is in its poll. *)
<1>g. ASSUME NEW p \in Process, start'[p] = start[p], at'[p] = at[p],
             pc[p] # "reading", pc'[p] # "reading", UNCHANGED delivered
      PROVE  PlaceCovered(p)' /\ ReadingOf(p)'
    BY <1>g, <1>b DEF PlaceCovered, ReadingOf, CoveredTo
<1>1. CASE UNCHANGED vars
    BY <1>1 DEF vars, CoverInv, ReadingInv, Covered, CoveredTo, PlaceCovered, ReadingOf
<1>2. ASSUME NEW p \in Process,
             \/ LoadFails(p) \/ Refused(p) \/ NotMine(p) \/ ReplaceFails(p) \/ Reject(p)
             \/ Rest(p)
      PROVE  CoverInv' /\ ReadingInv'
    <2>1. /\ UNCHANGED <<file, tmp, draft, delivered>> /\ Forget(p)
          /\ \/ GoTo(p, "load", "release") \/ GoTo(p, "ended", "release")
             \/ GoTo(p, "load", "get")
        BY <1>2 DEF LoadFails, Refused, NotMine, ReplaceFails, Reject, Rest, Raise, Leave, End
    <2>2. /\ pc'[p] # "reading" /\ start'[p] = 0 /\ at'[p] = 0
          /\ \A q \in Process : q # p => /\ pc'[q] = pc[q] /\ start'[q] = start[q]
                                         /\ at'[q] = at[q]
        BY <2>1, <1>a, Moved DEF Forget
    <2> QED  BY <2>1, <2>2, <1>d, <1>e, <1>f
<1>3. ASSUME NEW p \in Process, Launch(p) PROVE CoverInv' /\ ReadingInv'
    <2>1. /\ UNCHANGED <<file, tmp, draft, delivered, start, at>> /\ pc[p] # "reading"
          /\ GoTo(p, "load", "acquire")
        BY <1>3 DEF Launch
    <2>2. pc'[p] = "load" /\ \A q \in Process : q # p => pc'[q] = pc[q]
        BY <2>1, Moved
    <2> QED  BY <2>1, <2>2, <1>d, <1>e, <1>g
<1>4. ASSUME NEW p \in Process, Get(p) PROVE CoverInv' /\ ReadingInv'
    <2>1. /\ UNCHANGED <<file, tmp, draft, delivered>> /\ GoTo(p, "read", "get")
          /\ start' = [start EXCEPT ![p] = file.cursor] /\ at' = [at EXCEPT ![p] = 0]
        BY <1>4, <1>a, LoadedType DEF Get
    <2>2. /\ pc'[p] = "read" /\ start'[p] = file.cursor /\ at'[p] = 0
          /\ \A q \in Process : q # p => /\ pc'[q] = pc[q] /\ start'[q] = start[q]
                                         /\ at'[q] = at[q]
        BY <2>1, <1>a, Moved
    <2>3. CoveredTo(start[p])'
        BY <2>1, <2>2, <1>b DEF Covered, CoveredTo
    <2>4. PlaceCovered(p)' /\ ReadingOf(p)'
        BY <2>2, <2>3, <1>n DEF PlaceCovered, ReadingOf
    <2> QED  BY <2>1, <2>2, <2>4, <1>d, <1>e
<1>5. ASSUME NEW p \in Process, Load(p) PROVE CoverInv' /\ ReadingInv'
    <2>1. /\ UNCHANGED <<file, tmp, delivered, start, at>> /\ pc[p] = "load"
          /\ GoTo(p, "open", job[p]) /\ draft' = [draft EXCEPT ![p] = Changed(p)]
        BY <1>5 DEF Load
    <2>2. /\ pc'[p] = "open" /\ draft'[p] = Changed(p)
          /\ \A q \in Process : q # p => pc'[q] = pc[q] /\ draft'[q] = draft[q]
        BY <2>1, <1>a, Moved
    <2>3. Changed(p).cursor = IF job[p] = "set" THEN at[p] ELSE file.cursor
        BY <1>a, ChangedType
    <2>4. CoveredTo(Changed(p).cursor)
        BY <2>1, <2>3, <1>b, CoveredAt DEF Covered
    <2>5. Covered(draft[p])' /\ Covered(file)' /\ Covered(tmp)'
        BY <2>1, <2>2, <2>4, <1>b DEF Covered, CoveredTo
    <2> QED  BY <2>1, <2>2, <2>5, <1>d, <1>g
<1>6. ASSUME NEW p \in Process, Open(p) PROVE CoverInv' /\ ReadingInv'
    <2>1. /\ UNCHANGED <<file, draft, delivered, start, at>> /\ pc[p] = "open"
          /\ GoTo(p, "write", job[p]) /\ tmp' = Without("empty")
        BY <1>6 DEF Open
    <2>2. pc'[p] = "write" /\ \A q \in Process : q # p => pc'[q] = pc[q]
        BY <2>1, Moved
    <2>3. Covered(tmp)' /\ Covered(file)' /\ Covered(draft[p])'
        BY <2>1, <1>b, <1>z DEF Covered, CoveredTo
    <2> QED  BY <2>1, <2>2, <2>3, <1>d, <1>g
<1>7. ASSUME NEW p \in Process, Write(p) PROVE CoverInv' /\ ReadingInv'
    <2>1. /\ UNCHANGED <<delivered, start, at>> /\ pc[p] = "write"
          /\ GoTo(p, "replace", job[p]) /\ draft' = [draft EXCEPT ![p] = Without("absent")]
          /\ tmp' \in {tmp, draft[p], Without("torn")}
          /\ file' \in {file, draft[p], Without("torn")}
        BY <1>7 DEF Write, Over
    <2>2. /\ pc'[p] = "replace" /\ draft'[p] = Without("absent")
          /\ \A q \in Process : q # p => pc'[q] = pc[q] /\ draft'[q] = draft[q]
        BY <2>1, <1>a, Moved
    <2>3. Covered(tmp)' /\ Covered(file)' /\ Covered(draft[p])'
        BY <2>1, <2>2, <1>b, <1>z DEF Covered, CoveredTo
    <2> QED  BY <2>1, <2>2, <2>3, <1>d, <1>g
<1>8. ASSUME NEW p \in Process, Replace(p) PROVE CoverInv' /\ ReadingInv'
    <2>1. /\ UNCHANGED <<delivered, draft>> /\ pc[p] = "replace"
          /\ file' = tmp /\ tmp' = Without("absent")
          /\ UNCHANGED <<start, at>> \/ Forget(p)
          /\ \/ GoTo(p, "load", "get") \/ GoTo(p, "read", "get")
             \/ GoTo(p, "ended", "release")
        BY <1>8 DEF Replace, Following, End
    <2>2. /\ pc'[p] # "reading"
          /\ \/ start'[p] = start[p] /\ at'[p] = at[p]
             \/ start'[p] = 0 /\ at'[p] = 0
          /\ \A q \in Process : q # p => /\ pc'[q] = pc[q] /\ start'[q] = start[q]
                                         /\ at'[q] = at[q]
        BY <2>1, <1>a, Moved DEF Forget
    <2>3. Covered(tmp)' /\ Covered(file)' /\ Covered(draft[p])'
        BY <2>1, <1>b, <1>z DEF Covered, CoveredTo
    <2> QED  BY <2>1, <2>2, <2>3, <1>d, <1>f, <1>g
<1>9. ASSUME NEW p \in Process, NEW f \in 1 .. MaxFile, Begin(p, f)
      PROVE  CoverInv' /\ ReadingInv'
    <2>1. /\ UNCHANGED <<file, tmp, draft, delivered, start>> /\ pc[p] = "read"
          /\ GoTo(p, "reading", "get") /\ at' = [at EXCEPT ![p] = f] /\ IsNext(p, f)
        BY <1>9 DEF Begin
    <2>2. /\ pc'[p] = "reading" /\ at'[p] = f /\ start'[p] = start[p]
          /\ \A q \in Process : q # p => pc'[q] = pc[q] /\ at'[q] = at[q]
        BY <2>1, <1>a, Moved
    <2>3. f > start[p] /\ f # 0
        BY <2>1 DEF IsNext, Ahead
    <2>4. ASSUME NEW g \in 1 .. MaxFile, g > start[p], Place[g] < Place[f]
          PROVE  g \in delivered
        <3>1. ~(Place[g] > Place[at[p]])
            <4>1. Place[g] \in Nat /\ Place[f] \in Nat
                BY <1>n
            <4> QED  BY <2>1, <2>4, <4>1 DEF IsNext, Ahead
        <3>2. Place[g] = Place[at[p]] \/ Place[g] < Place[at[p]]
            <4>1. Place[g] \in Nat /\ Place[at[p]] \in Nat
                BY <1>a, <1>n
            <4> QED  BY <3>1, <4>1
        <3>3. CASE Place[g] = Place[at[p]]
            <4>1. g = at[p] /\ at[p] # 0
                BY <3>3, <1>a, <1>n
            <4> QED  BY <4>1, <2>1, <1>b DEF PlaceCovered
        <3>4. CASE Place[g] < Place[at[p]]
            BY <3>4, <2>4, <1>b DEF PlaceCovered
        <3> QED  BY <3>2, <3>3, <3>4
    <2>5. CoveredTo(start[p])'
        BY <2>1, <2>2, <1>b DEF PlaceCovered, CoveredTo
    <2>6. PlaceCovered(p)' /\ ReadingOf(p)'
        BY <2>1, <2>2, <2>3, <2>4, <2>5 DEF PlaceCovered, ReadingOf
    <2> QED  BY <2>1, <2>2, <2>6, <1>d, <1>e
<1>10. ASSUME NEW p \in Process, Finish(p) PROVE CoverInv' /\ ReadingInv'
    <2>1. /\ UNCHANGED <<file, tmp, draft, start, at>> /\ pc[p] = "reading"
          /\ GoTo(p, "load", "set") /\ delivered' = delivered \cup {at[p]}
        BY <1>10 DEF Finish
    <2>2. pc'[p] = "load" /\ \A q \in Process : q # p => pc'[q] = pc[q]
        BY <2>1, Moved
    <2>3. CoveredTo(start[p])'
        BY <2>1, <1>b DEF PlaceCovered, CoveredTo
    <2>4. PlaceCovered(p)' /\ ReadingOf(p)'
        BY <2>1, <2>2, <2>3, <1>b DEF PlaceCovered, ReadingOf
    <2> QED  BY <2>1, <2>2, <2>4, <1>d, <1>e
<1>11. ASSUME NEW p \in Process, Crash(p) PROVE CoverInv' /\ ReadingInv'
    <2>1. /\ UNCHANGED <<file, tmp, delivered>> /\ Forget(p)
          /\ GoTo(p, "ended", "release") /\ draft' = [draft EXCEPT ![p] = Without("absent")]
        BY <1>11 DEF Crash, End
    <2>2. /\ pc'[p] # "reading" /\ start'[p] = 0 /\ at'[p] = 0
          /\ draft'[p] = Without("absent")
          /\ \A q \in Process : q # p => /\ pc'[q] = pc[q] /\ start'[q] = start[q]
                                         /\ at'[q] = at[q] /\ draft'[q] = draft[q]
        BY <2>1, <1>a, Moved DEF Forget
    <2>3. Covered(tmp)' /\ Covered(file)' /\ Covered(draft[p])'
        BY <2>1, <2>2, <1>b, <1>z DEF Covered, CoveredTo
    <2> QED  BY <2>1, <2>2, <2>3, <1>d, <1>f
<1>12. ASSUME NEW p \in Process, Lapse(p) PROVE CoverInv' /\ ReadingInv'
    BY <1>12 DEF Lapse, CoverInv, ReadingInv, Covered, CoveredTo, PlaceCovered, ReadingOf
<1>13. ASSUME NEW p \in Process, Operation(p) PROVE CoverInv' /\ ReadingInv'
    BY <1>13, <1>2, <1>4, <1>5, <1>6, <1>7, <1>8 DEF Operation
<1>14. ASSUME NEW p \in Process, Poll(p) PROVE CoverInv' /\ ReadingInv'
    BY <1>14, <1>2, <1>9, <1>10 DEF Poll
<1> QED  BY <1>1, <1>3, <1>11, <1>12, <1>13, <1>14 DEF Next

LEMMA TypeAndCover == Spec => [](TypeOK /\ CoverInv /\ ReadingInv)
<1> QED  BY InitType, InitCover, StepType, StepCover, PTL DEF Spec

(* Type correctness of the file store. *)
THEOREM TypeCorrect == Spec => []TypeOK
<1> QED  BY TypeAndCover, PTL

(* The cursor in the store never passes a file that was not mined to its end,
   however saves overlap, tear and are lost, but for one that the order of the
   Paths puts after a file it comes before as a string. *)
THEOREM NoSkipAlways == Spec => []NoSkip
<1>1. CoverInv => NoSkip
    BY DEF CoverInv, Covered, CoveredTo, NoSkip
<1> QED  BY <1>1, TypeAndCover, PTL

------------------------------------------------------------------------------
(* While no two changes of the store have overlapped, the one process that is
   between its load and its rename has .tmp for itself, and what it is about to
   put in place was computed from what is in place. *)

Incoming(p) == IF pc[p] = "replace" THEN tmp ELSE draft[p]

SaveOf(p) ==
    /\ handle[p] # "none" => pc[p] = "write"
    /\ pc[p] \in {"open", "write"} => draft[p].kind = "whole"
    /\ pc[p] = "write" => handle[p] = "tmp" /\ tmp.kind = "empty"
    /\ pc[p] = "replace" => tmp.kind = "whole"

LeaseOf(p) ==
    /\ pc[p] = "off" => job[p] = "acquire"
    /\ pc[p] \in {"read", "reading"} => job[p] = "get"
    /\ Changing(p) =>
         \/ /\ job[p] = "acquire"
            /\ Incoming(p).lease = p /\ file.lease \in {NoOwner} \cup lapsed
         \/ job[p] = "set" /\ Incoming(p).lease = file.lease
         \/ job[p] = "release" /\ Incoming(p).lease = NoOwner /\ file.lease = p
    /\ Mining(p) => p \in lapsed \/ file.lease = p
    /\ job[p] = "acquire" => file.lease # p /\ p \notin lapsed

SafeInv ==
    /\ Readable
    /\ \A p, q \in Process : Changing(p) /\ Changing(q) => p = q
    /\ \A p \in Process : SaveOf(p) /\ LeaseOf(p)

LEMMA InitSafe == Init => SafeInv
<1> SUFFICES ASSUME Init PROVE SafeInv
    OBVIOUS
<1>1. file.kind = "absent" /\ file.lease = NoOwner
    BY WithoutType DEF Init
<1>2. \A p \in Process : pc[p] = "off" /\ job[p] = "acquire" /\ handle[p] = "none"
                         /\ p \notin lapsed
    BY DEF Init
<1> QED  BY <1>1, <1>2, OwnerAssumption
         DEF SafeInv, Readable, Changing, Mining, SaveOf, LeaseOf

LEMMA StepSafe ==
    ASSUME TypeOK, SafeInv, [Next]_vars, ~overlap'
    PROVE  SafeInv'
<1> USE DEF store, position, mining, history
<1>a. /\ pc \in [Process -> Steps] /\ job \in [Process -> Jobs]
      /\ file \in Content /\ tmp \in Content /\ draft \in [Process -> Content]
      /\ handle \in [Process -> {"none", "tmp", "path", "gone"}]
      /\ at \in [Process -> 0 .. MaxFile] /\ lapsed \subseteq Process
    BY DEF TypeOK, Steps, Jobs
<1>b. /\ Readable
      /\ \A p, q \in Process : Changing(p) /\ Changing(q) => p = q
      /\ \A p \in Process : SaveOf(p) /\ LeaseOf(p)
    BY DEF SafeInv
(* A step that leaves the path and .tmp alone. *)
<1>c. ASSUME UNCHANGED <<file, tmp, lapsed>>, NEW p \in Process,
             \A q \in Process : q # p => /\ pc'[q] = pc[q] /\ job'[q] = job[q]
                                         /\ draft'[q] = draft[q] /\ handle'[q] = handle[q],
             SaveOf(p)', LeaseOf(p)', ~Changing(p)'
      PROVE  SafeInv'
    <2>1. ASSUME NEW q \in Process, q # p
          PROVE  SaveOf(q)' /\ LeaseOf(q)' /\ (Changing(q)' <=> Changing(q))
        BY <1>b, <1>c, <2>1 DEF SaveOf, LeaseOf, Changing, Mining, Incoming
    <2>2. Readable'
        BY <1>b, <1>c DEF Readable
    <2> QED  BY <1>b, <1>c, <2>1, <2>2 DEF SafeInv
(* A step of the one process that is changing the store. *)
<1>d. ASSUME lapsed' = lapsed, NEW p \in Process,
             \A q \in Process : q # p => /\ pc'[q] = pc[q] /\ job'[q] = job[q]
                                         /\ draft'[q] = draft[q] /\ handle'[q] = handle[q]
                                         /\ ~Changing(q)
                                         /\ Mining(q) => q \in lapsed \/ file'.lease = q
                                         /\ job[q] = "acquire" => file'.lease # q,
             SaveOf(p)', LeaseOf(p)', Readable'
      PROVE  SafeInv'
    <2>1. ASSUME NEW q \in Process, q # p
          PROVE  SaveOf(q)' /\ LeaseOf(q)' /\ ~Changing(q)'
        BY <1>b, <1>d, <2>1 DEF SaveOf, LeaseOf, Changing, Mining
    <2> QED  BY <1>d, <2>1 DEF SafeInv
<1>1. CASE UNCHANGED vars
    BY <1>1, <1>b DEF vars, SafeInv, Readable, Changing, Mining, SaveOf, LeaseOf, Incoming
<1>2. ASSUME NEW p \in Process,
             \/ LoadFails(p) \/ Refused(p) \/ NotMine(p) \/ ReplaceFails(p) \/ Reject(p)
             \/ Rest(p) /\ Leave(p)
      PROVE  SafeInv'
    <2>1. ~LoadFails(p) /\ ~ReplaceFails(p)
        BY <1>b DEF LoadFails, ReplaceFails, SaveOf
    <2>2. /\ UNCHANGED <<file, tmp, draft, handle, lapsed>> /\ pc[p] # "write"
          /\ GoTo(p, "load", "release") \/ GoTo(p, "ended", "release")
        BY <1>2, <2>1 DEF Refused, NotMine, Reject, Rest, Raise, Leave, End
    <2>3. /\ pc'[p] \in {"load", "ended"} /\ job'[p] = "release"
          /\ \A q \in Process : q # p => pc'[q] = pc[q] /\ job'[q] = job[q]
        BY <2>2, Moved
    <2>4. SaveOf(p)' /\ LeaseOf(p)' /\ ~Changing(p)'
        BY <2>2, <2>3, <1>b DEF SaveOf, LeaseOf, Changing, Mining
    <2> QED  BY <2>2, <2>3, <2>4, <1>c
<1>3. ASSUME NEW p \in Process, Crash(p) PROVE SafeInv'
    <2>1. /\ UNCHANGED <<file, tmp, lapsed>> /\ GoTo(p, "ended", "release")
          /\ handle' = [handle EXCEPT ![p] = "none"]
          /\ draft' = [draft EXCEPT ![p] = Without("absent")]
        BY <1>3 DEF Crash, End
    <2>2. /\ pc'[p] = "ended" /\ job'[p] = "release" /\ handle'[p] = "none"
          /\ \A q \in Process : q # p => /\ pc'[q] = pc[q] /\ job'[q] = job[q]
                                         /\ draft'[q] = draft[q] /\ handle'[q] = handle[q]
        BY <2>1, <1>a, Moved
    <2>3. SaveOf(p)' /\ LeaseOf(p)' /\ ~Changing(p)'
        BY <2>2 DEF SaveOf, LeaseOf, Changing, Mining
    <2> QED  BY <2>1, <2>2, <2>3, <1>c
<1>4. ASSUME NEW p \in Process,
             \/ Launch(p) \/ Get(p) \/ Finish(p) \/ \E f \in 1 .. MaxFile : Begin(p, f)
             \/ Rest(p) /\ GoTo(p, "load", "get")
      PROVE  SafeInv'
    <2>1. /\ UNCHANGED <<file, tmp, draft, handle, lapsed>>
          /\ \/ pc[p] = "off" /\ GoTo(p, "load", "acquire")
             \/ job[p] = "get" /\ pc[p] = "load" /\ GoTo(p, "read", "get")
             \/ pc[p] \in {"read", "reading"} /\ GoTo(p, "load", "set")
             \/ pc[p] \in {"read", "reading"} /\ GoTo(p, "reading", "get")
             \/ pc[p] \in {"read", "reading"} /\ GoTo(p, "load", "get")
        BY <1>4 DEF Launch, Get, Finish, Begin, Rest
    <2>2. \A q \in Process : q # p => pc'[q] = pc[q] /\ job'[q] = job[q]
        BY <2>1, Moved
    <2>3. CASE pc[p] = "off" /\ GoTo(p, "load", "acquire")
        <3>1. pc'[p] = "load" /\ job'[p] = "acquire" /\ job[p] = "acquire"
            BY <2>3, <1>b, Moved DEF LeaseOf
        <3>2. SaveOf(p)' /\ LeaseOf(p)' /\ ~Changing(p)'
            BY <2>1, <2>3, <3>1, <1>b DEF SaveOf, LeaseOf, Changing, Mining
        <3> QED  BY <2>1, <2>2, <3>2, <1>c
    <2>4. CASE ~(pc[p] = "off" /\ GoTo(p, "load", "acquire"))
        <3>1. Mining(p) /\ pc[p] # "write"
            BY <2>1, <2>4, <1>b DEF LeaseOf, Mining
        <3>2. /\ pc'[p] \in {"load", "read", "reading"} /\ job'[p] \in {"get", "set"}
              /\ pc'[p] \in {"read", "reading"} => job'[p] = "get"
            BY <2>1, <2>4, Moved
        <3>3. SaveOf(p)' /\ LeaseOf(p)' /\ ~Changing(p)'
            BY <2>1, <3>1, <3>2, <1>b DEF SaveOf, LeaseOf, Changing, Mining
        <3> QED  BY <2>1, <2>2, <3>3, <1>c
    <2> QED  BY <2>3, <2>4
<1>5. ASSUME NEW p \in Process, Load(p) PROVE SafeInv'
    <2>1. /\ UNCHANGED <<file, tmp, handle, lapsed>> /\ pc[p] = "load"
          /\ GoTo(p, "open", job[p]) /\ draft' = [draft EXCEPT ![p] = Changed(p)]
          /\ Changes(p) /\ \A q \in Process \ {p} : ~Changing(q)
        BY <1>5 DEF Load
    <2>2. /\ pc'[p] = "open" /\ job'[p] = job[p] /\ draft'[p] = Changed(p)
          /\ \A q \in Process : q # p => pc'[q] = pc[q] /\ job'[q] = job[q]
                                        /\ draft'[q] = draft[q]
        BY <2>1, <1>a, Moved
    <2>3. /\ Changed(p).kind = "whole" /\ Loaded.lease = file.lease
          /\ Changed(p).lease = IF job[p] = "set" THEN file.lease
                                ELSE IF job[p] = "acquire" THEN p ELSE NoOwner
        BY <1>a, ChangedType, LoadedType
    <2>4. SaveOf(p)'
        BY <2>1, <2>2, <2>3, <1>b DEF SaveOf
    <2>5. LeaseOf(p)'
        <3>1. Incoming(p)' = Changed(p)
            BY <2>2 DEF Incoming
        <3>2. job[p] = "acquire" => file.lease \in {NoOwner} \cup lapsed
            BY <2>1, <2>3, <1>b DEF Changes, Grantable, LeaseOf
        <3>3. job[p] = "release" => file.lease = p
            BY <2>1, <2>3 DEF Changes
        <3>4. job[p] \in {"acquire", "set", "release"}
            BY <2>1 DEF Changes
        <3>5. Mining(p)' => Mining(p)
            BY <2>1, <2>2 DEF Mining
        <3> QED  BY <2>1, <2>2, <2>3, <3>1, <3>2, <3>3, <3>4, <3>5, <1>b DEF LeaseOf
    <2>6. \A q \in Process : q # p => /\ Mining(q) => q \in lapsed \/ file'.lease = q
                                      /\ job[q] = "acquire" => file'.lease # q
        BY <2>1, <1>b DEF LeaseOf
    <2>7. Readable'
        BY <2>1, <1>b DEF Readable
    <2> QED  BY <2>1, <2>2, <2>4, <2>5, <2>6, <2>7, <1>d
<1>6. ASSUME NEW p \in Process, Open(p) PROVE SafeInv'
    <2>1. /\ UNCHANGED <<file, draft, lapsed>> /\ pc[p] = "open"
          /\ GoTo(p, "write", job[p]) /\ tmp' = Without("empty")
          /\ handle' = [handle EXCEPT ![p] = "tmp"]
        BY <1>6 DEF Open
    <2>2. /\ pc'[p] = "write" /\ job'[p] = job[p] /\ handle'[p] = "tmp"
          /\ \A q \in Process : q # p => pc'[q] = pc[q] /\ job'[q] = job[q]
                                        /\ handle'[q] = handle[q]
        BY <2>1, <1>a, Moved
    <2>3. \A q \in Process : q # p => ~Changing(q)
        BY <2>1, <1>b DEF Changing
    <2>4. SaveOf(p)'
        BY <2>1, <2>2, <1>b, WithoutType DEF SaveOf
    <2>5. LeaseOf(p)'
        BY <2>1, <2>2, <1>b DEF LeaseOf, Changing, Mining, Incoming
    <2>6. \A q \in Process : q # p => /\ Mining(q) => q \in lapsed \/ file'.lease = q
                                      /\ job[q] = "acquire" => file'.lease # q
        BY <2>1, <1>b DEF LeaseOf
    <2>7. Readable'
        BY <2>1, <1>b DEF Readable
    <2> QED  BY <2>1, <2>2, <2>3, <2>4, <2>5, <2>6, <2>7, <1>d
<1>7. ASSUME NEW p \in Process, Write(p) PROVE SafeInv'
    <2>1. /\ UNCHANGED <<file, lapsed>> /\ pc[p] = "write" /\ tmp' = draft[p]
          /\ GoTo(p, "replace", job[p])
          /\ draft' = [draft EXCEPT ![p] = Without("absent")]
          /\ handle' = [handle EXCEPT ![p] = "none"]
        <3>1. pc[p] = "write" /\ handle[p] = "tmp" /\ tmp.kind = "empty"
            BY <1>7, <1>b DEF Write, SaveOf
        <3> QED  BY <1>7, <3>1 DEF Write, Over
    <2>2. /\ pc'[p] = "replace" /\ job'[p] = job[p] /\ handle'[p] = "none"
          /\ \A q \in Process : q # p => /\ pc'[q] = pc[q] /\ job'[q] = job[q]
                                         /\ handle'[q] = handle[q] /\ draft'[q] = draft[q]
        BY <2>1, <1>a, Moved
    <2>3. \A q \in Process : q # p => ~Changing(q)
        BY <2>1, <1>b DEF Changing
    <2>4. SaveOf(p)'
        BY <2>1, <2>2, <1>b DEF SaveOf
    <2>5. LeaseOf(p)'
        <3>1. Incoming(p)' = Incoming(p)
            BY <2>1, <2>2 DEF Incoming
        <3>2. Changing(p) /\ (Mining(p)' <=> Mining(p))
            BY <2>1, <2>2 DEF Changing, Mining
        <3> QED  BY <2>1, <2>2, <3>1, <3>2, <1>b DEF LeaseOf
    <2>6. \A q \in Process : q # p => /\ Mining(q) => q \in lapsed \/ file'.lease = q
                                      /\ job[q] = "acquire" => file'.lease # q
        BY <2>1, <1>b DEF LeaseOf
    <2>7. Readable'
        BY <2>1, <1>b DEF Readable
    <2> QED  BY <2>1, <2>2, <2>3, <2>4, <2>5, <2>6, <2>7, <1>d
<1>8. ASSUME NEW p \in Process, Replace(p) PROVE SafeInv'
    <2>1. /\ UNCHANGED <<draft, lapsed>> /\ pc[p] = "replace" /\ file' = tmp
          /\ handle' = [q \in Process |-> Renamed(handle[q])] /\ Following(p)
        BY <1>8 DEF Replace
    <2>2. Changing(p) /\ Incoming(p) = tmp /\ tmp.kind = "whole"
        BY <2>1, <1>b DEF Changing, Incoming, SaveOf
    <2>3. \A q \in Process : q # p => ~Changing(q)
        BY <2>2, <1>b
    <2>4. \A q \in Process : handle[q] = "none" /\ handle'[q] = "none"
        BY <2>1, <2>3, <1>b DEF SaveOf, Changing, Renamed
    <2>5. Readable'
        BY <2>1, <2>2 DEF Readable
    <2>6. CASE job[p] = "acquire"
        <3>1. /\ GoTo(p, "load", "get") /\ file'.lease = p
              /\ file.lease \in {NoOwner} \cup lapsed
            BY <2>1, <2>2, <2>6, <1>b DEF Following, LeaseOf
        <3>2. /\ pc'[p] = "load" /\ job'[p] = "get"
              /\ \A q \in Process : q # p => pc'[q] = pc[q] /\ job'[q] = job[q]
            BY <3>1, Moved
        <3>3. SaveOf(p)' /\ LeaseOf(p)'
            BY <2>4, <3>1, <3>2 DEF SaveOf, LeaseOf, Changing, Mining
        <3>4. \A q \in Process : q # p => /\ Mining(q) => q \in lapsed
                                          /\ job[q] = "acquire" => file'.lease # q
            BY <3>1, <1>b, OwnerAssumption DEF LeaseOf
        <3> QED  BY <2>1, <2>3, <2>4, <2>5, <3>2, <3>3, <3>4, <1>d
    <2>7. CASE job[p] = "set"
        <3>1. GoTo(p, "read", "get") /\ file'.lease = file.lease
            BY <2>1, <2>2, <2>7, <1>b DEF Following, LeaseOf
        <3>2. /\ pc'[p] = "read" /\ job'[p] = "get"
              /\ \A q \in Process : q # p => pc'[q] = pc[q] /\ job'[q] = job[q]
            BY <3>1, Moved
        <3>3. Mining(p)
            BY <2>1, <2>7 DEF Mining
        <3>4. SaveOf(p)' /\ LeaseOf(p)'
            BY <2>1, <2>4, <3>1, <3>2, <3>3, <1>b DEF SaveOf, LeaseOf, Changing
        <3>5. \A q \in Process : q # p => /\ Mining(q) => q \in lapsed \/ file'.lease = q
                                          /\ job[q] = "acquire" => file'.lease # q
            BY <3>1, <1>b DEF LeaseOf
        <3> QED  BY <2>1, <2>3, <2>4, <2>5, <3>2, <3>4, <3>5, <1>d
    <2>8. CASE job[p] = "release"
        <3>1. /\ GoTo(p, "ended", "release") /\ file'.lease = NoOwner /\ file.lease = p
            BY <2>1, <2>2, <2>8, <1>b DEF Following, LeaseOf, End
        <3>2. /\ pc'[p] = "ended" /\ job'[p] = "release"
              /\ \A q \in Process : q # p => pc'[q] = pc[q] /\ job'[q] = job[q]
            BY <3>1, Moved
        <3>3. SaveOf(p)' /\ LeaseOf(p)'
            BY <2>4, <3>2 DEF SaveOf, LeaseOf, Changing, Mining
        <3>4. \A q \in Process : q # p => /\ Mining(q) => q \in lapsed
                                          /\ job[q] = "acquire" => file'.lease # q
            BY <3>1, <1>b, OwnerAssumption DEF LeaseOf
        <3> QED  BY <2>1, <2>3, <2>4, <2>5, <3>2, <3>3, <3>4, <1>d
    <2> QED  BY <2>1, <2>6, <2>7, <2>8 DEF Following
<1>9. ASSUME NEW p \in Process, Lapse(p) PROVE SafeInv'
    <2>1. /\ UNCHANGED <<file, tmp, draft, handle, pc, job>>
          /\ file.lease = p /\ lapsed' = lapsed \cup {p}
        BY <1>9 DEF Lapse
    <2>2. ASSUME NEW q \in Process PROVE SaveOf(q)' /\ LeaseOf(q)' /\ (Changing(q)' <=> Changing(q))
        BY <2>1, <1>b DEF SaveOf, LeaseOf, Changing, Mining, Incoming
    <2> QED  BY <2>1, <2>2, <1>b DEF SafeInv, Readable
<1>10. ASSUME NEW p \in Process, Operation(p) PROVE SafeInv'
    BY <1>10, <1>2, <1>4, <1>5, <1>6, <1>7, <1>8 DEF Operation
<1>11. ASSUME NEW p \in Process, Poll(p) PROVE SafeInv'
    BY <1>11, <1>2, <1>4 DEF Poll, Rest
<1> QED  BY <1>1, <1>3, <1>4, <1>9, <1>10, <1>11 DEF Next

(* Once set, overlap stays set. *)
LEMMA OverlapStays == [Next]_vars /\ overlap \in BOOLEAN /\ ~overlap' => ~overlap
BY DEF Next, Operation, Poll, vars, history, Launch, LoadFails, Refused, Get, NotMine, Load,
       Open, Write, Replace, ReplaceFails, Begin, Finish, Rest, Reject, Crash, Lapse

LEMMA SafeAlways == Spec => [](overlap \/ SafeInv)
<1>1. Init => overlap \/ SafeInv
    BY InitSafe
<1>2. TypeOK /\ (overlap \/ SafeInv) /\ [Next]_vars => (overlap \/ SafeInv)'
    BY StepSafe, OverlapStays DEF TypeOK
<1> QED  BY <1>1, <1>2, TypeCorrect, PTL DEF Spec

(* What is at the path is whole or nothing, whenever a save is cut off, unless
   two changes have overlapped. *)
THEOREM FileIsAlwaysWhole == Spec => []FileIsWhole
<1>1. overlap \/ SafeInv => FileIsWhole
    BY DEF SafeInv, FileIsWhole
<1> QED  BY <1>1, SafeAlways, PTL

(* At most one process mines under a lease that has not lapsed, unless two
   changes have overlapped. *)
THEOREM SingleRunnerAlways == Spec => []SingleRunner
<1>1. overlap \/ SafeInv => SingleRunner
    BY DEF SafeInv, LeaseOf, SingleRunner
<1> QED  BY <1>1, SafeAlways, PTL

------------------------------------------------------------------------------
(* How far the files have been begun, while changes do not overlap and no miner
   outlives its lease.  Of the files the two orders agree on, only the first one
   after the cursor can be begun again, and if it has been begun and is in nobody's
   hands, a fault has paid for it.  The cursor may go back, but never past one of
   these. *)

InHand(p) == Mining(p) /\ (pc[p] = "reading" \/ job[p] = "set")

PlaceOf(p) ==
    /\ Mining(p) => p \notin lapsed
    /\ Changing(p) =>
          Incoming(p).cursor = IF job[p] = "set" THEN at[p] ELSE file.cursor
    /\ pc[p] = "read" => file.cursor = IF at[p] = 0 THEN start[p] ELSE at[p]
    /\ InHand(p) => /\ at[p] # 0
                    /\ \A f \in 1 .. MaxFile : Aligned(f) /\ f <= file.cursor => f <= at[p]

CountInv ==
    /\ \A f \in begun, g \in 1 .. MaxFile :
          Aligned(f) /\ Aligned(g) /\ g < f => g <= file.cursor
    /\ repeats <= faults
    /\ repeats = faults =>
          \A f \in begun : Aligned(f) =>
              f <= file.cursor \/ \E p \in Process : InHand(p) /\ at[p] = f

PlaceInv == CountInv /\ \A p \in Process : PlaceOf(p)

LEMMA InitPlace == Init => PlaceInv
<1> SUFFICES ASSUME Init PROVE PlaceInv
    OBVIOUS
<1>1. \A p \in Process : pc[p] = "off" /\ p \notin lapsed
    BY DEF Init
<1>2. CountInv
    BY DEF Init, CountInv
<1> QED  BY <1>1, <1>2 DEF PlaceInv, PlaceOf, Mining, Changing, InHand

(* The next file of a poll comes, among the aligned ones, after those up to the
   cursor, and no aligned one is left out. *)
LEMMA NextInOrder ==
    ASSUME TypeOK, NEW p \in Process, ReadingOf(p), NEW f \in 1 .. MaxFile, IsNext(p, f),
           NEW c, c = IF at[p] = 0 THEN start[p] ELSE at[p], NEW g \in 1 .. MaxFile, Aligned(g)
    PROVE  /\ g <= c => g < f
           /\ g < f => g <= c
<1>1. /\ start[p] \in 0 .. MaxFile /\ at[p] \in 0 .. MaxFile /\ c \in 0 .. MaxFile
      /\ at[p] # 0 => at[p] > start[p]
    BY DEF TypeOK, ReadingOf
<1>2. /\ Place[f] \in Nat /\ Place[g] \in Nat /\ Place[at[p]] \in Nat
      /\ Place[at[p]] = Place[g] => at[p] = g
      /\ Place[f] = Place[g] => f = g
      /\ at[p] = 0 => Place[at[p]] < Place[g]
    BY <1>1, PlaceAssumption
<1>3. /\ f > start[p] /\ Place[f] > Place[at[p]]
      /\ g > start[p] /\ Place[g] > Place[at[p]] => Place[f] <= Place[g]
    BY DEF IsNext, Ahead
<1>4. /\ f < g <=> Place[f] < Place[g]
      /\ at[p] # 0 => (at[p] < g <=> Place[at[p]] < Place[g])
    BY <1>1 DEF Aligned
<1>5. ASSUME g <= c PROVE g < f
    <2>1. CASE at[p] = 0
        BY <1>1, <1>3, <1>5, <2>1
    <2>2. CASE at[p] # 0
        <3>1. ~(at[p] < g)
            BY <1>1, <1>5, <2>2
        <3>2. Place[g] < Place[f]
            BY <1>2, <1>3, <1>4, <2>2, <3>1
        <3> QED  BY <1>2, <1>4, <3>2
    <2> QED  BY <2>1, <2>2
<1>6. ASSUME g < f PROVE g <= c
    <2>1. ~(Place[f] <= Place[g])
        BY <1>2, <1>4, <1>6
    <2>2. CASE at[p] = 0
        BY <1>1, <1>2, <1>3, <2>1, <2>2
    <2>3. CASE at[p] # 0
        BY <1>1, <1>2, <1>3, <1>4, <2>1, <2>3
    <2> QED  BY <2>2, <2>3
<1> QED  BY <1>5, <1>6

LEMMA StepPlace ==
    ASSUME TypeOK, ReadingInv, SafeInv, PlaceInv, [Next]_vars, ~overlap', ~outlived'
    PROVE  PlaceInv'
<1> USE DEF store, position, mining, history
<1>a. /\ pc \in [Process -> Steps] /\ job \in [Process -> Jobs]
      /\ file \in Content /\ tmp \in Content /\ draft \in [Process -> Content]
      /\ start \in [Process -> 0 .. MaxFile] /\ at \in [Process -> 0 .. MaxFile]
      /\ lapsed \subseteq Process
      /\ begun \subseteq 1 .. MaxFile /\ repeats \in Nat /\ faults \in Nat
      /\ file.cursor \in Nat
    BY DEF TypeOK, Steps, Jobs, Content
<1>b. /\ Readable /\ CountInv
      /\ \A p, q \in Process : Changing(p) /\ Changing(q) => p = q
      /\ \A p \in Process : SaveOf(p) /\ LeaseOf(p) /\ PlaceOf(p) /\ ReadingOf(p)
    BY DEF SafeInv, PlaceInv, ReadingInv
(* One process mines. *)
<1>c. ASSUME NEW p \in Process, Mining(p), NEW q \in Process, q # p PROVE ~Mining(q)
    BY <1>b, <1>c DEF LeaseOf, PlaceOf
(* A step that moves p alone. *)
<1> DEFINE Alone(p) ==
        \A q \in Process : q # p => /\ pc'[q] = pc[q] /\ job'[q] = job[q]
                                    /\ start'[q] = start[q] /\ at'[q] = at[q]
                                    /\ draft'[q] = draft[q]
<1>d. ASSUME lapsed' = lapsed, file'.cursor = file.cursor,
             NEW p \in Process, Alone(p), PlaceOf(p)', CountInv',
             tmp' = tmp \/ \A q \in Process : q # p => ~Changing(q)
      PROVE  PlaceInv'
    <2>1. ASSUME NEW q \in Process, q # p PROVE PlaceOf(q)'
        BY <1>b, <1>d, <2>1 DEF PlaceOf, InHand, Changing, Mining, Incoming
    <2> QED  BY <1>d, <2>1 DEF PlaceInv
(* A step that begins nothing and takes no file out of hand. *)
<1>e. ASSUME file'.cursor = file.cursor, UNCHANGED <<begun, repeats, faults>>,
             NEW p \in Process, Alone(p), InHand(p) => InHand(p)' /\ at'[p] = at[p]
      PROVE  CountInv'
    <2>1. \A q \in Process : InHand(q) => InHand(q)' /\ at'[q] = at[q]
        BY <1>e DEF InHand, Mining
    <2> QED  BY <1>b, <1>e, <2>1 DEF CountInv
(* A fault. *)
<1>f. ASSUME file' = file, UNCHANGED <<begun, repeats>>, faults' = faults + 1
      PROVE  CountInv'
    <2>1. repeats <= faults /\ repeats' # faults'
        BY <1>a, <1>b, <1>f DEF CountInv
    <2> QED  BY <1>a, <1>b, <1>f, <2>1 DEF CountInv
<1>1. CASE UNCHANGED vars
    BY <1>1, <1>b DEF vars, PlaceInv, CountInv, PlaceOf, InHand, Mining, Changing, Incoming
<1>2. ASSUME NEW p \in Process,
             \/ Launch(p) \/ LoadFails(p) \/ Refused(p) \/ NotMine(p) \/ ReplaceFails(p)
             \/ Rest(p)
      PROVE  PlaceInv'
    <2>1. ~LoadFails(p) /\ ~ReplaceFails(p)
        BY <1>b DEF LoadFails, ReplaceFails, SaveOf
    <2>2. /\ UNCHANGED <<file, tmp, draft, lapsed, begun, repeats, faults>>
          /\ \/ GoTo(p, "load", "acquire") /\ UNCHANGED position
             \/ GoTo(p, "load", "get") /\ Forget(p) /\ pc[p] = "read"
             \/ GoTo(p, "load", "release") /\ Forget(p)
             \/ GoTo(p, "ended", "release") /\ Forget(p)
          /\ pc[p] \in {"off", "read"} \/ job[p] \in {"acquire", "release"}
        BY <1>2, <2>1 DEF Launch, Refused, NotMine, Rest, Leave, End
    <2>3. /\ pc'[p] \in {"load", "ended"} /\ job'[p] # "set"
          /\ job'[p] = "get" => pc[p] = "read"
          /\ \A q \in Process : q # p => /\ pc'[q] = pc[q] /\ job'[q] = job[q]
                                         /\ start'[q] = start[q] /\ at'[q] = at[q]
        BY <2>2, <1>a, Moved DEF Forget
    <2>4. ~InHand(p)
        BY <2>2, <1>b DEF InHand, Mining, LeaseOf
    <2>5. Mining(p)' => Mining(p)
        BY <2>3, <1>b DEF Mining, LeaseOf
    <2>6. PlaceOf(p)'
        BY <2>2, <2>3, <2>5, <1>b DEF PlaceOf, Changing, InHand
    <2> QED  BY <2>2, <2>3, <2>4, <2>6, <1>d, <1>e
<1>3. ASSUME NEW p \in Process, Crash(p) \/ Reject(p) PROVE PlaceInv'
    <2>1. /\ UNCHANGED <<file, tmp, lapsed, begun, repeats>> /\ faults' = faults + 1
          /\ draft' = draft \/ draft' = [draft EXCEPT ![p] = Without("absent")]
          /\ GoTo(p, "load", "release") \/ GoTo(p, "ended", "release")
          /\ Forget(p)
        BY <1>3 DEF Crash, Reject, Raise, Leave, End
    <2>2. /\ pc'[p] \in {"load", "ended"} /\ job'[p] = "release"
          /\ \A q \in Process : q # p => /\ pc'[q] = pc[q] /\ job'[q] = job[q]
                                         /\ start'[q] = start[q] /\ at'[q] = at[q]
                                         /\ draft'[q] = draft[q]
        BY <2>1, <1>a, Moved DEF Forget
    <2>3. PlaceOf(p)'
        BY <2>2 DEF PlaceOf, Mining, Changing, InHand
    <2>4. CountInv'
        BY <2>1, <1>f
    <2> QED  BY <2>1, <2>2, <2>3, <2>4, <1>d
<1>4. ASSUME NEW p \in Process, Get(p) PROVE PlaceInv'
    <2>1. /\ UNCHANGED <<file, tmp, draft, lapsed, begun, repeats, faults>>
          /\ GoTo(p, "read", "get") /\ pc[p] = "load" /\ job[p] = "get"
          /\ start' = [start EXCEPT ![p] = Loaded.cursor] /\ at' = [at EXCEPT ![p] = 0]
        BY <1>4 DEF Get
    <2>2. /\ pc'[p] = "read" /\ job'[p] = "get"
          /\ start'[p] = file.cursor /\ at'[p] = 0
          /\ \A q \in Process : q # p => /\ pc'[q] = pc[q] /\ job'[q] = job[q]
                                         /\ start'[q] = start[q] /\ at'[q] = at[q]
        BY <2>1, <1>a, Moved, LoadedType
    <2>3. Mining(p) /\ ~InHand(p)
        BY <2>1, <1>b DEF LeaseOf, Mining, InHand
    <2>4. PlaceOf(p)'
        BY <2>1, <2>2, <2>3, <1>b DEF PlaceOf, Changing, InHand
    <2> QED  BY <2>1, <2>2, <2>3, <2>4, <1>d, <1>e
<1>5. ASSUME NEW p \in Process, Load(p) PROVE PlaceInv'
    <2>1. /\ UNCHANGED <<file, tmp, start, at, lapsed, begun, repeats, faults>>
          /\ pc[p] = "load"
          /\ GoTo(p, "open", job[p]) /\ draft' = [draft EXCEPT ![p] = Changed(p)]
        BY <1>5 DEF Load
    <2>2. /\ pc'[p] = "open" /\ job'[p] = job[p] /\ draft'[p] = Changed(p)
          /\ \A q \in Process : q # p => /\ pc'[q] = pc[q] /\ job'[q] = job[q]
                                         /\ draft'[q] = draft[q]
        BY <2>1, <1>a, Moved
    <2>3. (Mining(p)' <=> Mining(p)) /\ (InHand(p)' <=> InHand(p))
        BY <2>1, <2>2 DEF Mining, InHand
    <2>4. Changed(p).cursor = IF job[p] = "set" THEN at[p] ELSE file.cursor
        BY <1>a, ChangedType
    <2>5. PlaceOf(p)'
        BY <2>1, <2>2, <2>3, <2>4, <1>b DEF PlaceOf, Incoming
    <2> QED  BY <2>1, <2>2, <2>3, <2>5, <1>d, <1>e
<1>6. ASSUME NEW p \in Process, Open(p) \/ Write(p) PROVE PlaceInv'
    <2>1. /\ UNCHANGED <<start, at, lapsed, begun, repeats, faults>> /\ file' = file
          /\ \/ pc[p] = "open" /\ GoTo(p, "write", job[p]) /\ draft' = draft
             \/ /\ pc[p] = "write" /\ GoTo(p, "replace", job[p]) /\ tmp' = draft[p]
                /\ draft' = [draft EXCEPT ![p] = Without("absent")]
        <3>1. pc[p] = "write" => handle[p] = "tmp" /\ tmp.kind = "empty"
            BY <1>b DEF SaveOf
        <3> QED  BY <1>6, <3>1 DEF Open, Write, Over
    <2>2. /\ pc'[p] \in {"write", "replace"} /\ job'[p] = job[p] /\ Incoming(p)' = draft[p]
          /\ \A q \in Process : q # p => /\ pc'[q] = pc[q] /\ job'[q] = job[q]
                                         /\ draft'[q] = draft[q]
        BY <2>1, <1>a, Moved DEF Incoming
    <2>3. /\ (Mining(p)' <=> Mining(p)) /\ (InHand(p)' <=> InHand(p))
          /\ Changing(p) /\ Incoming(p) = draft[p]
        BY <2>1, <2>2 DEF Mining, InHand, Changing, Incoming
    <2>4. \A q \in Process : q # p => ~Changing(q)
        BY <2>3, <1>b
    <2>5. PlaceOf(p)'
        BY <2>1, <2>2, <2>3, <1>b DEF PlaceOf
    <2> QED  BY <2>1, <2>2, <2>3, <2>4, <2>5, <1>d, <1>e
<1>7. ASSUME NEW p \in Process, Replace(p) PROVE PlaceInv'
    <2>1. /\ UNCHANGED <<draft, lapsed, begun, repeats, faults>> /\ pc[p] = "replace"
          /\ file' = tmp /\ Following(p)
        BY <1>7 DEF Replace
    <2>2. /\ Changing(p) /\ \A q \in Process : q # p => ~Changing(q)
          /\ file'.cursor = IF job[p] = "set" THEN at[p] ELSE file.cursor
        BY <2>1, <1>b DEF Changing, Incoming, PlaceOf
    <2>3. CASE job[p] = "set"
        <3>1. GoTo(p, "read", "get") /\ UNCHANGED <<start, at>>
            BY <2>1, <2>3 DEF Following
        <3>2. /\ pc'[p] = "read" /\ job'[p] = "get"
              /\ \A q \in Process : q # p => pc'[q] = pc[q] /\ job'[q] = job[q]
            BY <3>1, Moved
        <3>3. Mining(p) /\ InHand(p) /\ at[p] # 0 /\ at[p] \in 1 .. MaxFile
              /\ \A f \in 1 .. MaxFile : Aligned(f) /\ f <= file.cursor => f <= at[p]
            BY <2>1, <2>3, <1>a, <1>b DEF Mining, InHand, PlaceOf
        <3>4. PlaceOf(p)'
            BY <2>1, <2>2, <2>3, <3>1, <3>2, <3>3, <1>b
            DEF PlaceOf, Mining, Changing, InHand
        <3>5. ASSUME NEW q \in Process, q # p PROVE PlaceOf(q)'
            <4>1. ~Mining(q) /\ ~Mining(q)' /\ ~Changing(q)'
                BY <2>2, <3>2, <3>3, <3>5, <1>c DEF Mining, Changing
            <4>2. pc'[q] # "read"
                BY <4>1, <3>2, <3>5, <1>b DEF Mining, LeaseOf
            <4> QED  BY <4>1, <4>2 DEF PlaceOf, InHand
        <3>6. CountInv'
            <4>1. ASSUME NEW f \in begun, Aligned(f), repeats = faults PROVE f <= at[p]
                <5>1. f <= file.cursor \/ \E q \in Process : InHand(q) /\ at[q] = f
                    BY <4>1, <1>b DEF CountInv
                <5>2. \A q \in Process : InHand(q) => q = p
                    BY <3>3, <1>c DEF InHand
                <5>3. f \in 1 .. MaxFile /\ at[p] \in Nat
                    BY <1>a, <3>3
                <5> QED  BY <4>1, <5>1, <5>2, <5>3, <3>3
            <4>2. \A f \in begun, g \in 1 .. MaxFile :
                      Aligned(f) /\ Aligned(g) /\ g < f => g <= at[p]
                BY <3>3, <1>b DEF CountInv
            <4>3. file'.cursor = at[p] /\ UNCHANGED <<begun, repeats, faults>>
                BY <2>1, <2>2, <2>3
            <4> QED  BY <4>1, <4>2, <4>3, <1>b DEF CountInv
        <3> QED  BY <3>4, <3>5, <3>6 DEF PlaceInv
    <2>4. CASE job[p] # "set"
        <3>1. \/ GoTo(p, "load", "get") /\ UNCHANGED position /\ job[p] = "acquire"
              \/ GoTo(p, "ended", "release") /\ Forget(p)
            BY <2>1, <2>4 DEF Following, End
        <3>2. /\ \/ pc'[p] = "load" /\ job'[p] = "get" /\ job[p] = "acquire"
                 \/ pc'[p] = "ended" /\ job'[p] = "release"
              /\ \A q \in Process : q # p => /\ pc'[q] = pc[q] /\ job'[q] = job[q]
                                             /\ start'[q] = start[q] /\ at'[q] = at[q]
            BY <3>1, <1>a, Moved DEF Forget
        <3>3. ~InHand(p)
            BY <2>1, <2>4 DEF InHand
        <3>4. PlaceOf(p)'
            BY <2>1, <3>2, <1>b DEF PlaceOf, LeaseOf, Mining, Changing, InHand
        <3> QED  BY <2>1, <2>2, <2>4, <3>2, <3>3, <3>4, <1>d, <1>e
    <2> QED  BY <2>3, <2>4
<1>8. ASSUME NEW p \in Process, NEW f \in 1 .. MaxFile, Begin(p, f) PROVE PlaceInv'
    <2>1. /\ UNCHANGED <<file, tmp, draft, start, lapsed, faults>> /\ pc[p] = "read"
          /\ IsNext(p, f) /\ begun' = begun \cup {f}
          /\ repeats' = repeats + (IF f \in begun /\ Aligned(f) THEN 1 ELSE 0)
          /\ at' = [at EXCEPT ![p] = f] /\ GoTo(p, "reading", "get")
        BY <1>8 DEF Begin
    <2>2. /\ pc'[p] = "reading" /\ job'[p] = "get" /\ at'[p] = f
          /\ \A q \in Process : q # p => /\ pc'[q] = pc[q] /\ job'[q] = job[q]
                                         /\ at'[q] = at[q]
        BY <2>1, <1>a, Moved
    <2>3. Mining(p) /\ ~InHand(p)
        BY <2>1, <1>b DEF LeaseOf, Mining, InHand
    <2>4. \A q \in Process : ~InHand(q)
        BY <2>3, <1>c DEF InHand
    <2>5. \A g \in 1 .. MaxFile : Aligned(g) => /\ g <= file.cursor => g < f
                                                /\ g < f => g <= file.cursor
        <3>1. file.cursor = IF at[p] = 0 THEN start[p] ELSE at[p]
            BY <2>1, <1>b DEF PlaceOf
        <3> QED  BY <2>1, <3>1, <1>b, NextInOrder
    <2>6. PlaceOf(p)'
        BY <2>1, <2>2, <2>3, <2>5, <1>b DEF InHand, PlaceOf, Mining, Changing
    <2>7. InHand(p)'
        BY <2>2 DEF InHand, Mining
    <2>8. f \in begun /\ Aligned(f) => repeats # faults
        BY <2>4, <2>5, <1>b DEF CountInv
    <2>9. CountInv'
        <3>1. repeats <= faults /\ repeats' <= faults'
            BY <2>1, <2>8, <1>a, <1>b DEF CountInv
        <3>2. ASSUME NEW h \in begun', NEW g \in 1 .. MaxFile, Aligned(h), Aligned(g), g < h
              PROVE  g <= file'.cursor
            BY <2>1, <2>5, <3>2, <1>b DEF CountInv
        <3>3. ASSUME repeats' = faults', NEW h \in begun', Aligned(h), h # f
              PROVE  h <= file'.cursor
            <4>1. h \in begun /\ h \in 1 .. MaxFile
                BY <2>1, <3>3, <1>a
            <4>2. CASE repeats = faults
                BY <2>1, <2>4, <3>3, <4>1, <4>2, <1>b DEF CountInv
            <4>3. CASE repeats # faults
                <5>1. Aligned(f)
                    BY <2>1, <3>3, <4>3, <1>a
                <5>2. f < h => f <= file.cursor
                    BY <3>3, <4>1, <5>1, <1>b DEF CountInv
                <5>3. ~(f < h)
                    BY <2>5, <5>1, <5>2
                <5>4. h < f
                    BY <3>3, <4>1, <5>3
                <5> QED  BY <2>1, <2>5, <3>3, <4>1, <5>4
            <4> QED  BY <4>2, <4>3
        <3> QED  BY <2>2, <2>7, <3>1, <3>2, <3>3 DEF CountInv
    <2> QED  BY <2>1, <2>2, <2>6, <2>9, <1>d
<1>9. ASSUME NEW p \in Process, Finish(p) PROVE PlaceInv'
    <2>1. /\ UNCHANGED <<file, tmp, draft, start, at, lapsed, begun, repeats, faults>>
          /\ pc[p] = "reading" /\ GoTo(p, "load", "set")
        BY <1>9 DEF Finish
    <2>2. /\ pc'[p] = "load" /\ job'[p] = "set"
          /\ \A q \in Process : q # p => pc'[q] = pc[q] /\ job'[q] = job[q]
        BY <2>1, Moved
    <2>3. InHand(p) /\ InHand(p)' /\ Mining(p)
        BY <2>1, <2>2, <1>b DEF InHand, Mining, LeaseOf
    <2>4. PlaceOf(p)'
        BY <2>1, <2>2, <2>3, <1>b DEF PlaceOf, Changing
    <2> QED  BY <2>1, <2>2, <2>3, <2>4, <1>d, <1>e
<1>10. ASSUME NEW p \in Process, Lapse(p) PROVE PlaceInv'
    <2>1. /\ UNCHANGED <<file, tmp, draft, pc, job, start, at, begun, repeats, faults>>
          /\ lapsed' = lapsed \cup {p} /\ ~Mining(p)
        BY <1>10 DEF Lapse
    <2>2. \A q \in Process : PlaceOf(q)'
        BY <2>1, <1>b DEF PlaceOf, Mining, Changing, InHand, Incoming
    <2>3. CountInv'
        BY <2>1, <1>b DEF CountInv, InHand, Mining
    <2> QED  BY <2>2, <2>3 DEF PlaceInv
<1>11. ASSUME NEW p \in Process, Operation(p) PROVE PlaceInv'
    BY <1>11, <1>2, <1>4, <1>5, <1>6, <1>7 DEF Operation
<1>12. ASSUME NEW p \in Process, Poll(p) PROVE PlaceInv'
    BY <1>12, <1>2, <1>3, <1>8, <1>9 DEF Poll
<1> QED  BY <1>1, <1>2, <1>3, <1>10, <1>11, <1>12 DEF Next

(* Once set, outlived stays set. *)
LEMMA OutlivedStays == [Next]_vars /\ outlived \in BOOLEAN /\ ~outlived' => ~outlived
BY DEF Next, Operation, Poll, vars, history, Launch, LoadFails, Refused, Get, NotMine, Load,
       Open, Write, Replace, ReplaceFails, Begin, Finish, Rest, Reject, Crash, Lapse

(* A crash or an exception makes at most one of the files that the two orders
   agree on be mined again, and nothing else does, for any number of launches, files
   and faults and any two orders, as long as one process at a time mines and changes
   the store. *)
THEOREM OneFilePerFaultAlways == Spec => []OneFilePerFault
<1>1. Init => overlap \/ outlived \/ PlaceInv
    BY InitPlace
<1>2. /\ TypeOK /\ ReadingInv /\ (overlap \/ SafeInv)
      /\ (overlap \/ outlived \/ PlaceInv) /\ [Next]_vars
      => (overlap \/ outlived \/ PlaceInv)'
    BY StepPlace, OverlapStays, OutlivedStays DEF TypeOK
<1>3. overlap \/ outlived \/ PlaceInv => OneFilePerFault
    BY DEF PlaceInv, CountInv, OneFilePerFault
<1> QED  BY <1>1, <1>2, <1>3, TypeAndCover, SafeAlways, PTL DEF Spec

------------------------------------------------------------------------------
(* The refinement of the lease, step by step, until two changes overlap. *)

(* What the contract keeps by itself: whoever runs under a lease in force is the
   holder, and the lease is live. *)
LeaseInv == \A p \in Lease!InForce : file.lease = p /\ p \notin lapsed \cup {NoOwner}

(* The file has been left alone by the processes that run under a live lease, and
   by those on their way out. *)
HoldsInv == \A p \in Process : Running(p) => p \in lapsed \/ file.lease = p

LEMMA SameInv == LeaseInv <=> HoldsInv
BY OwnerAssumption DEF LeaseInv, HoldsInv, Lease!InForce

LEMMA InitLease == Init => Lease!Init /\ LeaseInv
<1> SUFFICES ASSUME Init PROVE Lease!Init /\ LeaseInv
    OBVIOUS
<1>1. file.lease = NoOwner /\ lapsed = {} /\ \A p \in Process : ~Running(p)
    BY WithoutType DEF Init, Running
<1> QED  BY <1>1 DEF Lease!Init, LeaseInv, Lease!InForce

LEMMA LeaseInvStays == LeaseInv /\ [Lease!Next]_(Lease!vars) => LeaseInv'
<1> DEFINE live == file.lease \notin lapsed \cup {NoOwner}
           running == {p \in Process : Running(p)}
           overdue == {p \in lapsed : Running(p)}
<1> SUFFICES ASSUME \A o \in running \ overdue : file.lease = o /\ live,
                    [Lease!Next]_(Lease!vars)
             PROVE  \A o \in running' \ overdue' : file'.lease = o /\ live'
    BY OwnerAssumption DEF LeaseInv, Lease!InForce
<1>1. CASE UNCHANGED Lease!vars
    <2>1. UNCHANGED <<file.lease, live, running, overdue>>
        BY <1>1 DEF Lease!vars
    <2> HIDE DEF live, running, overdue
    <2> QED  BY <2>1
<1>2. CASE Lease!Lapse
    <2>1. overdue' = running /\ running' = running
        BY <1>2 DEF Lease!Lapse
    <2> HIDE DEF live, running, overdue
    <2> QED  BY <2>1
<1>3. ASSUME NEW o \in Process, Lease!Acquire(o)
      PROVE  \A q \in running' \ overdue' : file'.lease = q /\ live'
    <2>1. /\ o \notin running /\ file'.lease = o /\ running' = running \cup {o}
          /\ ~live \/ file.lease = o
          /\ overdue' = IF live' THEN overdue ELSE overdue \cup {o}
        BY <1>3 DEF Lease!Acquire, Lease!Grantable
    <2> HIDE DEF live, running, overdue
    <2> QED  BY <2>1
<1>4. ASSUME NEW o \in Process, Lease!AcquireUnseen(o)
      PROVE  \A q \in running' \ overdue' : file'.lease = q /\ live'
    <2>1. /\ o \notin running /\ running' = running /\ overdue' = overdue
          /\ ~live \/ file.lease = o
        BY <1>4 DEF Lease!AcquireUnseen, Lease!Grantable
    <2> HIDE DEF live, running, overdue
    <2> QED  BY <2>1
<1>5. ASSUME NEW o \in Process, Lease!Release(o)
      PROVE  \A q \in running' \ overdue' : file'.lease = q /\ live'
    <2>1. /\ running' = running \ {o} /\ overdue' = overdue \ {o}
          /\ file'.lease = IF file.lease = o THEN NoOwner ELSE file.lease
          /\ live' = (live /\ file.lease # o)
        BY <1>5 DEF Lease!Release
    <2> HIDE DEF live, running, overdue
    <2> QED  BY <2>1
<1>6. ASSUME NEW o \in Process, Lease!Crash(o)
      PROVE  \A q \in running' \ overdue' : file'.lease = q /\ live'
    <2>1. /\ running' = running \ {o} /\ overdue' = overdue \ {o}
          /\ UNCHANGED <<file.lease, live>>
        BY <1>6 DEF Lease!Crash
    <2> HIDE DEF live, running, overdue
    <2> QED  BY <2>1
<1> HIDE DEF live, running, overdue
<1> QED  BY <1>1, <1>2, <1>3, <1>4, <1>5, <1>6 DEF Lease!Next

LEMMA StepLease ==
    ASSUME TypeOK, SafeInv, HoldsInv, [Next]_vars, ~overlap'
    PROVE  [Lease!Next]_(Lease!vars)
<1> USE DEF store, position, mining, history
<1> DEFINE live == file.lease \notin lapsed \cup {NoOwner}
           running == {p \in Process : Running(p)}
           overdue == {p \in lapsed : Running(p)}
<1>a. /\ pc \in [Process -> Steps] /\ job \in [Process -> Jobs]
      /\ file \in Content /\ lapsed \subseteq Process
    BY DEF TypeOK, Steps, Jobs
<1>b. /\ Readable /\ \A p \in Process : SaveOf(p) /\ LeaseOf(p)
    BY DEF SafeInv
(* A step that changes nobody's part in the lease. *)
<1>c. ASSUME UNCHANGED lapsed, file'.lease = file.lease, NEW p \in Process,
             \A q \in Process : q # p => pc'[q] = pc[q] /\ job'[q] = job[q],
             Running(p)' <=> Running(p)
      PROVE  UNCHANGED Lease!vars
    <2>1. \A q \in Process : Running(q)' <=> Running(q)
        BY <1>c DEF Running
    <2>2. running' = running /\ overdue' = overdue
        BY <2>1, <1>c, <1>a
    <2> QED  BY <2>2, <1>c DEF Lease!vars
(* A process that goes and leaves the lease as it is. *)
<1>d. ASSUME UNCHANGED <<file, lapsed>>, NEW p \in Process,
             \A q \in Process : q # p => pc'[q] = pc[q] /\ job'[q] = job[q],
             Running(p), ~Running(p)'
      PROVE  Lease!Next
    <2>1. \A q \in Process : q # p => (Running(q)' <=> Running(q))
        BY <1>d DEF Running
    <2>2. running' = running \ {p} /\ overdue' = overdue \ {p} /\ p \in running
        BY <2>1, <1>d, <1>a
    <2>3. Lease!Crash(p)
        BY <2>2, <1>d DEF Lease!Crash
    <2> QED  BY <2>3 DEF Lease!Next
<1>1. CASE UNCHANGED vars
    BY <1>1 DEF vars, Lease!vars, Running
<1>2. ASSUME NEW p \in Process,
             \/ Launch(p) \/ LoadFails(p) \/ Refused(p) \/ Get(p) \/ NotMine(p)
             \/ ReplaceFails(p) \/ Poll(p) \/ Crash(p)
      PROVE  [Lease!Next]_(Lease!vars)
    <2>1. /\ UNCHANGED <<file, lapsed>>
          /\ \/ GoTo(p, "ended", "release")
             \/ pc[p] = "off" /\ GoTo(p, "load", "acquire")
             \/ Mining(p) /\ (GoTo(p, "load", "release") \/ GoTo(p, "load", "get"))
             \/ Mining(p) /\ (GoTo(p, "load", "set") \/ GoTo(p, "reading", "get")
                              \/ GoTo(p, "read", "get"))
        BY <1>2, <1>b DEF Launch, LoadFails, Refused, Get, NotMine, ReplaceFails, Poll,
             Crash, Finish, Rest, Reject, Begin, Raise, Leave, End, Mining, LeaseOf
    <2>2. \A q \in Process : q # p => pc'[q] = pc[q] /\ job'[q] = job[q]
        BY <2>1, Moved
    <2>3. CASE GoTo(p, "ended", "release")
        <3>1. ~Running(p)'
            BY <2>3, Moved DEF Running
        <3> QED  BY <2>1, <2>2, <3>1, <1>c, <1>d
    <2>4. CASE pc[p] = "off" /\ GoTo(p, "load", "acquire")
        <3>1. ~Running(p)' /\ ~Running(p)
            BY <2>4, Moved DEF Running
        <3> QED  BY <2>1, <2>2, <3>1, <1>c
    <2>5. CASE ~GoTo(p, "ended", "release") /\ ~(pc[p] = "off" /\ GoTo(p, "load", "acquire"))
        <3>1. Running(p)' /\ Running(p)
            BY <2>1, <2>5, Moved DEF Running, Mining
        <3> QED  BY <2>1, <2>2, <3>1, <1>c
    <2> QED  BY <2>3, <2>4, <2>5
<1>3. ASSUME NEW p \in Process, Load(p) \/ Open(p) \/ Write(p)
      PROVE  UNCHANGED Lease!vars
    <2>1. pc[p] = "write" => handle[p] = "tmp"
        BY <1>b DEF SaveOf
    <2>2. /\ UNCHANGED <<file, lapsed>> /\ pc[p] \in {"load", "open", "write"}
          /\ GoTo(p, "open", job[p]) \/ GoTo(p, "write", job[p]) \/ GoTo(p, "replace", job[p])
        BY <1>3, <2>1 DEF Load, Open, Write
    <2>3. /\ pc'[p] \in {"open", "write", "replace"} /\ job'[p] = job[p]
          /\ \A q \in Process : q # p => pc'[q] = pc[q] /\ job'[q] = job[q]
        BY <2>2, Moved
    <2>4. Running(p)' <=> Running(p)
        BY <2>2, <2>3 DEF Running
    <2> QED  BY <2>2, <2>3, <2>4, <1>c
<1>4. ASSUME NEW p \in Process, Replace(p) PROVE [Lease!Next]_(Lease!vars)
    <2>1. /\ UNCHANGED lapsed /\ pc[p] = "replace" /\ file' = tmp /\ Following(p)
          /\ Changing(p) /\ Incoming(p) = tmp
        BY <1>4 DEF Replace, Changing, Incoming
    <2>2. CASE job[p] = "acquire"
        <3>1. /\ GoTo(p, "load", "get") /\ file'.lease = p
              /\ file.lease \in {NoOwner} \cup lapsed
            BY <2>1, <2>2, <1>b DEF Following, LeaseOf
        <3>2. /\ ~Running(p) /\ Running(p)'
              /\ \A q \in Process : q # p => (Running(q)' <=> Running(q))
            BY <2>2, <3>1, Moved DEF Running
        <3>3. /\ p \notin running /\ running' = running \cup {p}
              /\ overdue' = IF live' THEN overdue ELSE overdue \cup {p}
            BY <2>1, <3>1, <3>2, <1>a, OwnerAssumption
        <3>4. Lease!Acquire(p)
            BY <3>1, <3>3 DEF Lease!Acquire, Lease!Grantable
        <3> QED  BY <3>4 DEF Lease!Next
    <2>3. CASE job[p] = "set"
        <3>1. GoTo(p, "read", "get") /\ file'.lease = file.lease
            BY <2>1, <2>3, <1>b DEF Following, LeaseOf
        <3>2. /\ Running(p)' /\ Running(p)
              /\ \A q \in Process : q # p => pc'[q] = pc[q] /\ job'[q] = job[q]
            BY <2>1, <2>3, <3>1, Moved DEF Running
        <3> QED  BY <2>1, <3>1, <3>2, <1>c
    <2>4. CASE job[p] = "release"
        <3>1. /\ GoTo(p, "ended", "release") /\ file'.lease = NoOwner /\ file.lease = p
            BY <2>1, <2>4, <1>b DEF Following, LeaseOf, End
        <3>2. /\ Running(p) /\ ~Running(p)'
              /\ \A q \in Process : q # p => (Running(q)' <=> Running(q))
            BY <2>1, <2>4, <3>1, Moved DEF Running
        <3>3. p \in running /\ running' = running \ {p} /\ overdue' = overdue \ {p}
            BY <2>1, <3>2, <1>a
        <3>4. Lease!Release(p)
            BY <3>1, <3>3 DEF Lease!Release
        <3> QED  BY <3>4 DEF Lease!Next
    <2> QED  BY <2>1, <2>2, <2>3, <2>4 DEF Following
<1>5. ASSUME NEW p \in Process, Lapse(p) PROVE Lease!Next
    <2>1. /\ UNCHANGED <<file, pc, job>> /\ file.lease = p /\ p \notin lapsed
          /\ lapsed' = lapsed \cup {p}
        BY <1>5 DEF Lapse
    <2>2. \A q \in Process : Running(q) => q \in lapsed \/ q = p
        BY <2>1 DEF HoldsInv
    <2>3. running' = running /\ overdue' = running
        BY <2>1, <2>2, <1>a DEF Running
    <2>4. Lease!Lapse
        BY <2>1, <2>3, OwnerAssumption DEF Lease!Lapse
    <2> QED  BY <2>4 DEF Lease!Next
<1> QED  BY <1>1, <1>2, <1>3, <1>4, <1>5 DEF Next, Operation

(* The file store implements the lease contract until two changes of it overlap,
   for any number of launches, files and faults. *)
THEOREM ImplementsLeaseUnlessOverlap == Spec => LeaseUnlessOverlap
<1>1. Init => overlap \/ LeaseInv
    BY InitLease
<1>2. TypeOK /\ (overlap \/ SafeInv) /\ (overlap \/ LeaseInv) /\ [Next]_vars
      => /\ (overlap \/ LeaseInv)'
         /\ [overlap' \/ Lease!Next]_(Lease!vars)
    <2> SUFFICES ASSUME TypeOK, overlap \/ SafeInv, overlap \/ LeaseInv, [Next]_vars,
                        ~overlap'
                 PROVE  LeaseInv' /\ [Lease!Next]_(Lease!vars)
        OBVIOUS
    <2>1. SafeInv /\ LeaseInv
        BY OverlapStays DEF TypeOK
    <2>2. [Lease!Next]_(Lease!vars)
        BY <2>1, StepLease, SameInv
    <2> QED  BY <2>1, <2>2, LeaseInvStays
<1>3. Init => Lease!Init
    BY InitLease
<1> QED  BY <1>1, <1>2, <1>3, TypeCorrect, SafeAlways, PTL DEF Spec, LeaseUnlessOverlap
===============================================================================
