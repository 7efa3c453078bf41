--------------------------- MODULE Detector_proofs ----------------------------
(***************************************************************************)
(* The anomaly detector, for every window, sigma and history of records,   *)
(* and the non-termination heuristic, for texts of any length.             *)
(***************************************************************************)
EXTENDS Detector, Repetition, TLAPS, FiniteSetTheorems, WellFoundedInduction

(* The deque is in the order of the clock. *)
OrderInv ==
    /\ \A i \in 1 .. Len(events) : events[i].time <= now
    /\ \A i, j \in 1 .. Len(events) : i <= j => events[i].time <= events[j].time

HorizonInv == pc # "idle" => horizon <= now

(* Without a baseline nothing has been weighed. *)
PrimedInv == ~primed => mean = 0 /\ scale = 1

IInv == /\ TypeOK /\ OrderInv /\ PrimedInv /\ HorizonInv /\ VarianceOfBaseline
        /\ WindowIsRecent /\ AnomalyNeedsQuietBaseline

------------------------------------------------------------------------------
(* Arithmetic *)

(* A common positive factor cancels. *)
LEMMA Cancel ==
    ASSUME NEW a \in Int, NEW b \in Int, NEW k \in Int, k > 0, k * a >= k * b
    PROVE  a >= b
OBVIOUS

LEMMA NatProduct ==
    ASSUME NEW a \in Nat, NEW b \in Nat
    PROVE  a * b \in Nat
OBVIOUS

LEMMA NatDifference ==
    ASSUME NEW a \in Nat, NEW b \in Nat, a <= b
    PROVE  b - a \in Nat
OBVIOUS

LEMMA SquareGrows ==
    ASSUME NEW a \in Int, NEW b \in Int, 0 <= a, a <= b
    PROVE  Square(a) <= Square(b)
BY DEF Square

(* The recurrences of the mean and the variance, for a record that did (x = 1)
   or did not (x = 0) fail, keep variance = mean * (1 - mean). *)
LEMMA Recurrence ==
    ASSUME NEW m \in Nat, NEW s \in Nat, m <= s, NEW x \in {0, 1}
    PROVE  LET m2 == 4 * m + x * s
               v2 == 4 * (5 * (m * (s - m)) + Square(x * s - m))
           IN  m2 \in Nat /\ m2 <= 5 * s /\ v2 = m2 * (5 * s - m2)
<1>1. CASE x = 0
    BY <1>1 DEF Square
<1>2. CASE x = 1
    BY <1>2 DEF Square
<1> QED  BY <1>1, <1>2

(* A failure rate f / n that lies sigma deviations above the mean m / s leaves
   room for them below 1. *)
LEMMA RoomAbove ==
    ASSUME NEW m \in Nat, NEW s \in Nat, m <= s, NEW n \in Nat, NEW f \in Nat, f <= n,
           NEW sigma \in Nat,
           f * s - m * n > 0,
           \/ m * (s - m) = 0
           \/ Square(f * s - m * n) >= Square(sigma * n) * (m * (s - m))
    PROVE  s - m >= Square(sigma) * m
<1> DEFINE d == f * s - m * n
           r == s - m
<1>1. d \in Int /\ r \in Int /\ 0 <= r /\ n * r \in Int
    OBVIOUS
<1>2. d <= n * r
    <2>1. f * s <= n * s  OBVIOUS
    <2>2. n * (s - m) = n * s - m * n  OBVIOUS
    <2> QED  BY <2>1, <2>2
<1>3. r > 0 /\ n > 0
    <2>1. n * r > 0  BY <1>1, <1>2
    <2>2. n \in Nat /\ r \in Nat  BY <1>1
    <2> HIDE DEF r
    <2> QED  BY <2>1, <2>2
<1>4. CASE m * (s - m) = 0
    <2>1. m = 0
        BY <1>3, <1>4
    <2>2. Square(sigma) * m = 0
        BY <2>1 DEF Square
    <2> QED  BY <1>1, <2>2
<1>5. CASE Square(d) >= Square(sigma * n) * (m * r)
    <2> HIDE DEF d, r
    <2>1. Square(d) <= Square(n * r)
        BY <1>1, <1>2, SquareGrows DEF d
    <2>2. Square(n * r) >= Square(sigma * n) * (m * r)
        BY <1>1, <1>5, <2>1 DEF Square
    <2>3. /\ Square(n * r) = ((n * n) * r) * r
          /\ Square(sigma * n) * (m * r) = ((n * n) * r) * (Square(sigma) * m)
        BY <1>1 DEF Square
    <2>4. n * n > 0 /\ n * n \in Int
        BY <1>3
    <2>5. (n * n) * r > 0 /\ (n * n) * r \in Int
        BY <1>1, <1>3, <2>4
    <2>6. Square(sigma) * m \in Int
        BY DEF Square
    <2>7. r >= Square(sigma) * m
        BY <1>1, <2>2, <2>3, <2>5, <2>6, Cancel
    <2> QED  BY <2>7 DEF r
<1> QED  BY <1>4, <1>5

LEMMA FailuresAtMostAll ==
    ASSUME NEW list \in Seq(Event)
    PROVE  Failures(list) \in Nat /\ Failures(list) <= Len(list)
<1> DEFINE F == {i \in DOMAIN list : list[i].failed}
<1>1. F \subseteq 1 .. Len(list)
    OBVIOUS
<1>2. Len(list) \in Nat
    OBVIOUS
<1>3. IsFiniteSet(1 .. Len(list)) /\ Cardinality(1 .. Len(list)) = Len(list)
    <2>1. /\ IsFiniteSet(1 .. Len(list))
          /\ Cardinality(1 .. Len(list)) = IF 1 > Len(list) THEN 0 ELSE Len(list) - 1 + 1
        BY <1>2, FS_Interval
    <2> QED  BY <1>2, <2>1
<1>4. IsFiniteSet(F) /\ Cardinality(F) <= Cardinality(1 .. Len(list))
    BY <1>1, <1>3, FS_Subset
<1>5. Cardinality(F) \in Nat
    BY <1>4, FS_CardinalityType
<1> QED  BY <1>3, <1>4, <1>5 DEF Failures

------------------------------------------------------------------------------

LEMMA InitIInv == Init => IInv
<1> SUFFICES ASSUME Init PROVE IInv
    OBVIOUS
<1>1. TypeOK
    <2>1. events \in Seq(Event) /\ pc \in {"idle", "evicting", "judging"}
        BY DEF Init
    <2>2. now \in Nat /\ mean \in Nat /\ scale \in Nat \ {0} /\ var \in Nat /\ horizon \in Int
        BY DEF Init
    <2>3. primed \in BOOLEAN /\ failed \in BOOLEAN /\ anomalous \in BOOLEAN
        BY DEF Init
    <2> QED  BY <2>1, <2>2, <2>3 DEF TypeOK
<1>2. VarianceOfBaseline
    BY DEF Init, VarianceOfBaseline
<1>3. OrderInv
    BY DEF Init, OrderInv
<1> QED  BY <1>1, <1>2, <1>3 DEF Init, IInv, PrimedInv, HorizonInv, WindowIsRecent,
                                 AnomalyNeedsQuietBaseline

LEMMA StepIInv == IInv /\ [Next]_vars => IInv'
<1> SUFFICES ASSUME IInv, [Next]_vars PROVE IInv'
    OBVIOUS
<1>a. /\ TypeOK /\ OrderInv /\ PrimedInv /\ HorizonInv /\ VarianceOfBaseline
      /\ WindowIsRecent /\ AnomalyNeedsQuietBaseline
    BY DEF IInv
<1>b. now \in Nat /\ horizon \in Int /\ events \in Seq(Event) /\ Window \in Nat
    BY <1>a, ParameterAssumption DEF TypeOK
<1>c. \A i \in 1 .. Len(events) : events[i].time \in Nat
    <2>1. \A i \in 1 .. Len(events) : events[i] \in Event
        BY <1>b
    <2> QED  BY <2>1 DEF Event
<1>1. CASE UNCHANGED vars
    BY <1>1, <1>a DEF vars, window, call, IInv, TypeOK, OrderInv, PrimedInv, HorizonInv,
                      VarianceOfBaseline, WindowIsRecent, AnomalyNeedsQuietBaseline
<1>2. CASE Tick
    <2>1. now' = now + 1 /\ UNCHANGED <<window, call, anomalous>>
        BY <1>2 DEF Tick
    <2>2. TypeOK' /\ PrimedInv' /\ HorizonInv'
        BY <2>1, <1>a, <1>b DEF TypeOK, PrimedInv, HorizonInv, window, call
    <2>4. OrderInv'
        BY <2>1, <1>c, <1>a, <1>b DEF OrderInv, window
    <2>5. VarianceOfBaseline' /\ WindowIsRecent' /\ AnomalyNeedsQuietBaseline'
        BY <2>1, <1>a DEF VarianceOfBaseline, WindowIsRecent, AnomalyNeedsQuietBaseline,
                          window, call
    <2> QED  BY <2>2, <2>4, <2>5 DEF IInv
<1>3. CASE \E isFailure \in BOOLEAN : Observe(isFailure)
    <2>1. PICK isFailure \in BOOLEAN : Observe(isFailure)
        BY <1>3
    <2>2. /\ pc' = "evicting" /\ horizon' = now - Window /\ failed' = isFailure
          /\ UNCHANGED <<now, window, anomalous>>
        BY <2>1 DEF Observe
    <2>3. TypeOK' /\ PrimedInv' /\ HorizonInv'
        BY <2>2, <1>a, <1>b DEF TypeOK, PrimedInv, HorizonInv, window
    <2>4. OrderInv' /\ VarianceOfBaseline' /\ WindowIsRecent' /\ AnomalyNeedsQuietBaseline'
        BY <2>2, <1>a DEF OrderInv, VarianceOfBaseline, WindowIsRecent,
                          AnomalyNeedsQuietBaseline, window
    <2> QED  BY <2>3, <2>4 DEF IInv
<1>4. CASE Evict
    <2>1. /\ pc = "evicting" /\ events # <<>> /\ events' = Tail(events) /\ primed' = TRUE
          /\ UNCHANGED <<now, pc, horizon, failed, anomalous>>
        BY <1>4 DEF Evict, Expired, call
    <2>2. /\ events' \in Seq(Event) /\ Len(events') = Len(events) - 1
          /\ \A i \in 1 .. Len(events') : events'[i] = events[i + 1]
        BY <2>1, <1>b
    <2>3. OrderInv'
        <3>1. \A i \in 1 .. Len(events') : i + 1 \in 1 .. Len(events)
            BY <2>2, <1>b
        <3> QED  BY <2>1, <2>2, <3>1, <1>a DEF OrderInv
    <2>4. mean' \in Nat /\ scale' \in Nat \ {0} /\ var' \in Nat /\ VarianceOfBaseline'
        <3> DEFINE rate == IF Head(events).failed THEN 1 ELSE 0
        <3>1. rate \in {0, 1}
            OBVIOUS
        <3> HIDE DEF rate
        <3>2. /\ mean \in Nat /\ scale \in Nat /\ scale > 0 /\ mean <= scale
              /\ var = mean * (scale - mean) /\ (~primed => mean = 0 /\ scale = 1)
              /\ var \in Nat
            BY <1>a DEF TypeOK, VarianceOfBaseline, PrimedInv
        <3>3. CASE primed
            <4>1. UpdateBaseline(rate)
                BY <1>4, <3>3 DEF Evict, rate
            <4>2. /\ mean' = 4 * mean + rate * scale /\ scale' = 5 * scale
                  /\ var' = 4 * (5 * (mean * (scale - mean)) + Square(rate * scale - mean))
                BY <4>1, <3>2 DEF UpdateBaseline
            <4> DEFINE m2 == 4 * mean + rate * scale
                       v2 == 4 * (5 * (mean * (scale - mean)) + Square(rate * scale - mean))
            <4>a. m2 \in Nat /\ m2 <= 5 * scale /\ v2 = m2 * (5 * scale - m2)
                <5>1. mean \in Nat /\ scale \in Nat /\ mean <= scale /\ rate \in {0, 1}
                    BY <3>1, <3>2
                <5> QED  BY <5>1, Recurrence
            <4>b. mean' = m2 /\ var' = v2 /\ scale' = 5 * scale
                BY <4>2
            <4> HIDE DEF m2, v2
            <4>3. mean' \in Nat /\ mean' <= scale'
                BY <4>a, <4>b
            <4>4. var' = mean' * (scale' - mean')
                BY <4>a, <4>b
            <4>5. scale' \in Nat \ {0}
                BY <4>b, <3>2
            <4>6. scale' - mean' \in Nat
                BY <4>3, <4>5, NatDifference
            <4>7. var' \in Nat
                BY <4>3, <4>4, <4>6, NatProduct
            <4>8. VarianceOfBaseline'
                BY <4>3, <4>4 DEF VarianceOfBaseline
            <4> QED  BY <4>3, <4>5, <4>7, <4>8
        <3>4. CASE ~primed
            <4>1. SetBaseline(rate)
                BY <1>4, <3>4 DEF Evict, rate
            <4> QED  BY <4>1, <3>1, <3>2, <3>4 DEF SetBaseline, VarianceOfBaseline
        <3> QED  BY <3>3, <3>4
    <2>5. TypeOK'
        BY <2>1, <2>2, <2>4, <1>a DEF TypeOK
    <2>6. PrimedInv' /\ HorizonInv' /\ WindowIsRecent' /\ AnomalyNeedsQuietBaseline'
        BY <2>1, <1>a DEF PrimedInv, HorizonInv, WindowIsRecent, AnomalyNeedsQuietBaseline
    <2> QED  BY <2>3, <2>4, <2>5, <2>6 DEF IInv
<1>5. CASE AppendEvent
    <2> DEFINE e == [time |-> now, failed |-> failed]
    <2>1. /\ pc = "evicting" /\ pc' = "judging" /\ ~Expired /\ events' = Append(events, e)
          /\ UNCHANGED <<now, primed, mean, scale, var, horizon, failed, anomalous>>
        BY <1>5 DEF AppendEvent
    <2>2. e \in Event
        BY <1>a, <1>b DEF Event, TypeOK
    <2>3. /\ events' \in Seq(Event) /\ Len(events') = Len(events) + 1
          /\ \A i \in 1 .. Len(events) : events'[i] = events[i]
          /\ events'[Len(events) + 1] = e
        BY <2>1, <2>2, <1>b
    <2>4. \A i \in 1 .. Len(events') : i \in 1 .. Len(events) \/ i = Len(events) + 1
        BY <2>3, <1>b
    <2>5. OrderInv'
        <3>1. \A i \in 1 .. Len(events') : events'[i].time <= now
            BY <2>3, <2>4, <1>a, <1>b DEF OrderInv
        <3>2. ASSUME NEW i \in 1 .. Len(events'), NEW j \in 1 .. Len(events'), i <= j
              PROVE  events'[i].time <= events'[j].time
            <4>1. CASE j \in 1 .. Len(events)
                <5>1. i \in 1 .. Len(events)
                    BY <4>1, <3>2, <1>b
                <5> QED  BY <4>1, <5>1, <3>2, <2>3, <1>a DEF OrderInv
            <4>2. CASE j = Len(events) + 1
                BY <4>2, <3>1, <2>3
            <4> QED  BY <4>1, <4>2, <2>4
        <3> QED  BY <3>1, <3>2, <2>1 DEF OrderInv
    <2>6. WindowIsRecent'
        <3>1. horizon <= now
            BY <2>1, <1>a DEF HorizonInv
        <3>2. ASSUME NEW i \in 1 .. Len(events) PROVE events[i].time >= horizon
            <4>1. events # <<>> /\ 1 \in 1 .. Len(events) /\ 1 <= i
                BY <3>2, <1>b
            <4>2. ~(events[1].time < horizon)
                BY <4>1, <2>1, <1>b DEF Expired
            <4>3. events[1].time <= events[i].time
                BY <4>1, <1>a DEF OrderInv
            <4>4. events[1].time \in Nat /\ events[i].time \in Nat
                BY <4>1, <3>2, <1>c
            <4> QED  BY <4>2, <4>3, <4>4, <1>b
        <3>3. e.time >= horizon
            BY <3>1, <1>b
        <3> QED  BY <3>2, <3>3, <2>1, <2>3, <2>4 DEF WindowIsRecent
    <2>7. TypeOK' /\ PrimedInv' /\ HorizonInv' /\ VarianceOfBaseline' /\ AnomalyNeedsQuietBaseline'
        BY <2>1, <2>3, <1>a DEF TypeOK, PrimedInv, HorizonInv, VarianceOfBaseline,
                                AnomalyNeedsQuietBaseline
    <2> QED  BY <2>5, <2>6, <2>7 DEF IInv
<1>6. CASE Verdict
    <2> DEFINE f == Failures(events)
               n == Len(events)
    <2>1. /\ pc' = "idle" /\ anomalous' = IsAnomalous(f, n)
          /\ UNCHANGED <<now, window, horizon, failed>>
        BY <1>6 DEF Verdict
    <2>2. f \in Nat /\ n \in Nat /\ f <= n
        BY <1>b, FailuresAtMostAll
    <2>3. anomalous' \in BOOLEAN
        BY <2>1 DEF IsAnomalous
    <2> HIDE DEF f, n
    <2>4. ASSUME anomalous' PROVE scale - mean >= Square(Sigma) * mean
        <3>1. mean \in Nat /\ scale \in Nat /\ mean <= scale /\ var = mean * (scale - mean)
              /\ Sigma \in Nat
            BY <1>a, ParameterAssumption DEF TypeOK, VarianceOfBaseline
        <3>2. f * scale - mean * n > 0
            BY <2>1, <2>4 DEF IsAnomalous, Excess
        <3>3. \/ mean * (scale - mean) = 0
              \/ Square(f * scale - mean * n) >= Square(Sigma * n) * (mean * (scale - mean))
            BY <2>1, <2>4, <3>1 DEF IsAnomalous, FarAbove, Excess
        <3> QED  BY <2>2, <3>1, <3>2, <3>3, RoomAbove
    <2>5. AnomalyNeedsQuietBaseline'
        BY <2>1, <2>4 DEF AnomalyNeedsQuietBaseline, window
    <2>6. TypeOK'
        BY <2>1, <2>3, <1>a DEF TypeOK, window
    <2>7. OrderInv' /\ PrimedInv' /\ HorizonInv' /\ VarianceOfBaseline' /\ WindowIsRecent'
        BY <2>1, <1>a DEF OrderInv, PrimedInv, HorizonInv, VarianceOfBaseline, WindowIsRecent, window
    <2> QED  BY <2>5, <2>6, <2>7 DEF IInv
<1> QED  BY <1>1, <1>2, <1>3, <1>4, <1>5, <1>6 DEF Next

(* Type correctness of the detector. *)
THEOREM TypeCorrect == Spec => []TypeOK
<1>1. IInv => TypeOK  BY DEF IInv
<1> QED  BY <1>1, InitIInv, StepIInv, PTL DEF Spec

(* The two recurrences stay those of one probability. *)
THEOREM VarianceAlwaysOfBaseline == Spec => []VarianceOfBaseline
<1>1. IInv => VarianceOfBaseline  BY DEF IInv
<1> QED  BY <1>1, InitIInv, StepIInv, PTL DEF Spec

(* No verdict is given on an event older than the horizon. *)
THEOREM WindowIsAlwaysRecent == Spec => []WindowIsRecent
<1>1. IInv => WindowIsRecent  BY DEF IInv
<1> QED  BY <1>1, InitIInv, StepIInv, PTL DEF Spec

(* Above a baseline of 1 / (1 + sigma^2) nothing is ever anomalous. *)
THEOREM AnomalyAlwaysNeedsQuietBaseline == Spec => []AnomalyNeedsQuietBaseline
<1>1. IInv => AnomalyNeedsQuietBaseline  BY DEF IInv
<1> QED  BY <1>1, InitIInv, StepIInv, PTL DEF Spec

(* A verdict is monotone: with more failures among as many events a window that
   was anomalous stays so. *)
THEOREM MoreFailuresStayAnomalous ==
    ASSUME TypeOK, NEW n \in Nat, NEW f \in Nat, NEW g \in Nat, f <= g, IsAnomalous(f, n)
    PROVE  IsAnomalous(g, n)
<1>1. scale \in Nat /\ mean \in Nat
    BY DEF TypeOK
<1>2. Excess(f, n) \in Int /\ Excess(g, n) \in Int /\ Excess(f, n) <= Excess(g, n)
    <2>1. f * scale <= g * scale /\ f * scale \in Nat /\ g * scale \in Nat /\ mean * n \in Nat
        BY <1>1
    <2> QED  BY <2>1 DEF Excess
<1>3. n >= MinEvents /\ Excess(f, n) > 0 /\ FarAbove(f, n)
    BY DEF IsAnomalous
<1>4. FarAbove(g, n)
    <2>1. CASE var = 0
        BY <2>1 DEF FarAbove
    <2>2. CASE var # 0
        <3>1. Square(Excess(f, n)) >= Square(Sigma * n) * var
            BY <2>2, <1>3 DEF FarAbove
        <3>2. Square(Excess(f, n)) <= Square(Excess(g, n))
            BY <1>2, <1>3, SquareGrows
        <3>3. /\ Square(Excess(f, n)) \in Int /\ Square(Excess(g, n)) \in Int
              /\ Square(Sigma * n) * var \in Int
            BY <1>2, ParameterAssumption DEF Square, TypeOK
        <3> QED  BY <3>1, <3>2, <3>3 DEF FarAbove
    <2> QED  BY <2>1, <2>2
<1> QED  BY <1>2, <1>3, <1>4 DEF IsAnomalous

(* While no record that left the window had failed, or none has left it yet, the
   verdict is a matter of a single failure: one failed record among any number
   is anomalous, whatever sigma asks for. *)
QuietBaselineTriggers ==
    pc = "judging" /\ mean = 0 /\ Len(events) >= MinEvents =>
        (IsAnomalous(Failures(events), Len(events)) <=>
         \E i \in 1 .. Len(events) : events[i].failed)

(* The alarm needs one failure in a quiet window, for every sigma and window. *)
THEOREM QuietBaselineAlwaysTriggers == Spec => []QuietBaselineTriggers
<1>1. ASSUME IInv PROVE QuietBaselineTriggers
    <2> DEFINE F == {i \in DOMAIN events : events[i].failed}
               f == Failures(events)
               n == Len(events)
    <2>1. /\ events \in Seq(Event) /\ scale \in Nat /\ scale > 0
          /\ (mean = 0 => var = 0) /\ n \in Nat /\ DOMAIN events = 1 .. n
        BY <1>1 DEF IInv, TypeOK, VarianceOfBaseline
    <2>2. f = Cardinality(F) /\ f \in Nat
        BY <2>1, FailuresAtMostAll DEF Failures
    <2>3. IsFiniteSet(F)
        <3>1. IsFiniteSet(1 .. n)
            BY <2>1, FS_Interval
        <3>2. F \subseteq 1 .. n
            BY <2>1
        <3> QED  BY <3>1, <3>2, FS_Subset
    <2>4. f > 0 <=> F # {}
        <3>1. Cardinality(F) = 0 <=> F = {}
            BY <2>3, FS_EmptySet
        <3> HIDE DEF F
        <3> QED  BY <3>1, <2>2
    <2> HIDE DEF f
    <2>5. ASSUME mean = 0, n >= MinEvents PROVE IsAnomalous(f, n) <=> f > 0
        <3>1. Excess(f, n) = f * scale /\ FarAbove(f, n)
            BY <2>5, <2>1, <2>2 DEF Excess, FarAbove
        <3>2. f * scale > 0 <=> f > 0
            BY <2>1, <2>2
        <3> QED  BY <3>1, <3>2, <2>5 DEF IsAnomalous
    <2>6. F # {} <=> \E i \in 1 .. n : events[i].failed
        BY <2>1
    <2> QED  BY <2>4, <2>5, <2>6 DEF QuietBaselineTriggers, f
<1> QED  BY <1>1, InitIInv, StepIInv, PTL DEF Spec

------------------------------------------------------------------------------
(* The non-termination heuristic *)

(* A nonempty set of numbers has a least one. *)
LEMMA LeastNumber ==
    ASSUME NEW S, S \subseteq Nat, S # {}
    PROVE  \E x \in S : \A y \in S : x <= y
<1> DEFINE Less == {p \in Nat \X Nat : p[1] < p[2]}
<1>1. IsWellFoundedOn(Less, Nat)
    BY NatLessThanWellFounded DEF OpToRel
<1>2. PICK x \in S : \A y \in S : <<y, x>> \notin Less
    <2> HIDE DEF Less
    <2> QED  BY <1>1, WFMin
<1>3. ASSUME NEW y \in S PROVE x <= y
    <2>1. x \in Nat /\ y \in Nat /\ <<y, x>> \notin Less
        BY <1>2
    <2> QED  BY <2>1
<1> QED  BY <1>2, <1>3

(* The body of the recursion of str.count. *)
Counted(text, chunk, f, i) ==
    IF i + Chunk > Len(text) THEN 0
    ELSE IF ChunkAt(text, i) = chunk THEN 1 + f[i + Chunk]
    ELSE f[i + 1]

(* The recursion is well defined: it only looks further to the right. *)
LEMMA CountExists ==
    ASSUME NEW text, NEW chunk, Len(text) \in Nat
    PROVE  \E f \in [0 .. Len(text) -> Nat] :
              f = [i \in 0 .. Len(text) |-> Counted(text, chunk, f, i)]
<1> USE SizeAssumption
<1> DEFINE N == Len(text)
           Good(f, k) == \A i \in N - k .. N : f[i] = Counted(text, chunk, f, i)
           Bad == {k \in 0 .. N : ~\E f \in [N - k .. N -> Nat] : Good(f, k)}
<1>1. Bad = {}
    <2> SUFFICES ASSUME Bad # {} PROVE FALSE
        OBVIOUS
    <2>1. PICK k \in Bad : \A j \in Bad : k <= j
        <3>1. Bad \subseteq Nat
            OBVIOUS
        <3> HIDE DEF Bad
        <3> QED  BY <3>1, LeastNumber
    <2>2. k \in 0 .. N /\ ~\E f \in [N - k .. N -> Nat] : Good(f, k)
        OBVIOUS
    <2>3. CASE k = 0
        <3> DEFINE f == [i \in N - k .. N |-> 0]
        <3>1. f \in [N - k .. N -> Nat]
            OBVIOUS
        <3>2. \A i \in N - k .. N : f[i] = 0 /\ i = N
            BY <2>3
        <3>3. Good(f, k)
            BY <3>2 DEF Counted
        <3> HIDE DEF f
        <3> QED  BY <2>2, <3>1, <3>3
    <2>4. CASE k # 0
        <3>1. k - 1 \in 0 .. N /\ k - 1 \notin Bad
            <4>1. k - 1 \in 0 .. N /\ ~(k <= k - 1)
                BY <2>2, <2>4
            <4> HIDE DEF Bad
            <4> QED  BY <2>1, <4>1
        <3>2. PICK f \in [N - (k - 1) .. N -> Nat] : Good(f, k - 1)
            BY <3>1
        <3> DEFINE g == [i \in N - k .. N |-> IF i = N - k THEN Counted(text, chunk, f, i)
                                              ELSE f[i]]
        <3>3. \A i \in N - k .. N : Counted(text, chunk, g, i) = Counted(text, chunk, f, i)
            <4> TAKE i \in N - k .. N
            <4>1. CASE i + Chunk > N
                BY <4>1 DEF Counted
            <4>2. CASE ~(i + Chunk > N)
                <5>1. /\ i + Chunk \in N - k .. N /\ i + Chunk # N - k
                      /\ i + 1 \in N - k .. N /\ i + 1 # N - k
                    BY <4>2, <2>2
                <5>2. g[i + Chunk] = f[i + Chunk] /\ g[i + 1] = f[i + 1]
                    BY <5>1
                <5> HIDE DEF g
                <5> QED  BY <5>2 DEF Counted
            <4> QED  BY <4>1, <4>2
        <3>4. Counted(text, chunk, f, N - k) \in Nat
            <4>1. CASE N - k + Chunk > N
                BY <4>1 DEF Counted
            <4>2. CASE ~(N - k + Chunk > N)
                <5>1. N - k + Chunk \in N - (k - 1) .. N /\ N - k + 1 \in N - (k - 1) .. N
                    BY <4>2, <2>2, <2>4
                <5>2. f[N - k + Chunk] \in Nat /\ f[N - k + 1] \in Nat
                    BY <5>1, <3>2
                <5> QED  BY <5>2, <4>2 DEF Counted
            <4> QED  BY <4>1, <4>2
        <3>5. g \in [N - k .. N -> Nat]
            <4>1. \A i \in N - k .. N : i # N - k => i \in N - (k - 1) .. N
                BY <2>2
            <4> QED  BY <3>2, <3>4, <4>1
        <3>6. Good(g, k)
            <4> SUFFICES ASSUME NEW i \in N - k .. N PROVE g[i] = Counted(text, chunk, g, i)
                OBVIOUS
            <4>1. CASE i = N - k
                BY <4>1, <3>3
            <4>2. CASE i # N - k
                <5>1. i \in N - (k - 1) .. N
                    BY <4>2, <2>2
                <5>2. f[i] = Counted(text, chunk, f, i)
                    BY <5>1, <3>2
                <5>3. g[i] = f[i]
                    BY <4>2
                <5> QED  BY <5>2, <5>3, <3>3
            <4> QED  BY <4>1, <4>2
        <3> HIDE DEF g, Good
        <3> QED  BY <2>2, <3>5, <3>6
    <2> QED  BY <2>3, <2>4
<1>2. \E f \in [N - N .. N -> Nat] : Good(f, N)
    BY <1>1
<1>3. N - N = 0
    OBVIOUS
<1>4. PICK f \in [0 .. N -> Nat] : \A i \in 0 .. N : f[i] = Counted(text, chunk, f, i)
    BY <1>2, <1>3
<1>5. f = [i \in 0 .. N |-> Counted(text, chunk, f, i)]
    BY <1>4
<1> QED  BY <1>4, <1>5

(* So str.count follows its recursion at every place of the text. *)
LEMMA CountUnfolds ==
    ASSUME NEW text, NEW chunk, Len(text) \in Nat
    PROVE  \A i \in 0 .. Len(text) :
              CountFrom(text, chunk)[i] = Counted(text, chunk, CountFrom(text, chunk), i)
<1> DEFINE Is(f) == f = [i \in 0 .. Len(text) |-> Counted(text, chunk, f, i)]
<1>1. \E f : Is(f)
    BY CountExists
<1>2. CountFrom(text, chunk) = CHOOSE f : Is(f)
    BY DEF CountFrom, Counted
<1>3. Is(CountFrom(text, chunk))
    <2> HIDE DEF Is
    <2> QED  BY <1>1, <1>2
<1> QED  BY <1>3

LEMMA CountIsNumber ==
    ASSUME NEW text, NEW chunk, Len(text) \in Nat
    PROVE  \A i \in 0 .. Len(text) : CountFrom(text, chunk)[i] \in Nat
<1> USE SizeAssumption
<1> DEFINE N == Len(text)
           c == CountFrom(text, chunk)
           Bad == {d \in 0 .. N : c[N - d] \notin Nat}
<1>1. \A i \in 0 .. N : c[i] = Counted(text, chunk, c, i)
    BY CountUnfolds
<1> HIDE DEF c
<1>2. Bad = {}
    <2> SUFFICES ASSUME Bad # {} PROVE FALSE
        OBVIOUS
    <2>1. PICK d \in Bad : \A e \in Bad : d <= e
        <3>1. Bad \subseteq Nat
            OBVIOUS
        <3> HIDE DEF Bad
        <3> QED  BY <3>1, LeastNumber
    <2>2. d \in 0 .. N /\ c[N - d] \notin Nat /\ N - d \in 0 .. N
        OBVIOUS
    <2>3. \A e \in 0 .. N : e < d => c[N - e] \in Nat
        BY <2>1
    <2>4. c[N - d] = Counted(text, chunk, c, N - d)
        BY <2>2, <1>1
    <2>5. CASE N - d + Chunk > N
        BY <2>5, <2>4, <2>2 DEF Counted
    <2>6. CASE ~(N - d + Chunk > N)
        <3>1. /\ d - Chunk \in 0 .. N /\ d - 1 \in 0 .. N /\ d - Chunk < d /\ d - 1 < d
              /\ N - (d - Chunk) = N - d + Chunk /\ N - (d - 1) = N - d + 1
            BY <2>6, <2>2
        <3>2. c[N - d + Chunk] \in Nat /\ c[N - d + 1] \in Nat
            BY <3>1, <2>3
        <3> QED  BY <3>2, <2>6, <2>4, <2>2 DEF Counted
    <2> QED  BY <2>5, <2>6
<1>3. ASSUME NEW i \in 0 .. N PROVE c[i] \in Nat
    <2>1. N - i \in 0 .. N /\ N - (N - i) = i
        OBVIOUS
    <2> QED  BY <2>1, <1>2
<1> QED  BY <1>3 DEF c

(* k occurrences of the chunk, back to back from place t on. *)
Occurs(text, chunk, t, k) ==
    /\ t + Chunk * k <= Len(text)
    /\ \A j \in 0 .. k - 1 : ChunkAt(text, t + Chunk * j) = chunk

(* str.count jumps over an occurrence it has found and may so run past the
   beginning of those ahead; it misses none of k back-to-back occurrences all
   the same, because each of its jumps is no longer than one of them. *)
LEMMA CountFindsRow ==
    ASSUME NEW text, NEW chunk, Len(text) \in Nat
    PROVE  \A i \in 0 .. Len(text) : \A t \in i .. Len(text) : \A k \in Nat :
              Occurs(text, chunk, t, k) => CountFrom(text, chunk)[i] >= k
<1> USE SizeAssumption
<1> DEFINE N == Len(text)
           c == CountFrom(text, chunk)
           Fine(i) == \A t \in i .. N : \A k \in Nat : Occurs(text, chunk, t, k) => c[i] >= k
           Bad == {d \in 0 .. N : ~Fine(N - d)}
<1>1. \A i \in 0 .. N : c[i] = Counted(text, chunk, c, i)
    BY CountUnfolds
<1>2. \A i \in 0 .. N : c[i] \in Nat
    BY CountIsNumber
<1> HIDE DEF c
<1>3. Bad = {}
    <2> SUFFICES ASSUME Bad # {} PROVE FALSE
        OBVIOUS
    <2>1. PICK d \in Bad : \A e \in Bad : d <= e
        <3>1. Bad \subseteq Nat
            OBVIOUS
        <3> HIDE DEF Bad
        <3> QED  BY <3>1, LeastNumber
    <2> DEFINE i == N - d
    <2>2. d \in 0 .. N /\ ~Fine(i) /\ i \in 0 .. N
        OBVIOUS
    <2>3. \A e \in 0 .. N : e < d => Fine(N - e)
        <3> HIDE DEF Fine
        <3> QED  BY <2>1
    <2>4. \A j \in 0 .. N : j > i => Fine(j)
        <3> SUFFICES ASSUME NEW j \in 0 .. N, j > i PROVE Fine(j)
            OBVIOUS
        <3>1. N - j \in 0 .. N /\ N - j < d /\ N - (N - j) = j
            BY <2>2
        <3> HIDE DEF Fine
        <3> QED  BY <3>1, <2>3
    <2> HIDE DEF i
    <2>5. PICK t \in i .. N, k \in Nat : Occurs(text, chunk, t, k) /\ ~(c[i] >= k)
        BY <2>2
    <2>6. k # 0
        BY <2>5, <2>2, <1>2
    <2>7. /\ Chunk * k = Chunk + Chunk * (k - 1) /\ Chunk * (k - 1) >= 0
          /\ Chunk * k \in Nat /\ Chunk * (k - 1) \in Nat /\ k - 1 \in Nat
        <3>1. k - 1 \in Nat
            BY <2>6
        <3>2. Chunk * k = Chunk + Chunk * (k - 1) /\ Chunk * k \in Nat
            OBVIOUS
        <3>3. Chunk * (k - 1) \in Nat
            <4> DEFINE e == k - 1
            <4>1. e \in Nat  BY <3>1
            <4> HIDE DEF e
            <4>2. Chunk * e \in Nat  BY <4>1
            <4> QED  BY <4>2 DEF e
        <3> QED  BY <3>1, <3>2, <3>3
    <2>8. t + Chunk <= N /\ i + Chunk <= N /\ i + Chunk \in 0 .. N /\ i + 1 \in 0 .. N
        <3>1. t + Chunk * k <= N
            BY <2>5 DEF Occurs
        <3> DEFINE m == Chunk * (k - 1)
        <3>2. m \in Nat /\ t + (Chunk + m) <= N
            BY <3>1, <2>7
        <3> HIDE DEF m
        <3>3. t \in Nat /\ i \in Nat /\ i <= t /\ N \in Nat
            BY <2>2
        <3>4. t + Chunk <= N
            BY <3>2, <3>3
        <3> QED  BY <3>3, <3>4
    <2>9. ChunkAt(text, t) = chunk
        <3>1. 0 \in 0 .. k - 1 /\ t + Chunk * 0 = t
            BY <2>5, <2>6
        <3> QED  BY <3>1, <2>5 DEF Occurs
    <2>10. CASE ChunkAt(text, i) = chunk
        <3>1. c[i] = 1 + c[i + Chunk]
            BY <2>10, <2>8, <2>2, <1>1 DEF Counted
        <3>2. Occurs(text, chunk, t + Chunk, k - 1)
            <4>1. t + Chunk + Chunk * (k - 1) <= N
                BY <2>5, <2>7, <2>2 DEF Occurs
            <4>2. ASSUME NEW j \in 0 .. k - 1 - 1 PROVE ChunkAt(text, t + Chunk + Chunk * j) = chunk
                <5>1. j + 1 \in 0 .. k - 1 /\ t + Chunk + Chunk * j = t + Chunk * (j + 1)
                    BY <2>2
                <5> QED  BY <5>1, <2>5 DEF Occurs
            <4> QED  BY <4>1, <4>2 DEF Occurs
        <3>3. i + Chunk > i /\ t + Chunk \in i + Chunk .. N
            BY <2>8, <2>2
        <3>4. Fine(i + Chunk)
            <4> HIDE DEF Fine
            <4> QED  BY <3>3, <2>8, <2>4
        <3>5. c[i + Chunk] >= k - 1
            BY <3>4, <3>2, <3>3, <2>7
        <3>6. c[i + Chunk] \in Nat /\ k \in Nat /\ ~(c[i] >= k)
            BY <2>5, <2>8, <1>2
        <3> DEFINE x == c[i + Chunk]
        <3>7. x \in Nat /\ x >= k - 1 /\ c[i] = 1 + x
            BY <3>1, <3>5, <3>6
        <3> HIDE DEF x
        <3> QED  BY <3>6, <3>7
    <2>11. CASE ChunkAt(text, i) # chunk
        <3>1. c[i] = c[i + 1]
            BY <2>11, <2>8, <2>2, <1>1 DEF Counted
        <3>2. t # i
            BY <2>9, <2>11
        <3>3. i + 1 > i /\ t \in i + 1 .. N
            BY <3>2, <2>2
        <3>4. Fine(i + 1)
            <4> HIDE DEF Fine
            <4> QED  BY <3>3, <2>8, <2>4
        <3> QED  BY <3>4, <3>3, <3>1, <2>5
    <2> QED  BY <2>10, <2>11
<1>4. ASSUME NEW i \in 0 .. N PROVE Fine(i)
    <2>1. N - i \in 0 .. N /\ N - (N - i) = i
        OBVIOUS
    <2> HIDE DEF Fine
    <2> QED  BY <2>1, <1>3
<1> QED  BY <1>4 DEF c

(* Division with remainder *)
LEMMA DivMod ==
    ASSUME NEW s \in Nat, NEW c \in Nat \ {0}
    PROVE  s % c \in 0 .. c - 1 /\ s \div c \in Nat /\ s = c * (s \div c) + (s % c)
<1>1. s % c \in 0 .. c - 1
    OBVIOUS
<1>2. s \div c \in Nat
    OBVIOUS
<1>3. s = c * (s \div c) + (s % c)
    OBVIOUS
<1> QED  BY <1>1, <1>2, <1>3

LEMMA MultipleHasNoRemainder ==
    ASSUME NEW q \in Nat, NEW c \in Nat \ {0}
    PROVE  (c * q) % c = 0
<1> DEFINE d == (c * q) \div c
           r == (c * q) % c
<1>1. c * q \in Nat
    OBVIOUS
<1>2. d \in Nat /\ r \in 0 .. c - 1 /\ c * q = c * d + r
    BY <1>1, DivMod
<1> HIDE DEF d, r
<1>3. ASSUME NEW e \in Nat, e >= 1 PROVE c * e >= c
    BY <1>3
<1>4. CASE d < q
    <2>1. c * (q - d) = r
        BY <1>2
    <2>2. q - d \in Nat /\ q - d >= 1
        BY <1>2, <1>4
    <2>3. c * (q - d) >= c
        BY <2>2, <1>3
    <2> QED  BY <2>1, <2>3, <1>2
<1>5. CASE d > q
    <2>1. c * (d - q) = 0 - r
        BY <1>2
    <2>2. d - q \in Nat /\ d - q >= 1
        BY <1>2, <1>5
    <2>3. c * (d - q) >= c
        BY <2>2, <1>3
    <2> QED  BY <2>1, <2>3, <1>2
<1>6. CASE d = q
    <2>1. c * q = c * q + r /\ c * q \in Nat /\ r \in Nat
        BY <1>1, <1>2, <1>6
    <2>2. r = 0
        BY <2>1
    <2> QED  BY <2>2 DEF r
<1> QED  BY <1>2, <1>4, <1>5, <1>6

(* The first chunk that is tried at or after a place. *)
LEMMA NextStart ==
    ASSUME NEW s \in Nat, NEW c \in Nat \ {0}
    PROVE  \E a \in Nat : a % c = 0 /\ s <= a /\ a < s + c
<1>1. s % c \in 0 .. c - 1 /\ s \div c \in Nat /\ s = c * (s \div c) + (s % c)
    BY DivMod
<1> DEFINE q == s \div c
           r == s % c
<1>2. q \in Nat /\ r \in 0 .. c - 1 /\ s = c * q + r
    BY <1>1
<1> HIDE DEF q
<1>3. CASE r = 0
    BY <1>3, <1>2
<1>4. CASE r # 0
    <2> HIDE DEF r
    <2>1. c * (q + 1) = c * q + c /\ c * q \in Nat /\ q + 1 \in Nat
        BY <1>2
    <2>2. (c * (q + 1)) % c = 0
        BY <2>1, MultipleHasNoRemainder
    <2>3. c * (q + 1) \in Nat /\ s <= c * (q + 1) /\ c * (q + 1) < s + c
        BY <2>1, <1>2, <1>4
    <2> QED  BY <2>2, <2>3
<1> QED  BY <1>3, <1>4

(* Repetitions that begin where a chunk is tried are found. *)
LEMMA RowIsDetected ==
    ASSUME NEW text \in Seq(Letter), NEW a \in Nat, a % Chunk = 0,
           ~IsBlank(ChunkAt(text, a)), Occurs(text, ChunkAt(text, a), a, Repeats)
    PROVE  DetectRepetition(text)
<1> USE SizeAssumption
<1>1. Len(text) \in Nat
    OBVIOUS
<1>2. Chunk * Repeats \in Nat /\ a + Chunk * Repeats <= Len(text)
    BY DEF Occurs
<1>3. a \in 0 .. Len(text)
    BY <1>1, <1>2
<1>4. CountFrom(text, ChunkAt(text, a))[0] >= Repeats
    <2>1. 0 \in 0 .. Len(text) /\ a \in 0 .. Len(text) /\ Repeats \in Nat
        BY <1>1, <1>3
    <2> QED  BY <1>1, <2>1, CountFindsRow
<1> QED  BY <1>2, <1>3, <1>4 DEF DetectRepetition, Count

(* A chunk is read off the text. *)
LEMMA ChunkIs ==
    ASSUME NEW text \in Seq(Letter), NEW a \in Nat, a + Chunk <= Len(text)
    PROVE  ChunkAt(text, a) = [p \in 1 .. Chunk |-> text[a + p]]
<1> USE SizeAssumption
<1> DEFINE c == SubSeq(text, a + 1, a + Chunk)
<1>1. /\ a + 1 \in Nat /\ a + Chunk \in Nat /\ Len(text) \in Nat
      /\ 1 <= a + 1 /\ a + Chunk <= Len(text)
    OBVIOUS
<1>2. c \in Seq(Letter) /\ Len(c) = Chunk
    BY <1>1
<1>3. \A p \in 1 .. Chunk : c[p] = text[a + p]
    BY <1>1
<1> HIDE DEF c
<1>4. c = [p \in 1 .. Chunk |-> text[a + p]]
    BY <1>2, <1>3
<1> QED  BY <1>4 DEF ChunkAt, c

(* A text with period Chunk repeats its chunk. *)
LEMMA PeriodIsRow ==
    ASSUME NEW text \in Seq(Letter), NEW a \in Nat, NEW k \in Nat, k >= 1,
           a + Chunk * k <= Len(text),
           \A i \in 1 .. Chunk * (k - 1) : text[a + i] = text[a + i + Chunk]
    PROVE  Occurs(text, ChunkAt(text, a), a, k)
<1> USE SizeAssumption
<1> DEFINE At(j) == \A p \in 1 .. Chunk : text[a + Chunk * j + p] = text[a + p]
<1>m. \A x, y \in Nat : x <= y => Chunk * x \in Nat /\ Chunk * x <= Chunk * y
    OBVIOUS
<1>1. \A j \in Nat : j <= k - 1 => At(j)
    <2> DEFINE Bad == {j \in Nat : j <= k - 1 /\ ~At(j)}
    <2> SUFFICES ASSUME Bad # {} PROVE FALSE
        OBVIOUS
    <2>1. PICK j \in Bad : \A e \in Bad : j <= e
        <3>1. Bad \subseteq Nat
            OBVIOUS
        <3> HIDE DEF Bad
        <3> QED  BY <3>1, LeastNumber
    <2>2. j \in Nat /\ j <= k - 1 /\ ~At(j)
        OBVIOUS
    <2>3. j # 0
        <3>1. At(0)
            <4>1. \A p \in 1 .. Chunk : a + Chunk * 0 + p = a + p
                OBVIOUS
            <4> QED  BY <4>1
        <3> HIDE DEF At
        <3> QED  BY <2>2, <3>1
    <2>4. j - 1 \in Nat /\ At(j - 1)
        <3>1. j - 1 \in Nat /\ j - 1 <= k - 1 /\ ~(j <= j - 1)
            BY <2>2, <2>3
        <3> HIDE DEF At
        <3> QED  BY <3>1, <2>1
    <2>5. At(j)
        <3> SUFFICES ASSUME NEW p \in 1 .. Chunk
                     PROVE  text[a + Chunk * j + p] = text[a + p]
            OBVIOUS
        <3> DEFINE h == j - 1
        <3>1. h \in Nat /\ h + 1 = j /\ h + 1 <= k - 1
            BY <2>2, <2>4
        <3>2. text[a + Chunk * h + p] = text[a + p]
            BY <2>4
        <3> HIDE DEF h
        <3>3. Chunk * j = Chunk * h + Chunk /\ Chunk * h \in Nat
            BY <3>1
        <3>4. Chunk * j <= Chunk * (k - 1)
            BY <3>1, <2>2, <1>m
        <3>5. Chunk * (k - 1) \in Nat
            <4>1. k - 1 \in Nat
                OBVIOUS
            <4> QED  BY <4>1, <1>m
        <3> DEFINE m == Chunk * h
        <3>6. m \in Nat /\ Chunk * j = m + Chunk /\ m + Chunk <= Chunk * (k - 1)
            BY <3>3, <3>4
        <3> HIDE DEF m
        <3>7. m + p \in 1 .. Chunk * (k - 1)
            BY <3>5, <3>6
        <3>8. text[a + (m + p)] = text[a + (m + p) + Chunk]
            BY <3>7
        <3>9. a + (m + p) = a + m + p /\ a + (m + p) + Chunk = a + (m + Chunk) + p
            BY <3>6
        <3>10. text[a + m + p] = text[a + p]
            BY <3>2 DEF m
        <3> QED  BY <3>6, <3>8, <3>9, <3>10
    <2> HIDE DEF At
    <2> QED  BY <2>2, <2>5
<1>2. ASSUME NEW j \in 0 .. k - 1 PROVE ChunkAt(text, a + Chunk * j) = ChunkAt(text, a)
    <2>1. Chunk * j \in Nat /\ Chunk * j + Chunk = Chunk * (j + 1) /\ Chunk * (j + 1) <= Chunk * k
        BY <1>m
    <2>2. a + Chunk * j \in Nat /\ a + Chunk * j + Chunk <= Len(text) /\ a + Chunk <= Len(text)
        BY <2>1
    <2>3. /\ ChunkAt(text, a + Chunk * j) = [p \in 1 .. Chunk |-> text[a + Chunk * j + p]]
          /\ ChunkAt(text, a) = [p \in 1 .. Chunk |-> text[a + p]]
        BY <2>2, ChunkIs
    <2>4. \A p \in 1 .. Chunk : text[a + Chunk * j + p] = text[a + p]
        <3>1. j \in Nat /\ j <= k - 1
            OBVIOUS
        <3>2. At(j)
            <4> HIDE DEF At
            <4> QED  BY <3>1, <1>1
        <3> QED  BY <3>2
    <2> QED  BY <2>3, <2>4
<1> QED  BY <1>2 DEF Occurs

(* The heuristic finds every loop of one repetition more than the minimum, in a
   text of any length, wherever the loop starts and whatever surrounds it. *)
THEOREM LoopIsAlwaysFound ==
    ASSUME NEW text \in Seq(Letter), Loops(text, Repeats + 1)
    PROVE  DetectRepetition(text)
<1> USE SizeAssumption
<1>1. PICK s \in 0 .. Len(text) :
        /\ s + Chunk * (Repeats + 1) <= Len(text)
        /\ ~IsBlank(ChunkAt(text, s))
        /\ \A i \in 1 .. Chunk * ((Repeats + 1) - 1) : text[s + i] = text[s + i + Chunk]
    BY Zenon DEF Loops
<1>n. s \in Nat /\ Len(text) \in Nat /\ Repeats \in Nat /\ Repeats >= 1
    OBVIOUS
<1>2. PICK a \in Nat : a % Chunk = 0 /\ s <= a /\ a < s + Chunk
    BY <1>n, NextStart
<1> DEFINE q == a - s
<1>3. q \in 0 .. Chunk - 1 /\ a = s + q
    BY <1>2
<1> HIDE DEF q
<1>4. /\ Chunk * (Repeats + 1) = Chunk * Repeats + Chunk /\ Chunk * Repeats \in Nat
      /\ (Repeats + 1) - 1 = Repeats /\ Chunk <= Chunk * Repeats
      /\ Chunk * Repeats = Chunk * (Repeats - 1) + Chunk
    OBVIOUS
<1>5. a + Chunk * Repeats <= Len(text) /\ a + Chunk <= Len(text) /\ s + Chunk <= Len(text)
    BY <1>1, <1>2, <1>4
<1>6. ASSUME NEW i \in 1 .. Chunk * (Repeats - 1) PROVE text[a + i] = text[a + i + Chunk]
    <2>1. q + i \in 1 .. Chunk * Repeats
        BY <1>3, <1>4
    <2>2. text[s + (q + i)] = text[s + (q + i) + Chunk]
        BY <2>1, <1>1, <1>4
    <2> QED  BY <2>2, <1>3
<1>7. Occurs(text, ChunkAt(text, a), a, Repeats)
    BY <1>n, <1>5, <1>6, PeriodIsRow
<1>8. ~IsBlank(ChunkAt(text, a))
    <2>1. /\ ChunkAt(text, a) = [p \in 1 .. Chunk |-> text[a + p]]
          /\ ChunkAt(text, s) = [p \in 1 .. Chunk |-> text[s + p]]
        BY <1>5, ChunkIs
    <2>2. PICK p \in 1 .. Chunk : text[s + p] # Blank
        BY <2>1, <1>1 DEF IsBlank
    <2>3. CASE p > q
        <3>1. p - q \in 1 .. Chunk /\ a + (p - q) = s + p
            BY <2>3, <1>3
        <3> QED  BY <3>1, <2>1, <2>2 DEF IsBlank
    <2>4. CASE p <= q
        <3>1. p + Chunk - q \in 1 .. Chunk /\ a + (p + Chunk - q) = s + p + Chunk
            BY <2>4, <1>3
        <3>2. p \in 1 .. Chunk * Repeats
            BY <1>4
        <3>3. text[s + p] = text[s + p + Chunk]
            BY <3>2, <1>1, <1>4
        <3> QED  BY <3>1, <3>3, <2>1, <2>2 DEF IsBlank
    <2> QED  BY <2>3, <2>4, <1>3
<1> QED  BY <1>2, <1>7, <1>8, RowIsDetected

(* k occurrences of the chunk, none before place i, no two of them overlapping. *)
Apart(text, chunk, i, k) ==
    \E at \in [1 .. k -> Nat] :
        \A j \in 1 .. k : /\ i <= at[j] /\ at[j] + Chunk <= Len(text)
                         /\ ChunkAt(text, at[j]) = chunk
                         /\ \A h \in 1 .. k : j < h => at[j] + Chunk <= at[h]

(* str.count counts nothing that is not there, and nothing twice. *)
LEMMA CountedAreApart ==
    ASSUME NEW text, NEW chunk, Len(text) \in Nat
    PROVE  \A i \in 0 .. Len(text) : \A k \in Nat :
              k <= CountFrom(text, chunk)[i] => Apart(text, chunk, i, k)
<1> USE SizeAssumption
<1> DEFINE N == Len(text)
           c == CountFrom(text, chunk)
           Fine(i) == \A k \in Nat : k <= c[i] => Apart(text, chunk, i, k)
           Bad == {d \in 0 .. N : ~Fine(N - d)}
<1>1. \A i \in 0 .. N : c[i] = Counted(text, chunk, c, i)
    BY CountUnfolds
<1>2. \A i \in 0 .. N : c[i] \in Nat
    BY CountIsNumber
<1>3. ASSUME NEW i PROVE Apart(text, chunk, i, 0)
    <2>1. [j \in 1 .. 0 |-> 0] \in [1 .. 0 -> Nat] /\ ~\E j : j \in 1 .. 0
        OBVIOUS
    <2> QED  BY <2>1 DEF Apart
<1> HIDE DEF c
<1>4. Bad = {}
    <2> SUFFICES ASSUME Bad # {} PROVE FALSE
        OBVIOUS
    <2>1. PICK d \in Bad : \A e \in Bad : d <= e
        <3>1. Bad \subseteq Nat
            OBVIOUS
        <3> HIDE DEF Bad
        <3> QED  BY <3>1, LeastNumber
    <2> DEFINE i == N - d
    <2>2. d \in 0 .. N /\ ~Fine(i) /\ i \in 0 .. N
        OBVIOUS
    <2>3. \A e \in 0 .. N : e < d => Fine(N - e)
        <3> HIDE DEF Fine
        <3> QED  BY <2>1
    <2>4. \A j \in 0 .. N : j > i => Fine(j)
        <3> SUFFICES ASSUME NEW j \in 0 .. N, j > i PROVE Fine(j)
            OBVIOUS
        <3>1. N - j \in 0 .. N /\ N - j < d /\ N - (N - j) = j
            BY <2>2
        <3> HIDE DEF Fine
        <3> QED  BY <3>1, <2>3
    <2> HIDE DEF i
    <2>5. PICK k \in Nat : k <= c[i] /\ ~Apart(text, chunk, i, k)
        BY <2>2
    <2>6. k # 0
        BY <2>5, <1>3
    <2>7. ~(i + Chunk > N)
        BY <2>2, <2>5, <2>6, <1>1 DEF Counted
    <2>8. i \in Nat /\ N \in Nat /\ i + Chunk \in 0 .. N /\ i + 1 \in 0 .. N /\ i + Chunk > i
        BY <2>2, <2>7
    <2>9. CASE ChunkAt(text, i) = chunk
        <3>1. c[i] = 1 + c[i + Chunk] /\ c[i + Chunk] \in Nat
            BY <2>9, <2>7, <2>8, <2>2, <1>1, <1>2 DEF Counted
        <3>2. k - 1 \in Nat /\ k - 1 <= c[i + Chunk]
            BY <3>1, <2>5, <2>6
        <3>3. Fine(i + Chunk)
            <4> HIDE DEF Fine
            <4> QED  BY <2>8, <2>4
        <3>4. Apart(text, chunk, i + Chunk, k - 1)
            BY <3>2, <3>3
        <3>5. PICK at \in [1 .. k - 1 -> Nat] :
                \A j \in 1 .. k - 1 :
                    /\ i + Chunk <= at[j] /\ at[j] + Chunk <= N
                    /\ ChunkAt(text, at[j]) = chunk
                    /\ \A h \in 1 .. k - 1 : j < h => at[j] + Chunk <= at[h]
            BY <3>4 DEF Apart
        <3> DEFINE b == [j \in 1 .. k |-> IF j = 1 THEN i ELSE at[j - 1]]
        <3>6. \A j \in 1 .. k : j # 1 => j - 1 \in 1 .. k - 1
            OBVIOUS
        <3>7. b \in [1 .. k -> Nat]
            BY <3>5, <3>6, <2>8
        <3>8. ASSUME NEW j \in 1 .. k
              PROVE  /\ i <= b[j] /\ b[j] + Chunk <= N /\ ChunkAt(text, b[j]) = chunk
                     /\ \A h \in 1 .. k : j < h => b[j] + Chunk <= b[h]
            <4>1. CASE j = 1
                <5>1. \A h \in 1 .. k : j < h => b[h] = at[h - 1] /\ h - 1 \in 1 .. k - 1
                    BY <4>1
                <5>2. b[j] = i
                    BY <4>1
                <5> HIDE DEF b
                <5> QED  BY <5>1, <5>2, <3>5, <2>8, <2>9
            <4>2. CASE j # 1
                <5>1. b[j] = at[j - 1] /\ j - 1 \in 1 .. k - 1
                    BY <4>2
                <5>2. \A h \in 1 .. k : j < h => /\ b[h] = at[h - 1] /\ h - 1 \in 1 .. k - 1
                                                /\ j - 1 < h - 1
                    BY <4>2
                <5>3. at[j - 1] \in Nat
                    BY <5>1
                <5> HIDE DEF b
                <5> QED  BY <5>1, <5>2, <5>3, <3>5, <2>8
            <4> QED  BY <4>1, <4>2
        <3> HIDE DEF b
        <3>9. Apart(text, chunk, i, k)
            BY <3>7, <3>8 DEF Apart
        <3> QED  BY <3>9, <2>5
    <2>10. CASE ChunkAt(text, i) # chunk
        <3>1. c[i] = c[i + 1]
            BY <2>10, <2>7, <2>2, <1>1 DEF Counted
        <3>2. Fine(i + 1)
            <4>1. i + 1 > i
                BY <2>8
            <4> HIDE DEF Fine
            <4> QED  BY <4>1, <2>8, <2>4
        <3>3. Apart(text, chunk, i + 1, k)
            BY <3>1, <3>2, <2>5
        <3>4. \A x \in Nat : i + 1 <= x => i <= x
            BY <2>8
        <3>5. Apart(text, chunk, i, k)
            BY <3>3, <3>4 DEF Apart
        <3> QED  BY <3>5, <2>5
    <2> QED  BY <2>9, <2>10
<1>5. ASSUME NEW i \in 0 .. N PROVE Fine(i)
    <2>1. N - i \in 0 .. N /\ N - (N - i) = i
        OBVIOUS
    <2> HIDE DEF Fine
    <2> QED  BY <2>1, <1>4
<1> QED  BY <1>5 DEF c

(* What the heuristic flags does repeat: some chunk that is not blank stands in the
   text the minimum number of times without overlap. It need not be back to back,
   as the docstring has it (ScatteredIsFound). *)
THEOREM FlaggedTextRepeats ==
    ASSUME NEW text \in Seq(Letter), DetectRepetition(text)
    PROVE  \E start \in 0 .. Len(text) :
              /\ ~IsBlank(ChunkAt(text, start))
              /\ Apart(text, ChunkAt(text, start), 0, Repeats)
<1>1. PICK start \in 0 .. Len(text) :
        /\ ~IsBlank(ChunkAt(text, start))
        /\ CountFrom(text, ChunkAt(text, start))[0] >= Repeats
    BY DEF DetectRepetition, Count
<1>2. Len(text) \in Nat /\ 0 \in 0 .. Len(text) /\ Repeats \in Nat
    BY SizeAssumption
<1>3. CountFrom(text, ChunkAt(text, start))[0] \in Nat
    BY <1>2, CountIsNumber
<1>4. Repeats <= CountFrom(text, ChunkAt(text, start))[0]
    BY <1>1, <1>2, <1>3
<1>5. Apart(text, ChunkAt(text, start), 0, Repeats)
    BY <1>2, <1>4, CountedAreApart
<1> QED  BY <1>1, <1>5
===============================================================================
