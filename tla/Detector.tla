------------------------------- MODULE Detector --------------------------------
(***************************************************************************)
(* SlidingWindowDetector (detector.py): the failure rate of the events of  *)
(* the last window_seconds is held against an exponentially weighted       *)
(* baseline of the events that have left the window.  observe() is called  *)
(* for every record (process_record in worker.py) and reads the clock      *)
(* twice: before it evicts old events one by one, and when it appends the  *)
(* new one.                                                                *)
(*                                                                         *)
(* The arithmetic is exact: with alpha = 1/5 the baseline is mean / scale  *)
(* and its variance var / scale^2, where scale is 5 to the number of       *)
(* updates.  Rounding of floats is left out.                               *)
(***************************************************************************)
EXTENDS Integers, Sequences, FiniteSets

CONSTANTS Window,      \* window_seconds, in ticks
          MinEvents,   \* min_events
          Sigma,       \* sigma
          MaxTime,     \* bounds: clock,
          MaxScale,    \*   scale,
          MaxEvents    \*   length of the window

ASSUME ParameterAssumption ==
    /\ Window \in Nat
    /\ MinEvents \in Nat \ {0}
    /\ Sigma \in Nat \ {0}
    /\ MaxTime \in Nat /\ MaxScale \in Nat /\ MaxEvents \in Nat

VARIABLES
    now,        \* time.monotonic
    events,     \* the deque: time and whether the record failed
    primed,     \* _baseline is not None
    mean, scale, var,   \* _baseline and _variance
    pc,         \* idle, evicting or judging
    horizon,    \* of the observe() under way
    failed,     \* its argument
    anomalous   \* the verdict of the last observe()

window == <<events, primed, mean, scale, var>>
call == <<pc, horizon, failed>>
vars == <<now, window, call, anomalous>>

Event == [time : Nat, failed : BOOLEAN]

TypeOK ==
    /\ now \in Nat
    /\ events \in Seq(Event)
    /\ primed \in BOOLEAN
    /\ mean \in Nat
    /\ scale \in Nat \ {0}
    /\ var \in Nat
    /\ pc \in {"idle", "evicting", "judging"}
    /\ horizon \in Int
    /\ failed \in BOOLEAN
    /\ anomalous \in BOOLEAN

Init ==
    /\ now = 0
    /\ events = <<>>
    /\ primed = FALSE
    /\ mean = 0 /\ scale = 1 /\ var = 0
    /\ pc = "idle"
    /\ horizon = 0
    /\ failed = FALSE
    /\ anomalous = FALSE

------------------------------------------------------------------------------

Tick ==
    /\ now < MaxTime
    /\ now' = now + 1
    /\ UNCHANGED <<window, call, anomalous>>

Observe(isFailure) ==
    /\ pc = "idle"
    /\ Len(events) < MaxEvents
    /\ pc' = "evicting"
    /\ horizon' = now - Window
    /\ failed' = isFailure
    /\ UNCHANGED <<now, window, anomalous>>

(* Mutated form: the newest event is looked at in place of the oldest. *)
ExpiredNewest == events # <<>> /\ events[Len(events)].time < horizon

(* events[0][0] < horizon *)
Expired == events # <<>> /\ Head(events).time < horizon

Square(x) == x * x

(* The first event to leave sets the baseline. *)
SetBaseline(rate) ==
    /\ mean' = rate
    /\ UNCHANGED <<scale, var>>

(* Mutated forms: the baseline moves away from the rate, or alpha and 1 - alpha
   are swapped. *)
UpdateBaselineAway(rate) ==
    LET delta == rate * scale - mean
    IN  /\ mean' = 5 * mean - delta
        /\ scale' = 5 * scale
        /\ var' = 4 * (5 * var + Square(delta))

UpdateBaselineSwapped(rate) ==
    LET delta == rate * scale - mean
    IN  /\ mean' = mean + 4 * rate * scale
        /\ scale' = 5 * scale
        /\ var' = 4 * (5 * var + Square(delta))

(* baseline += alpha * delta; variance = (1 - alpha) * (variance + alpha * delta^2) *)
UpdateBaseline(rate) ==
    LET delta == rate * scale - mean
    IN  /\ mean' = 4 * mean + rate * scale
        /\ scale' = 5 * scale
        /\ var' = 4 * (5 * var + Square(delta))

Evict ==
    /\ pc = "evicting"
    /\ Expired
    /\ scale < MaxScale
    /\ events' = Tail(events)
    /\ primed' = TRUE
    /\ LET rate == IF Head(events).failed THEN 1 ELSE 0
       IN  IF primed THEN UpdateBaseline(rate) ELSE SetBaseline(rate)
    /\ UNCHANGED <<now, call, anomalous>>

AppendEvent ==
    /\ pc = "evicting"
    /\ ~Expired
    /\ events' = Append(events, [time |-> now, failed |-> failed])
    /\ pc' = "judging"
    /\ UNCHANGED <<now, primed, mean, scale, var, horizon, failed, anomalous>>

(* How many of the events failed *)
Failures(list) == Cardinality({i \in DOMAIN list : list[i].failed})

(* With f failures among n events: rate > baseline, and by how much, in units of
   1 / (n * scale). Before any eviction mean = 0 stands for "no baseline". *)
Excess(f, n) == f * scale - mean * n

(* Mutated form: one deviation is enough. *)
FarAboveOne(f, n) ==
    \/ var = 0
    \/ Square(Excess(f, n)) >= Square(n) * var

(* z >= sigma. Without variance every excess is infinitely many deviations. *)
FarAbove(f, n) ==
    \/ var = 0
    \/ Square(Excess(f, n)) >= Square(Sigma * n) * var

IsAnomalous(f, n) ==
    /\ n >= MinEvents
    /\ Excess(f, n) > 0
    /\ FarAbove(f, n)

Verdict ==
    /\ pc = "judging"
    /\ anomalous' = IsAnomalous(Failures(events), Len(events))
    /\ pc' = "idle"
    /\ UNCHANGED <<now, window, horizon, failed>>

Next ==
    \/ Tick
    \/ \E isFailure \in BOOLEAN : Observe(isFailure)
    \/ Evict \/ AppendEvent \/ Verdict

Spec == Init /\ [][Next]_vars

------------------------------------------------------------------------------

(* The incremental update keeps the variance of a Bernoulli variable whose
   probability is the baseline: variance = baseline * (1 - baseline). A swapped
   update of the two, or a wrong weight, would break it. *)
VarianceOfBaseline == mean <= scale /\ var = mean * (scale - mean)

(* Eviction stops at the first event that is young enough, and still leaves
   none in the window that is too old. *)
WindowIsRecent ==
    pc = "judging" => \A i \in 1 .. Len(events) : events[i].time >= horizon

(* What sigma means for a failure rate: a window can be anomalous only while
   the baseline b satisfies (1 - b) >= sigma^2 * b. With sigma = 3 no window is
   ever anomalous, not even one in which everything fails, once a tenth of the
   past records failed. *)
AnomalyNeedsQuietBaseline ==
    anomalous /\ pc = "idle" => scale - mean >= Square(Sigma) * mean
===============================================================================
