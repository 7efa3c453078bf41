# Verification of autorater

TLA+ models of autorater, model-checked with TLC and proved about with TLAPS.
Paths below are relative to the repository (`miner/miner/worker.py`, …).

autorater mines production LLM traffic for failures. A scheduled Python
*miner* reads records from a data lake, classifies them, sends what is new to a
paid LLM judge, stores the verdicts, and posts severe cases to a Go *alerting*
webhook, which notifies Slack and PagerDuty. What is durable is one cursor and
one lease in DynamoDB (or Azure Table Storage, or a JSON file in local runs), and
the result objects.

## 1. Inventory

| Component | State | Operations | What makes it hard | What makes it correct |
|---|---|---|---|---|
| Single-runner lease (`sources.py`, `azure_sources.py`) | one item: owner, expiry | `acquire_lease`, `release_lease` | several processes with their own clocks, late, repeated and lost requests, crashes; nothing renews it | no two miners in force at once; an orphan lease expires |
| Cursor store | last key per source | `get`, `set` | unconditional write by whoever still runs | moves forward; passes no record nobody mined |
| File store (`FileCursorStore`) | one JSON file with cursors and lease, one `.tmp` | load, change, save | no lock: every operation is a read-modify-write of the whole file | the file is whole; an update of one process does not undo another's |
| Sources (`S3Source`, `BlobSource`, `LocalDirSource`) | listing position | `poll` (a generator driven by `run`) | objects arrive during a listing; pages; bad bodies | every record delivered, in order, repeated only after a fault |
| Worker (`worker.py`) | stop flag, sweep id | `main`, `run`, `stop`, `process_record` | signals, exceptions between any two calls | leaves only after a flush; releases its lease |
| Results sink (`results.py`) | row buffer; objects by date and sweep id | `write`, `flush` | midnight, second flush, crash before a flush | every judged row is kept |
| Dedup gate (`dedup.py`) | list of fingerprints | `is_duplicate` | TTL boundary, cap, similarity is not transitive | nothing near is scored twice; nothing novel is lost |
| Detector (`detector.py`) | deque of events, baseline, variance | `observe` | float EWMA, boundary of the window | window is recent, baseline and variance agree |
| Per-record pipeline (`worker.py`) | cases in hand, counters | `process_record`, `_judge_case` | gate, judge, row and alert happen one after the other, time passes between them, several cases per record | whatever is dropped has a verdict behind it; every case is accounted for |
| Judge, safety, classification (`judge.py`, `safety.py`, `detector.py`) | counters | `score`, `classify`, `classify_failure` | a remote call that fails, thresholds, order of the tests | fallback never stops a sweep; critical findings are escalated |
| Alert client (`alerts.py`) | – | `send` | timeout while the server works on | never raises, posts once |
| Webhook (`handler.go`, `dedupe.go`, `dispatch.go`) | fingerprint cache behind a mutex | `handleAlert`, `Admit`, `gcLocked`, `Dispatch` | concurrent requests, failing channels, client gone, restarts | pages once per window; an honest answer |
| Orchestration (`iac/aws/step_functions.tf`, `eventbridge.tf`, `iac/azure/containerapps.tf`) | desired count of the alerting service | scale up, run a sweep, scale down | overlapping executions | alerting is up while a miner runs |
| Backend selection, logging, analytics, Terraform, CI | – | – | – | not modelled, see 7 |

How they interact: `main` takes the lease, then `run` drives the source's
generator. The source reads the cursor once per poll and writes it after each
record, once `process_record` has returned. `process_record` calls the
classifiers, the detector and, per case, the gate, the judge, the sink's buffer
and the alert client; the latter is an HTTP call to the webhook. The sink is
flushed when the poll ends. Miners share the store and the lake and nothing
else; webhook goroutines share the cache.

`PROJECT.json` lists every component with its status, and under `hazards` what
is hard to test in the code, each with the properties that watch it.

## 2. Modules

| Module | Models | Notes |
|---|---|---|
| `SweepLease` | what the lease promises, without a clock | abstract specification; also the rule of `MemoryCursorStore` |
| `DynamoLease` | `DynamoCursorStore.acquire_lease`, `release_lease`, the start and end of `main` | refines `SweepLease` |
| `TableLease` | the same for `TableCursorStore`: five requests with ETags | refines `SweepLease` |
| `Miner` | `main`, `run`, `S3Source.poll`, `BlobSource.poll`, cursor, `ResultsSink` for several processes | its lease refines `SweepLease`, its lapse stands for the clocks of the two modules above |
| `FileStore` | `FileCursorStore`, `LocalDirSource.poll`, `main` and `run` of local processes | every system call on the file is a step; until two changes overlap it refines `SweepLease` |
| `CostGate` | `SemanticDeduplicator` | nearness is any symmetric relation |
| `CasePipeline` | `process_record`, `_judge_case`, `classify_failure`, `SafetyClassifier.classify`, `BaseJudge.score`, `AlertClient.send` | extends `CostGate`, whose actions are conjuncts of its own; implements it |
| `Similarity` | `shingles`, `jaccard` | gives the run of `CasePipeline` its nearness |
| `Repetition` | `detect_repetition` | compared with a reference definition over all short texts; `Detector_proofs` proves it for all texts |
| `Detector` | `SlidingWindowDetector` | |
| `AlertWindow` | what `dedupe.Cache` promises: one indivisible answer per request | abstract specification, without lock, cache or collection |
| `Alerting` | `handleAlert`, `Admit`, `gcLocked`, `Dispatch`, `AlertClient`'s timeout | refines `AlertWindow` |
| `Orchestrator` | the Step Functions states of `step_functions.tf`, the schedule, the ECS service | the miner task is an arbitrary end |
| `MC…` | constants and definitions for TLC | |
| `…_proofs` | theorems and their proofs | |

### State and actions against the code

**DynamoLease.** `item` is the DynamoDB item `lease#miner`. A process reads its
clock (`Start`), and the conditional put arrives later: `Put` (granted and
told), `PutUnacknowledged` (applied, response lost), `Refused`
(`ConditionalCheckFailedException`), `Fail` (any other end). `Release` is the
conditional delete in `main`'s `finally`. Clocks differ from true time by at
most `Skew`; a clock value is read before the request is sent, as in the code, so
the delay between them is unbounded. `until` is a history variable.

**TableLease.** `pc` names the next request: `create`, `get`, `recreate`,
`update`, then `running`, then `delete`. `valid` is the set of processes whose
last read carries the entity's current ETag; every write empties it. A lost
response is `WriteUnacknowledged`: the repeated insert then meets the process's
own entity, the repeated replacement fails. The model takes it, as
`azure_sources.py` does, that what `get` returns carries the ETag.

**Miner.** Keys are their ranks in lexicographic order. `pc` goes
`off → loop → listing → record → commit → … → flushing → loop`; `leaving` is the
end after a signal, `failing` after an exception; both release the lease. One
page is listed atomically (one request) while uploads may happen between pages;
it has at most `PageSize` of the next keys. Both clouds are covered: S3 starts
after the cursor; Blob starts at the first name, reads the pages before the
cursor without effect, and the page with the cursor in it brings fewer new names.
`Mine` is `get_object`, `json.loads` and all of `process_record`
for one record; whether the record passes the dedup gate is nondeterministic
(`CostGate` says when it does). `Commit` is the unconditional cursor write.
`Flush` replaces the object `object[p]` of the process's sweep id and today's
date; `NewDay` and the end of the process move it to `archive`, because no flush
can replace it any more. `Raise` is an exception from a store or from the bucket,
whether or not the write was applied. `overdue`, `overran`, `late`, `mined` and
`repeats` are history.

**FileStore.** A process is one launch with its own host-pid. `pc[p]` and
`job[p]` say which of the store's operations it is in and how far: `load`
(`json.loads` of the whole file), `open` (`write_text` truncates the shared
`.tmp`), `write`, `replace` (the rename). `draft[p]` is its dictionary, and
`handle[p]` follows its open file, because a rename by another process moves that
file to the store's path while it is still being written. What two writers
leave in one file is the longer text or a mixture (`Over`). A load of half a
file raises (`LoadFails`), as does a rename whose source is gone
(`ReplaceFails`); an exception in the poll loop goes through `main`'s `finally`,
one in `acquire_lease` or `release_lease` does not (`Raise`). Files are mined
whole; the cursor is set after the last line (`Finish`). A file is its rank among
the path *strings*, which `poll` resumes by (`sources.py:171`); `Place` is its
rank among the sorted `Path` objects, which `poll` runs through
(`sources.py:169`), and may be any other order. `start[p]` is the cursor the poll
of `p` has read, `at[p]` the file it took last; `Ahead` are the files it still
comes to and does not pass over, `IsNext` the first of them. `Aligned` files have
the same files before them in both orders. `overlap` (a load found
another process between its load and its rename), `outlived`, `begun`,
`delivered` and `repeats` (of aligned files) are history.

**CostGate.** `memory` is `_fingerprints`; each carries its serial number, which
gives the order of the list. Both readings of the clock are there.

**CasePipeline.** A record is what its tests find in it: `error_type`, the signs
of failure, the categories of findings, and a response. `Receive` is
`process_record` up to its loop: `todo` is the list of cases, the failure first,
then the findings in the order of `_PATTERNS`; `anomalous` is the detector's
verdict, any. `Suppress` and `Admit` are the gate's two answers (`CostGate`'s
`Drop` and `Judge`), `Score` is the judge's reply, the severity and
`results.write`, `Send` is the awaited post, `Wait` lets time pass anywhere.
`rows`, `calls` and `suppressed` are the sink and the counters that
`sweep_summary` reports; `sent` and `received` are history.

**Similarity, Repetition.** `Similar` is Jaccard of three-word shingles at 4/5
over integers, which the floats of the code agree with at the threshold.
`DetectRepetition` takes the chunk size and the repeats as constants; `CountFrom`
is Python's `str.count` from each place of the text on, `Count` from its start.

**Detector.** With `alpha = 1/5` the floats are the exact rationals
`mean / scale` and `var / scale²`, `scale` a power of five. An eviction is one
action because the loop pops one event at a time.

**Alerting.** `Lock` and `Admit`/`Suppress` are two steps under the mutex `mu`,
so that a missing mutex would show. Each channel is a step; the client may hang
up at any moment and a replica may be replaced. `delivered` is what the code
appends to, `received` is whether the message did get there. `Mock` are the
channels without a URL: their `Dispatch` logs the payload and returns no error,
whether or not the client still waits (`dispatch.go:50-53`). A deployment decides
which they are, so `Mock` is a constant; as deployed it is PagerDuty
(`PAGERDUTY_EVENTS_URL` has no default in `main.go:30` and is set neither in
`iac/aws/ecs.tf` nor in `iac/azure/containerapps.tf`). Under `Window` a
request has its answer from the moment it holds the mutex and has looked, and an
admission counts from then on, although it is stored two steps later.

**Orchestrator.** `step[e]` is the state an execution is in, `desired` and
`tasks` are the service's DesiredCount and RunningCount, `seen[e]` is
`$.alertingStatus`. `RunMinerTask` is the end of the miner task, with success or
failure, at any time: at once, if another miner has the lease. `Converge` is the
ECS scheduler, which starts or stops the task in one step: a task is counted
until it is gone, and one whose stop is already under way when the next execution
asks for it again is not represented (see 7); `AlertingDies` is a task that stops by itself. `CallFails` is a
call to ECS that fails, applied or not, in a state without a `Catch`.

## 3. Runs

All runs check deadlock except where the model really may stop (all alerts
answered; clock or counter at its bound).

| Run | Instance | Shows |
|---|---|---|
| `dynamo_lease` | 2 owners, TTL, skew and a short clock | the lease contract, `SingleRunner`, `BoundedLockout` |
| `table_lease` | 2 owners | the lease contract (which implies `SingleRunner`, by `ContractKeepsOneRunner`), `BoundedLockout`, and that a matching ETag means a decision still holds |
| `miner` | 2 miners, 3 keys of which one is malformed and one may be judged, pages of 1 or 2, a midnight, a fault and a signal | nothing skipped, one repeat per fault, cursor forward, leave only flushed, rows lost only by a crash or a replacement |
| `miner_live` | 2 miners, 3 keys, the middle one not `.json`, pages of 1, a fault, a signal | every record is eventually mined |
| `file_store` | 3 launches, at most 2 alive, 3 files of which 2 change places between the two orders, a fault, 2 repeats | no file skipped whatever overlaps, but by the two orders; without overlap the store whole, the lease contract kept, one file per fault |
| `case_pipeline` | 5 texts, 5 records, cap 2, TTL 2 of 3 ticks, 5 cases; texts of up to 9 of 3 letters | dropped only with a verdict behind it, never scored twice, every case accounted for, alerts once and in order |
| `alerting` | 3 requests, 2 fingerprints, TTL 1 of 2 ticks, a restart, PagerDuty in mock mode | the cache implements the abstract window, once per window, the mutex given back, no alert swallowed, honest answers |
| `detector` | window 2 of 7 ticks, up to 4 events, 5 updates of the baseline, sigma 2 | variance and baseline agree, window is recent, limit on anomalies |
| `orchestrator` | 3 executions, one death of the alerting task | alerting up for the miner, down when idle, the waiting loop ends |
| `miner_overwrite`, `miner_tenants`, `case_critical` | the first two without faults, the third the instance of `case_pipeline` | the disagreements of section 6 |

The bounds are the smallest at which every interesting case occurs: two miners
are enough for a takeover and a stale writer; three keys and pages of two for a
truncated page, a last page and a poison record behind good ones; one fault for a
repeat, and the theorems cover more. One judged key shows what the last flush, a
crash and an empty flush do to its row; that two judged keys replace one another
is shown by `miner_overwrite`. Three launches of the file store are two
that disturb each other's save and one that then loads the result (two
at most are alive at a time, `MaxAlive`, or the states are too many; the theorems
have no such limit). Its three files are `a.jsonl`, `b.jsonl` and `b/x.jsonl`: the first is
aligned, the other two are not, so both the skip and the unprovoked repeat of
section 6 occur in the instance, next to the faults of an aligned file. The pipeline's
instance exceeds the gate's cap and its TTL; its responses of 24, 30 and 37 words
are near their neighbours only, so nearness is not transitive (an assumption TLC
evaluates), and one record has a failure and a critical finding. In the
detector's instance the baseline lies below, at and above the limit. Three
executions are two that overlap and one that follows. In `alerting` a TTL of one
tick of two has an entry live, exactly expired but not yet collected, and
collected. Symmetry of the processes
is used in `miner`, `table_lease` and `file_store`, none of which checks liveness.
`MaxTime`, `MaxDay`, `MaxAlive`, `MaxFaults`, `MaxSignals`, `MaxRestarts`, `MaxCases`,
`MaxReceived`, `MaxRepeats`, `MaxScale`, `MaxEvents` and `MaxDeaths` bound
counts in guards; no theorem depends on their values. `MaxFile` is the number
of input files, `MaxText` the length of the texts `Repetition` is compared on.

`case_pipeline` also evaluates the assumptions of `Repetition` over all texts of
three letters (one a blank) up to nine long, chunks of two and three repeats: a
chunk that repeats once more than the minimum is found wherever it starts; one
with exactly the minimum may be missed between two multiples of the chunk size;
and repeats with other text in between are found.

Every property of a passing run has a mutant: an operator beside the one it
replaces, marked "Mutated form", under which TLC finds the property violated.

## 4. Fairness

`Miner!Fairness` lets each running process take its next step (a
single-threaded loop that blocks only in calls with timeouts), lets an
unreleased lease lapse (it has an expiry), and lets some launch eventually find
the lease free (EventBridge fires every fifteen minutes, `eventbridge.tf`; each
firing is a launch). Signals, crashes and exceptions are not fair and are
bounded. Without the bound on faults, no progress could be claimed: a miner that
crashes before every commit never moves the cursor.

`Orchestrator!FairSpec` lets Step Functions go on with every execution and the
ECS scheduler with the service. The end of a miner task is not fair (`run()`
polls until it is told to stop), nor are the start of an execution, failing calls
and dying tasks. The number of deaths is bounded; the loop would otherwise wait
for a task that dies each time before it is described.

The other specifications state no fairness: a local miner or a record in the
pipeline makes progress for the same reasons as in `Miner`, and nothing in them
waits for another process. That no request of `Alerting` waits
for ever is checked as the invariant `MutexIsReleased`: the mutex is free or its
holder is between the lock and one of the two unlocks, where nothing can block
it.

## 5. Theorems

Constants are arbitrary under the assumptions stated in the modules: any set of
miners, keys, requests or texts, any TTL, skew, cap and sigma. TLC evaluates the
assumptions in every run.

* **`DynamoLease_proofs`.** `TypeCorrect`, `SingleRunnerAlways`,
  `LockoutIsBounded`, `InForceAlwaysHolds`, `ImplementsLease`,
  `ContractKeepsOneRunner`. `SingleRunner` is not inductive: it does not say that the item still names the miner in force. The inductive invariant
  adds `InForceHolds` (the item carries the owner and the expiry of every miner
  whose lease is in force), `ClockBound` (no clock reading is ahead of the fastest
  clock) and `BoundedLockout`. A takeover needs `expiry < clk[o] <= now + Skew`,
  which contradicts being in force. `ContractKeepsOneRunner` is about the
  contract alone: `LeaseSpec` implies `[]SingleRunner`, from `ContractInv` (a
  running owner that is not overdue is the live holder). So whatever store
  refines `SweepLease` has a single runner, whatever its requests look like.
* **`TableLease_proofs`.** The same, and `MatchingReadIsAlwaysCurrent`, which is
  what makes the split read and write safe: the entity cannot have changed while
  `o \in valid`.
* **`Miner_proofs`.** `TypeCorrect`, `NoSkipAlways`, `SingleRunnerAlways`,
  `ImplementsLease`, `CursorMovesForward`, `OneRepeatPerFaultAlways`,
  `LeavesAlwaysFlushed`.
  `NoSkip` needs `PageInv` (a page lies at or below the listing
  position, and what is about to be committed has been mined) and `CoverInv` (everything at or below the listing
  position and off the page is mined or late). Both hold of overdue miners too,
  so the cursor may move back but never onto a gap. `LeaseInv` ties the item to
  the process in force. The two theorems about runs without overrun need in
  addition `ForwardInv` (a page lies ahead of the cursor) and, for the repeats,
  `RepeatInv`: what has been mined beyond the cursor and is not being committed
  is paid for by a fault. `LeavesFlushed` follows from `BufferInv`: a process that
  is off, between polls or leaving has an empty buffer.
  `RowsLostOnlyByCrashOrReplacement` is an action property and covers every step:
  of the rows in a buffer, an object of the day or the archive, one disappears
  only if its process ends by a fault or at a rejected record, or flushes other
  rows on the same day. A
  crash empties the buffer, which no later sweep fills again; that is the price
  of committing the cursor before the rows, and the theorem says it is the whole
  price besides the overwrite of section 6.
* **`FileStore_proofs`.** `NoSkipAlways` holds of any interleaving, from
  `CoverInv`: every cursor anywhere (the file, the `.tmp`, a draft, the start of a
  poll) has at or below it only mined files and such as the `Path` order puts
  after another one at or below it, so that whatever a lost update brings back is
  true, only older. Within a poll, `PlaceCovered` says that all files after its
  start and before its position in the `Path` order are mined; `CoveredAt` turns
  this into a claim about the cursor that `set` then writes. The exemption is the
  exact price of the two orders: if they agree it is void, and `NoSkip` says that
  every file at or below the cursor is mined.
  `FileIsAlwaysWhole` and `SingleRunnerAlways` are about runs without overlapping
  changes, from `SafeInv`: at most one process is between its load and its
  rename, what it is about to put in place is whole and differs from the file
  only in what its operation changes, and the lease in the file is that of
  whoever mines. `OneFilePerFaultAlways` adds `PlaceInv`, about the aligned
  files: none of them beyond the first after the cursor has been begun, and if that
  one was and every fault has been paid for, some process has it in hand. The cursor
  may go back over files that are not aligned, but never over an aligned one
  (`NextInOrder`). `ImplementsLeaseUnlessOverlap` is the
  refinement: under the same `SafeInv` each step of loading, writing and renaming
  is a step of `SweepLease` (the rename, a lapse, an end) or a stutter, until two
  changes overlap. What the file lacks against the two cloud stores is thus the
  lock and nothing else.
* **`Alerting_proofs`.** `OncePerWindowAlways`, `SuppressedAlwaysHasAdmission`,
  `MutexIsAlwaysReleased` and `AnswerIsAlwaysHonest`, from `MutexInv` (a request
  between lookup and insertion holds its replica's mutex), `ClockInv` (neither a
  clock reading nor an admission is ahead of the clock), `EntryInv` (an entry is
  some admission's time plus the TTL, and an admission of the last TTL has an
  entry at least as late) and `FreshInv` (what was looked up under the mutex still
  holds at the insertion). `OncePerWindow` alone says nothing of the cache, which
  is what decides the next admission. The answer needs `LoopInv`: which channels a
  request has tried at each step of the dispatch loop, that what counts as
  delivered has arrived or is in mock mode, and that a channel in mock mode never
  counts as failed. `AdmitIsAlwaysAtomic` is
  the refinement of `AlertWindow`: `Lock` is the step that answers, since nobody
  else can change what it has read before the mutex is released; `Admit` and
  `Suppress` stutter. `PendingAlone` (at most one request per replica has looked
  and not stored) and `LiveIsCovered` (a live entry and a covering admission are
  the same thing) carry it over the store and the collection.
* **`CasePipeline_proofs`.** For the gate alone: `MemoryIsCapped`,
  `NeverScoredTwiceAlways`, `DroppedAlwaysWasJudged`, from: serial numbers
  increase with time, and what has left the memory is old or has a cap's worth of
  successors. `PipelineIsGate`: the pipeline implements the gate, so the same
  holds of the worker. `CasesAlwaysAccounted`, `AlertedAlwaysOnce` and
  `DroppedAlwaysHasVerdict` need `ProgressInv`, which says where the case in hand
  stands: at the judge it is remembered and has no row yet, at the alert it has
  one and no post; a drop happens at the gate only, when neither is open.
  `CasesOfOneResponseAreNear` is about the real similarity, for words and modes
  of any kind: two cases of one response are near as soon as the response has
  four different shingles per word of the two modes. Words in front of a text add
  at most as many shingles and take none away (`ShinglesOfPrefixed`), so of `D`
  shingles of the response all are common and at most five more are not, and
  `5D >= 4(D + 5)` from `D = 20`. That makes `case_critical` the rule and not a
  coincidence. `SimilarIsSymmetric` is what `CostGate` assumes of nearness.
* **`Detector_proofs`.** `VarianceAlwaysOfBaseline` (the update preserves
  `var = mean * (scale - mean)`), `WindowIsAlwaysRecent`, from `OrderInv` (events
  are in the order of their times) and `HorizonInv` (the horizon is never ahead of
  the clock), and `AnomalyAlwaysNeedsQuietBaseline`: for every sigma, an
  anomalous verdict needs `1 - b >= sigma² b`; `PrimedInv` carries it over the
  warm-up. With the default sigma of 3 no window is anomalous once the baseline
  exceeds one tenth, whatever fails. At the other end,
  `QuietBaselineAlwaysTriggers`: on a baseline of 0 the variance is 0 too, and a
  full window is anomalous exactly if one of its records failed.
  `MoreFailuresStayAnomalous`: the verdict is monotone in the failures.

  The same module proves `detect_repetition`, for texts of any length and any
  sizes of chunk and repeats. `LoopIsAlwaysFound`: one repetition more than the
  minimum is found wherever it starts. A loop has a place within one chunk at
  which a chunk is tried (`NextStart`), from there the minimum still follows
  (`PeriodIsRow`), and `str.count`, which jumps over what it has found, misses none
  of them, because no jump is longer than an occurrence (`CountFindsRow`).
  `FlaggedTextRepeats` is the converse: what is flagged has the minimum of
  occurrences without overlap (`CountedAreApart`). The recursion of `str.count` is
  shown to be well defined (`CountExists`), and the inductions over the text are
  arguments about a least counterexample (`LeastNumber`).
* **`Orchestrator_proofs`.** `IdleIsAlwaysScaledDown`, from `UpForSomebody` (the
  service is wanted up only if an execution is past its first state and will
  scale it down, or one was aborted), and `MinerAlwaysHasAlerting`, from
  `AloneInv` (without overlap at most one execution is active, and once it has
  asked for a task and seen one, the task stays).

Only model-checked: the liveness properties `EveryRecordMined` and
`MinerIsReached` (the prover has no fairness); that a loop of exactly the minimum
may be missed and that scattered repeats are found (`MinimumMayBeMissed`,
`ScatteredIsFound`), which are statements about examples; and where the nearness
of a record's two cases begins exactly (`SameResponseIsNear`). `SingleRunner` of
the Table and file stores and `WithinCap` of the gate have no run of their own:
the first follows from the lease contract, which the runs check, and all three
are proved.

## 6. Where the code and its documentation disagree

Three runs expect a violation; `PROJECT.json` has the quotations.

* `miner_overwrite`: each poll flushes to the same key and replaces what the
  previous poll of that process stored that day (`results.py:38`).
* `miner_tenants`: keys start with the tenant, so one cursor over all tenants is
  not chronological (`sources.py:201`).
* `case_critical`: a critical finding of a record that also failed is a near
  duplicate of that failure, since their gate texts differ in the words of the
  mode only, and is dropped before its severity is looked at (`worker.py:128-143`).

Seen while modelling, with no run of their own:

* The lease is never renewed, so a sweep longer than 900 s shares its records
  with the next launch (`worker.py:258`); `docs/finops-policy.md:59-61` and
  `sources.py:106-108` have the lease prevent it. `Miner`'s `overran` marks it.
* The alert fingerprint ignores severity, so a critical alert after a high one of
  the same mode and tenant reaches no pager (`handler.go:45`).
* `FileCursorStore` is "written atomically" (`sources.py:64`), but the `.tmp` is
  shared and nothing is locked: two overlapping saves can put an empty or mixed
  file into place, lose a lease or a cursor, or fail. A torn file makes every
  later launch raise in `acquire_lease`, and no expiry heals that. For the same
  reason two local miners may both be granted the lease.
* A channel without a URL counts as delivered (`dispatch.go:50-53`). Without
  `PAGERDUTY_EVENTS_URL`, as deployed, no page is ever sent; that is the mock mode
  of `SPEC-005-alerting-and-analytics.md:31-33`. But if the Slack post of a
  critical alert then fails, it is answered 202 naming `pagerduty` while nobody
  has it, instead of the 502 of line 34. `AnswerIsHonest` therefore says that a channel
  named in a 202 has the message *or is in mock mode*.
* `LocalDirSource` polls "in path order, resuming from the durable cursor so
  restarts never re-mine processed files" (`sources.py:158-160`), but sorts `Path`
  objects, part by part, and resumes by comparing strings (`sources.py:169-171`),
  which differ where a character of a name sorts below `/`. `b/x.jsonl` comes
  before `b.jsonl` as a `Path` and after it as a string: a crash when the cursor
  is at `b/x.jsonl` skips `b.jsonl` for ever, and without any fault a poll takes the
  cursor from `b/x.jsonl` back to `b.jsonl`, so the next one mines `b/x.jsonl` a
  second time. `NoSkip` and `OneFilePerFault` exempt just
  these files.
* `LocalDirSource` redelivers the whole file after a fault at its last line
  (`sources.py:178`).
* `detect_repetition` says "back-to-back" and `LOOP_MIN_REPEATS` (`detector.py:46`);
  it counts occurrences anywhere and may miss a loop of exactly that many.
* "A judge never crashes a sweep" (`judge.py:12`), but the rubric is filled in
  before the `try` (`judge.py:93-99`): a prompt that is not a string raises out of
  `score`. Such a record is one of `Miner`'s `Poison`; in `CasePipeline` prompts
  and responses are text.
* The gate looks at neither tenant nor prompt (`worker.py:128`): one tenant's case
  suppresses another's of the same response.
* `run()` ends only on a signal (`worker.py:226`), although
  `docs/finops-policy.md:45-47` has no compute between sweeps.
* A crash between a cursor write and the flush loses judged rows
  (`sources.py:214`, `worker.py:229`).
* A record that cannot be parsed stops every sweep at its key
  (`sources.py:211`).
* The alert cache is per replica and `containerapps.tf:135` runs two.
* After a dispatch that failed on every channel, the fingerprint stays admitted
  and the next fifteen minutes are silent (`handler.go:45`, `67`).
* A lone failure in a quiet window is anomalous, since a variance of zero makes z
  infinite (`detector.py:144-148`), although `detector.py:7-8` has it as "mining
  input".
* Executions of the state machine may overlap, and nothing in it looks at the
  others: one whose miner is refused the lease scales alerting to zero under the
  other one's miner, or while the other waits for a running task, which it then
  does for ever. `step_functions.tf:3-7` has "the miner task never starts until
  alerting is actually running". `MinerHasAlerting` and `MinerIsReached` are
  therefore stated of executions that do not overlap.
* An ECS call that fails outside the miner task aborts the execution and leaves
  alerting up until the next sweep ends (`step_functions.tf:76`).
* Severity is decided behind the gate, so a spike of near-identical failures is
  suppressed before it can be escalated (`worker.py:129-146`).

## 7. Not modelled

* Matching of text: the regular expressions of `SafetyClassifier`, the markers of
  `classify_failure`, tokenising in `shingles`. Which of them a record matches is
  an input; what the code does with the matches is modelled.
* The judge's HTTP request, its token counts and the mock's hash-based scores;
  `BaseJudge.score` is modelled for any reply.
* Input directories that change during a local run: files added behind the
  cursor or grown after they were committed are not read, as in S3.
* The Container Apps job's replica timeout and retry limit: to `Miner` both are
  a signal or a kill and another launch.
* The phases of an ECS task's stop. If an execution scales up while the task of
  the previous one is still being stopped, `describe` may count that task and the
  miner start just before it is gone; executions are fifteen minutes apart and ECS
  gives a stop thirty seconds by default, and which phases `RunningCount` includes
  is not for this repository to say.
* Float rounding in the detector.
* Backend selection, logging, payload formatting, analytics queries, Terraform
  other than the schedule and the sweep state machine, CI: no behaviour that a
  state machine would add to.

## 8. Plan

Every component with state of its own is modelled, and every safety property of a
passing run is proved, as are its action properties and refinements. What a next
step could add:

1. `Detector` inside `CasePipeline` instead of an arbitrary verdict: whether a
   spike of distinct failures is escalated before the baseline has adapted.
2. `Miner` with `CasePipeline` as its step: what of the gate's memory a restart
   loses, and how many judge calls a fault can therefore repeat.
3. Files that appear and grow in `FileStore`, and its liveness once the overlap is
   excluded.
