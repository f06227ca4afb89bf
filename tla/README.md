# TLA+ models of bytewax inputs and the sliding windower

This directory holds TLA+ models of two source files of this repository:

- `src/src/inputs.rs`: the epoch clock, the partitioned input operator with
  its stateful partitions, and the dynamic input operator;
- `src/src/window/sliding_window.rs`: the sliding windower.

Every definition is translated from those files. The few parts that are not
under `src/` are modelled from `spec.md` and marked `spec_modelled` in
`PROJECT.json`: `assign_primaries`, the loads `route`, and the window operator
that calls the windower. `PROJECT.json` maps each definition to the lines it
models. It also lists the runs, the mutants, the findings and the hazards.

## The system

| # | Part | Code | What it does |
|---|------|------|--------------|
| C1 | Epoch clock | `EpochInterval::epochs_per` (inputs.rs:52-65) | Gives the number of epochs, rounded up, in a duration. GC uses it. |
| C2 | Partition registry | `list_parts`, `into_broadcast`, `assign_primaries`, `route` (inputs.rs:237-247) | Every worker reports the partitions it can host. Each partition gets one primary worker. Recovered snapshots ("loads") are routed to that primary. |
| C3 | Partitioned input | `partitioned_input` (inputs.rs:223-528) | One timely operator per worker. It has two inputs: loads and primaries. It has two outputs: items and snapshots. It owns the partitions it is primary for. On every activation it polls each partition behind a backpressure gate, advances the partition's epoch when the interval has elapsed or at EOF, and snapshots just before each advance. |
| C4 | Partition wrappers | `StatefulPartition`, `StatelessPartition` (inputs.rs:530-881) | Wrap the user's Python `next_batch`, `next_awake`, `snapshot` and `close`. |
| C5 | Dynamic input | `dynamic_input` (inputs.rs:646-815) | One partition per worker, with no snapshots and no loads. |
| C6 | Sliding windower | `SlidingWindower` (sliding_window.rs:41-216) | `intersects` works out which windows an item time falls in. `close_times` holds the open windows: `insert` fills it and `drain_closed` empties it. It is snapshotted, and `builder` restores it. |

How the parts interact:

- C3 runs on every worker. The operators talk only through timely:
  - the frontiers of their inputs, which are global per port and seen by each
    worker with a lag;
  - a probe at the end of the dataflow, which is the backpressure signal.
- The primaries arrive at epoch 0 and are applied only once that epoch is
  closed. Loads arrive at their snapshot epoch. Partitions with no load are
  built "cold" at the resume epoch, once the loads input reaches EOF.
- The operator is activated in three cases:
  - by input;
  - by a frontier change;
  - by a timer it requests with `activate_after`, but only after loads EOF.

  Progress of the probe does not activate it.

## Modules

| Module | Models | State and actions |
|--------|--------|-------------------|
| `PartitionEpochs` | What C3 promises per partition key | The abstract specification. Each key goes from `NotBuilt`, to an epoch at or after start_at, to `Finished`. In one step a key may emit items at its current epoch, snapshot that epoch and move to the next one, and finish, but only with a snapshot. Any set of keys may move in one step. |
| `PartitionedInput` | C2 (from the spec), C3 and the results of C4 | See below. |
| `MCPartitionedInput` | Bounds for `PartitionedInput` | 2 workers; key `k1` hosted by worker 0, key `k2` by both. `k1` is resumed by an Upsert load, and `k2`'s Delete load makes it cold. |
| `WindowMath` | C6 `intersects` | Constant operators: `NumMilliseconds` (chrono truncation toward zero), `DivFloor`/`DivCeil` (`num::Integer`), `AsI32` (the `as i32` cast, with `IdxBits` bits), `OpenTime`, `Intersects`. Also `IntersectsRef`, the definition of which windows an item lies in. |
| `IntersectsProbe`, `MCIntersectsProbe` | C6 `intersects` checked | The window configuration ranges over `Windows`, and `Win(c)` instantiates `WindowMath` with it. The item time ranges over `ProbeTimes`. Every state compares the code's `Intersects` with `IntersectsRef`. The inputs of the unit tests are states too. There the model must give what the test asserts: `Intersects` for the tests of `intersects`, and `InsertResult`, `Inserted` and `DrainResult` of `SW`, an instance of `SlidingWindower`, for the tests of `insert` and `drain_closed`. |
| `SlidingWindower`, `MCSlidingWindower` | C6 state | See below. |
| `WindowTests` | The `#[test]` functions of sliding_window.rs | Each test as data: its `SlidingWindow` config (`Sliding`), the call, and the result it asserts. Instants are `Utc.with_ymd_and_hms(2023, 3, 16, h, m, s)` in milliseconds since the start of that day (`Sec`), so `align_to` is 9:00 and not 0. `IntersectsTests` holds the 35 tests of `intersects`. `InsertTest` and `DrainTest` are `test_insert` and `test_drain_closed`. |
| `DynamicInput` | C5 and the results of `StatelessPartition` | Per worker: whether the partition is live, its state (epoch, elapsed, ticks to `next_awake`, batches left), the requested activations, the probe; global pending epochs, abort flag and the epochs each worker polled at. `Activate(w)` is the closure at inputs.rs:724-808: the probe and awake gates (`Polled`), the outcome, the advance inside the poll branch (`Advances`), dropping the partition at EOF and the final `activate_after`/`activate()` (`NextTimers`). Dropping the partition calls `close`: `CloseOutcomes` says whether it raised (only when `CloseMayFail`), and a raise panics the worker (`crashed`). The environment is `ProbeAdvance`, `Downstream`, `Tick`, and `Shutdown`: after an abort the dataflow is torn down and every live partition is dropped (spec 4.3; the teardown is not under `src/`). |
| `EpochClock` | C1 | `EpochsPer`: millisecond truncation, an f64 division, `ceil`, and the saturating cast to u64 (NaN and negatives become 0, +inf becomes `U64Max`). The interval and the duration range over small sets, together with the inputs of the two unit tests `test_epochs_per` and `test_epochs_per_zero` (`EpochsPerTests`, inputs.rs:66-77). |

### PartitionedInput

**Variables.** Per worker:

- the primaries channel, in-buffer and closed flag;
- `primaryParts`;
- the loads channel and the loads frontier the worker has seen;
- the init caps;
- `parts`: epoch, time elapsed in the epoch, ticks until `next_awake`, batches left;
- `activate_after` timers;
- the `notified` flag;
- the probe.

Global:

- the loads source and its capability;
- epochs still pending downstream;
- the abort flag;
- history: snapshots per key in order, item epochs per key, finished keys.

**The operator.** `Activate(w)` is the whole closure at inputs.rs:293-523, steps 1-7 in code order:

1. Drain the primaries.
2. Drain the loads. Each Upsert builds a partition at `EmitEpoch` = max(load epoch, start_at).
3. Apply the primaries once their epoch is closed.
4. At the first loads EOF, build the cold partitions (`ColdInit`, `ColdKeys`) and drop the init caps.
5. Poll every partition that passes `Polled`, both the backpressure gate and the awake gate. Its outcome (Items, Empty, Eof or Abort, with a `next_awake`) is chosen from `Outcomes`. `AfterPoll` and `Advances` give the partition's next state. Each advance snapshots first.
6. Remove the partitions that reached EOF.
7. Request `NextTimers`.

**The environment** is modelled by its own actions:

- `ClosePrimaries`;
- the loads stream: `EmitLoad`, `AdvanceLoads`, `LoadsDone`;
- frontier propagation, `SeeLoads`. The loads stream waits for the primaries only through the route's own copy of them. The operator's own primaries input is a separate Pipeline edge (inputs.rs:253), and the comment at inputs.rs:373-379 says nothing synchronizes it with loads EOF. The constant `LoadsEofAfterPrimaries` makes this explicit: TRUE assumes a worker sees loads EOF only after its primaries frontier closed, and FALSE lets the two changes arrive in either order;
- `ProbeAdvance`, bounded by the true frontier and by the worker's own view of its inputs;
- `Downstream`;
- `Tick`, which is wall-clock time.

**Time** is kept relative to now:

- `elapsed` is capped at the epoch interval;
- `awake` and the timers count down the ticks that remain.

**Bounded sources.** Each partition has `MaxBatches` polls. The last poll must return EOF.

**Refinement.** `PE == INSTANCE PartitionEpochs WITH ...` maps the operator, over all workers, to the abstract specification:

- a key's abstract `epoch` is `Finished` once the key is in `finished`;
- otherwise it is the epoch of its partition on the worker that hosts it;
- otherwise it is `NotBuilt`;
- `snaps` and `items` are the snapshot log and the item epochs.

`ImplementsPartitionEpochs == PE!Spec` is checked as a PROPERTY. A partition built twice breaks it. So does a build before start_at, an item at an epoch other than the current one, an epoch that moves without its snapshot, or an EOF without its final snapshot. The `AfterPollNoDowngrade` mutant moves no epoch after a snapshot, and TLC finds the property violated. The `LoadsAtResume` configuration violates it too: there the rebuilt partition is a second build.

### SlidingWindower

**Variables:**

- `closeTimes`;
- the caller's watermark;
- history: the keys drained (`closed`);
- the last snapshot.

**Actions:**

- `Insert(t)` is `insert`, with `insert_window`'s assert as a guard. `OnTime`, `InsertResult` (the Late and Ok keys it returns) and `Inserted` (close_times afterwards) are its parts.
- `DrainClosed` is `drain_closed`. `Drained` and `DrainResult` (the windows it returns) are its parts.
- `Snapshot` is `snapshot`.
- `Restart` resumes with `Resume`, the builder's resume path. The watermark resumes at or above the snapshot's. TLC finds no state after `Restart` that was not already reachable without it. The restored state is exactly the snapshotted one, which is the round trip spec section 8 asks for. The `ResumeFresh` mutant shows that a builder that drops the snapshot is caught.
- `AdvanceWatermark` is the caller.

## Runs

| Run | Checks | Shows |
|-----|--------|-------|
| `partitioned_input` (pass, about 101k states) | `TypeOK`, `SnapshotOncePerEpoch`, `EpochBackpressure`, `ItemsCoveredBySnapshot`, `Termination`, `ImplementsPartitionEpochs` | Holds with resumed and cold partitions, a partition shared by two workers, probe lag and timers, assuming `LoadsEofAfterPrimaries`. The operator refines `PartitionEpochs`. |
| `partitioned_primaries_race` (violation) | `PrimariesBuilt` | Without `LoadsEofAfterPrimaries`, a worker can read its primaries, see loads EOF before its primaries frontier closes, and run cold init with the primaries still in the in-buffer. It drops its init caps, and its primary partition that had no load is never built. |
| `partitioned_loads_at_resume` (violation) | `SnapshotOncePerEpoch` | The loads capability may reach start_at before loads EOF. A resumed partition then reaches EOF, is removed, and is rebuilt cold at start_at, giving a second snapshot at start_at. |
| `windower_overlap`, `windower_gapped` (pass) | `ClosedNeverReopened` | Hold for overlapping windows (length 5, offset 2) and for gapped windows (length 2, offset 3) under every order of insert, drain, snapshot and restart. |
| `intersects` (pass) | `IntersectsCorrect`, `IntersectsMatchesTests`, `WindowerMatchesTests` | `intersects` is exact for whole-millisecond times from -60 to 60 ms, at window edges and in gaps, for an overlapping and a gapped configuration. The model also agrees with every unit test of sliding_window.rs. |
| `intersects_sub_ms` (violation) | `IntersectsCorrect` | A sub-millisecond item time before align_to + length misses its earliest window. |
| `intersects_idx_wrap` (violation) | `IntersectsCorrect` | A window index past the range of the i32 cast yields wrong windows. |
| `dynamic_input` (pass, about 231k states) | `TypeOK`, `EpochBackpressure`, `Termination` | Two workers with finite sources whose `close` succeeds: no worker runs more than one epoch ahead of the oldest open epoch, and both partitions eventually reach EOF or are torn down after an abort. |
| `dynamic_close_error` (violation) | `CloseErrorsNotPropagated` | A `close` that raises when the partition is dropped panics the worker. `StatelessPartition::close` propagates the error with `?` (inputs.rs:870), and `Drop` unwraps it. The spec says close errors are reported but not propagated. |
| `epochs_per` (pass) | `EpochsPerIsCeiling`, `EpochsPerMatchesTests` | epochs_per is the ceiling for whole-millisecond values, and the model gives what the two unit tests assert (12 s in 5 s epochs is 3, 0 s is 0). |
| `epochs_per_sub_ms` (violation) | `EpochsPerIsCeiling` | Sub-millisecond values give 0 for a non-zero duration, and u64::MAX for an interval under 1 ms. |

### What the properties say

- **SnapshotOncePerEpoch.** The snapshots of each key have strictly increasing epochs. This holds across resume, cold init, EOF and removal.
- **EpochBackpressure.** No partition is more than one epoch past the oldest epoch not yet finished downstream. This is the point of the probe gate.
- **ItemsCoveredBySnapshot.** Each epoch in which a partition emitted items is followed by a snapshot at that epoch once it advances or reaches EOF. This is the reason for the EOF-forced advance.
- **PrimariesBuilt.** Once cold init has run, every primary partition of the worker has been built. It is checked only where `LoadsEofAfterPrimaries` is FALSE; with TRUE it would only check that step 3 precedes step 4.
- **Termination.** Every partition eventually reaches EOF and is removed, and the init caps are dropped. This depends on the `activate_after` of step 7. Its "every partition is built" half also depends on `LoadsEofAfterPrimaries`.
- **ImplementsPartitionEpochs.** The refinement described above.
- **CloseErrorsNotPropagated** (dynamic input). No close error brings a worker down, at EOF or at teardown.
- **Termination** (dynamic input). Every partition reaches EOF or is torn down. The operator has no inputs, so this depends on the `activate()`/`activate_after` at the end of each activation.
- **IntersectsMatchesTests**, **WindowerMatchesTests.** The model's `intersects`, `insert` and `drain_closed` give what the 37 unit tests of sliding_window.rs assert. This validates the model against the code's own behaviour. The unit tests never place a close time exactly at the watermark, so they cannot tell `<` from `<=` there; `ClosedNeverReopened` covers that boundary.
- **ClosedNeverReopened.** insert's lateness test and drain_closed's closedness test agree at the boundary.

The resume epoch is bounded by `TypeOK`'s epoch range in both input modules: its mutants drop the max at inputs.rs:312 and the downgrade at 711-712. The dynamic input's rule of advancing only inside the poll branch (780-789) is caught by `EpochBackpressure`.

Every property of a passing run has a mutant in `PROJECT.json`: a plausible bug in the mapped code that TLC finds the property violated under.

## Bounds and why they are enough

**PartitionedInput.**

- Two workers and two keys. One key is hosted by both workers, so the assignment matters.
- One Upsert load and one Delete load, covering the resumed path and the cold path.
- `StartAt` = 2, so a resume epoch is above the load epoch.
- `MaxBatches` = 2 and `EpochInterval` = 2, so epochs advance both by time and by EOF. A partition can also be polled more than once in one epoch, across a tick, while a partition on the other worker advances.
- `Cooldown` = 1 and one `next_awake` delay, so the awake gate and the timers matter.
- `LoadsCapMax` bounds how far the loads capability may advance before it is done. Setting it to 1 keeps it below start_at, which the main run assumes. Setting it to 2 reaches the finding.

**DynamicInput.** Two workers, `StartAt` = 1, `EpochInterval` = 2 and `MaxBatches` = 3, so a partition can run up to three epochs and backpressure between workers, the awake gate, time-driven advances and EOF all happen. `CloseMayFail` is FALSE in the passing run and TRUE in `dynamic_close_error`.

**Windower.**

- Three or four item times, on both sides of align_to and at edges.
- Watermarks equal to close times, so the late/closed boundary is exercised.

**Intersects.** Every integer time from -60 to 60 ms, which is many periods of each window configuration. The unit tests add their own inputs: five window configurations of 10 s length (offset 5, 3, 7, 10 and 13 s) at times from 8:59:47 to 9:00:23, in milliseconds since midnight. These stay below TLC's 2^31 limit.

**The i32 cast.** It is modelled with `IdxBits` bits:

- 16 in the passing runs, because TLC's integers are 32-bit and indexes stay small there;
- 3 in the wrap run, which stands for 32 bits at indexes past 2^31 - 1.

## Fairness

`PartitionedInput` and `DynamicInput` assume weak fairness of:

- each worker's activation: timely runs an operator that is scheduled;
- the runtime actions: frontier propagation, probe progress, downstream progress, the loads stream, and the teardown after an abort (the dataflow root checks the abort flag on every step);
- `Tick`: wall-clock time passes.

The operator's own progress is not assumed. It has to come from its notifications and from the timers it requests.

The windower and probe modules check only safety.

## Not modelled

- **`StatefulPartition::close`.** It discards the error of the user's `close` (inputs.rs:594-597). Removing a stateful partition therefore has no failure branch in `PartitionedInput`. The spec also says the error is reported, which the code does not do; no property is about reporting.
- **Teardown of the partitioned input after an abort.** No property of `PartitionedInput` depends on it. After `AbortExecution` the partition stays live and may still snapshot and advance in the same activation (inputs.rs:452-474); the model keeps this, and the snapshot and refinement properties hold through it.
- **Errors from user code other than `AbortExecution` and `StopIteration`.** An error from `next_batch`, `next_awake`, `snapshot` or `build_part` panics the worker through `unwrap_any` (inputs.rs:424), possibly after other partitions emitted in the same activation. What survives is decided by the recovery store's commit of the epoch, which is not under `src/`, so no property can say what must hold afterwards.
- **Python type checks, metrics and tracing.**
- **`get_metadata`, `is_empty` and `next_close` of the windower.** They are read-only.
- **Several loads for one key.** They are assumed not to occur.
- **The assert in `insert_window` (sliding_window.rs:143).** Every entry for a key comes from the same `OpenTime` expression, so it cannot trip. A failed assert would disable `Insert`.
- **A property about the windower's restore on its own.** The restore is one assignment (sliding_window.rs:88-90), and the caller's state rolls back with it. An invariant over the windower alone would hold by construction. A lost window would cost an emission by the window operator, which is not under `src/`.
- **Spec section 8's count claim.** It says an item lies in exactly ceil(length/offset) windows when offset <= length. With length 5 and offset 2, some times lie in only 2 of the 3 candidates. The code filters them correctly (`IntersectsCorrect` holds), so only the spec's wording is wrong, and no run is spent on it.
- **f64 precision in epochs_per beyond 2^53 ms.**

## Plan for later work

1. A `PartitionedInput` instance with three keys or three workers, if TLC's time allows. With `EpochInterval` = 2 the run already takes about 1.5 minutes.
2. The window operator that calls the windower, and its use of `next_close`, are neither under `src/` nor described in `spec.md`. A liveness property about draining would need that operator, so it is left out rather than invented.
