-------------------------- MODULE PartitionedInput --------------------------
(***************************************************************************)
(* The partitioned input operator of src/src/inputs.rs                     *)
(* (FixedPartitionedSource::partitioned_input), one instance per worker,   *)
(* together with the parts of the timely runtime it talks to: the          *)
(* primaries stream (assign_primaries), the routed loads stream of         *)
(* recovered snapshots, each worker's local view of the input frontiers,   *)
(* the downstream probe and the operator activator.                        *)
(*                                                                         *)
(* One activation of the operator (the closure at inputs.rs:293-523) is   *)
(* one atomic step: the operator runs to completion on each activation.   *)
(* Wall-clock time is abstracted to counters relative to "now": the time   *)
(* elapsed since a partition's epoch started (capped at EpochInterval) and *)
(* the time remaining until its next_awake, both moved by Tick.            *)
(* Items are not modelled one by one: what matters is at which epoch a     *)
(* partition emitted items and at which epochs it emitted snapshots.       *)
(***************************************************************************)
EXTENDS Integers, SequencesExt, TLC

CONSTANTS
  Workers,       \* worker indices 0..n-1 (WorkerIndex)
  Keys,          \* partition keys (StateKey)
  ListParts,     \* [Workers -> SUBSET Keys]: what list_parts returns per worker
  Hash,          \* [Keys -> Nat]: the key hash used to pick a primary
  StartAt,       \* the resume epoch (ResumeEpoch)
  Loads,         \* recovered snapshots: records [key, change, epoch]
  LoadsCapMax,   \* highest epoch the loads stream's frontier reaches before EOF
  EpochInterval, \* epoch length, in ticks
  Cooldown,      \* DEFAULT_COOLDOWN, in ticks
  AwakeDelays,   \* next_awake values a source may return, as ticks after now
  MaxBatches,    \* next_batch calls a partition answers before it is EOF
  NoAwake,       \* model value: next_awake is None
  NotBuilt,      \* model value: a key with no partition built yet
  Finished,      \* model value: a key whose partition was EOF'd
  LoadsEofAfterPrimaries \* environment assumption: a worker sees loads EOF
                         \* only after its primaries frontier closed

ASSUME Workers = 0 .. (Cardinality(Workers) - 1)
ASSUME Loads \subseteq [key : Keys, change : {"Upsert", "Delete"}, epoch : Nat]
ASSUME \A l1, l2 \in Loads : l1.key = l2.key => l1 = l2
ASSUME LoadsCapMax \in 0 .. StartAt
ASSUME EpochInterval \in Nat \ {0} /\ Cooldown \in Nat \ {0}
ASSUME AwakeDelays \subseteq Nat /\ MaxBatches \in Nat
ASSUME LoadsEofAfterPrimaries \in BOOLEAN

VARIABLES
  primChan,      \* [Workers -> pairs <<key, worker>>] sent, not yet read
  primInbuf,     \* primaries_inbuf: pairs read, epoch not yet closed
  primClosed,    \* the worker's view: primaries frontier closed
  primaryParts,  \* primary_parts
  loadsSrc,      \* loads the recovery stream has not emitted yet
  loadsHold,     \* epoch of the loads stream's own capability
  loadsSrcDone,  \* the loads stream dropped its capability
  loadsChan,     \* [Workers -> loads routed to the worker, not yet read]
  loadsView,     \* the worker's view of the loads frontier (Top = EOF)
  initCaps,      \* init_caps is Some (both held at StartAt)
  parts,         \* parts: [Workers -> [hosted keys -> part state]]
  timers,        \* pending activate_after delays, in ticks from now
  notified,      \* input data or a frontier change will activate the worker
  probe,         \* the worker's view of the probe frontier
  pending,       \* epochs of items/snapshots not yet processed downstream
  abort,         \* the shared abort flag
  snapLog,       \* history: [Keys -> Seq(epoch)] snapshots emitted
  itemEpochs,    \* history: [Keys -> SUBSET epoch] epochs items were emitted at
  finished       \* history: keys whose partition was EOF'd and removed

vars == <<primChan, primInbuf, primClosed, primaryParts, loadsSrc, loadsHold,
          loadsSrcDone, loadsChan, loadsView, initCaps, parts, timers,
          notified, probe, pending, abort, snapLog, itemEpochs, finished>>

(* Epochs reachable: MaxBatches advances and one on EOF. Top stands for    *)
(* an empty frontier (EOF).                                                *)
Top == StartAt + MaxBatches + 2
Epochs == 0 .. Top

AllParts == UNION {ListParts[w] : w \in Workers}

(***************************************************************************)
(* assign_primaries (recovery code, modelled from spec 4.2): the hash     *)
(* target if it reported the key, else the lowest reporting worker.       *)
(***************************************************************************)
Primary(k) ==
  LET reporters == {w \in Workers : k \in ListParts[w]}
      target == Hash[k] % Cardinality(Workers)
  IN IF target \in reporters THEN target ELSE Min(reporters)

Assignment == {<<k, Primary(k)>> : k \in AllParts}

(* next_awake() results: None, or a time `d` ticks after now.             *)
UserAwake == {NoAwake} \cup AwakeDelays

(* next_batch results: a non-empty batch, an empty one, StopIteration     *)
(* (Eof) or AbortExecution; with a Batch, what next_awake() then returns. *)
Outcomes == [kind : {"Items", "Empty", "Eof", "Abort"}, awake : UserAwake]

(* Ticks until a next_awake or activate_after is due.                    *)
Delays == 0 .. Max(AwakeDelays \cup {Cooldown})

(* A partition's state; every partition is built at start_at or later. *)
PartState == [epoch : StartAt .. Top, elapsed : 0 .. EpochInterval,
              awake : {NoAwake} \cup Delays, left : 0 .. MaxBatches]

(* A freshly built PartitionedPartState: epoch_started = now.             *)
NewPart(epoch, awake) ==
  [epoch |-> epoch, elapsed |-> 0, awake |-> awake, left |-> MaxBatches]

(* PartitionedPartState::awake_due                                        *)
AwakeDue(st) == st.awake = NoAwake \/ st.awake = 0

(* default_next_awake: an explicit time is obeyed; otherwise re-awake     *)
(* now after a non-empty batch, after the cooldown after an empty one.    *)
DefaultNextAwake(res, nonEmpty) ==
  IF res # NoAwake THEN res
  ELSE IF nonEmpty THEN NoAwake ELSE Cooldown

(***************************************************************************)
(* Frontiers. The loads frontier is global (timely aggregates progress of *)
(* a port over all workers): the lowest epoch of a load not yet read, or  *)
(* of the loads stream's capability, and 0 while the primaries, which the *)
(* route waits for, are still in flight.                                  *)
(***************************************************************************)
PrimariesDone == \A w \in Workers : primChan[w] = {}

LoadsFrontier ==
  LET held == {l.epoch : l \in loadsSrc \cup UNION {loadsChan[w] : w \in Workers}}
              \cup (IF loadsSrcDone THEN {} ELSE {loadsHold})
              \cup (IF PrimariesDone THEN {} ELSE {0})
  IN IF held = {} THEN Top ELSE Min(held)

(* The frontier the probe at the end of the dataflow can reach: every     *)
(* capability of every worker's partitions and init caps, every epoch     *)
(* still being processed downstream, and the operator's inputs, which     *)
(* are connected to both outputs.                                         *)
TrueFrontier ==
  Min({Top, LoadsFrontier}
      \cup UNION {{parts[w][k].epoch : k \in DOMAIN parts[w]} : w \in Workers}
      \cup {StartAt : w \in {v \in Workers : initCaps[v]}}
      \cup pending)

(* The scheduler runs the operator when input or a frontier change       *)
(* arrived, or when an activate_after delay has run out.                  *)
Due(w) == notified[w] \/ 0 \in timers[w]

(***************************************************************************)
(* Helpers of one activation.                                              *)
(***************************************************************************)

(* Mutant: resumed partitions start at the load's own epoch.             *)
EmitEpochLoad(l) == l.epoch

(* Resumed partitions start at max(load_epoch, start_at): a snapshot may  *)
(* be older than the resume epoch.                                        *)
EmitEpoch(l) == Max({l.epoch, StartAt})

(* Mutant: the backpressure gate is dropped.                             *)
PolledNoBackpressure(w, st) == AwakeDue(st)

(* Backpressure gate and awake gate of the poll loop.                     *)
Polled(w, st) == ~(probe[w] < st.epoch) /\ AwakeDue(st)

(* Mutant: EOF does not force the final advance and snapshot.            *)
AdvancesNoEof(st, o) == st.elapsed >= EpochInterval

(* The epoch advances when the interval has elapsed or on EOF.            *)
Advances(st, o) == st.elapsed >= EpochInterval \/ o.kind = "Eof"

(* Mutant: the capabilities are not downgraded after the snapshot.       *)
AfterPollNoDowngrade(st, o) ==
  [epoch   |-> st.epoch,
   elapsed |-> IF Advances(st, o) THEN 0 ELSE st.elapsed,
   awake   |-> IF o.kind \in {"Items", "Empty"}
               THEN DefaultNextAwake(o.awake, o.kind = "Items")
               ELSE st.awake,
   left    |-> st.left - 1]

(* The state of a polled partition that did not reach EOF.               *)
AfterPoll(st, o) ==
  [epoch   |-> IF Advances(st, o) THEN st.epoch + 1 ELSE st.epoch,
   elapsed |-> IF Advances(st, o) THEN 0 ELSE st.elapsed,
   awake   |-> IF o.kind \in {"Items", "Empty"}
               THEN DefaultNextAwake(o.awake, o.kind = "Items")
               ELSE st.awake,
   left    |-> st.left - 1]

(* Mutant: the activate_after of step 7 is never requested.               *)
NextTimersNever(w, ps) == timers[w] \ {0}

(* Step 7: activate after the earliest next_awake (None counts as now),   *)
(* but only once the loads input is EOF and partitions remain. The       *)
(* delay that fired this activation is used up.                           *)
NextTimers(w, ps) ==
  LET rest == timers[w] \ {0}
  IN IF loadsView[w] # Top \/ DOMAIN ps = {} THEN rest
     ELSE rest \cup {Min({IF ps[k].awake = NoAwake THEN 0 ELSE ps[k].awake
                          : k \in DOMAIN ps})}

(* Step 4 happens once, in the first activation that sees loads EOF.     *)
ColdInit(w) == loadsView[w] = Top /\ initCaps[w]

(* The primaries this worker hosts that are not yet in `parts`.           *)
ColdKeys(w, pp, resumedKeys) ==
  IF ColdInit(w) THEN pp \ (resumedKeys \cup DOMAIN parts[w]) ELSE {}

(***************************************************************************)
(* One activation of worker w's operator, steps 1-7 in code order.        *)
(***************************************************************************)
Activate(w) ==
  LET \* 1. read the primaries input into the in-buffer
      inbuf == primInbuf[w] \cup primChan[w]
      \* 2. read the loads input; every Upsert is (re)built
      resumed == {l \in loadsChan[w] : l.change = "Upsert"}
      resumedKeys == {l.key : l \in resumed}
      \* 3. apply the primaries once their epoch is closed
      pp == IF primClosed[w]
            THEN primaryParts[w] \cup {q[1] : q \in {p \in inbuf : p[2] = w}}
            ELSE primaryParts[w]
      \* 4. at loads EOF build the primaries that had no load, drop init caps
      coldInit == ColdInit(w)
      coldKeys == ColdKeys(w, pp, resumedKeys)
  IN
  /\ Due(w)
  /\ \E buildAwake \in [resumedKeys \cup coldKeys -> UserAwake] :
     LET parts2 == [k \in resumedKeys |->
                     NewPart(EmitEpoch(CHOOSE l \in resumed : l.key = k), buildAwake[k])]
                   @@ [k \in coldKeys |-> NewPart(StartAt, buildAwake[k])]
                   @@ parts[w]
         \* 5. poll every partition that is not backpressured and is due
         polledKeys == {k \in DOMAIN parts2 : Polled(w, parts2[k])}
     IN
     \E out \in [polledKeys -> Outcomes] :
       LET eofd    == {k \in polledKeys : out[k].kind = "Eof"}
           emitted == {k \in polledKeys : out[k].kind = "Items"}
           snapped == {k \in polledKeys : Advances(parts2[k], out[k])}
           \* 6. remove the EOF'd partitions
           parts3  == [k \in DOMAIN parts2 \ eofd |->
                        IF k \in polledKeys THEN AfterPoll(parts2[k], out[k])
                        ELSE parts2[k]]
       IN
       /\ \A k \in polledKeys : parts2[k].left = 0 => out[k].kind = "Eof"
       /\ primChan' = [primChan EXCEPT ![w] = {}]
       /\ primInbuf' = [primInbuf EXCEPT ![w] = IF primClosed[w] THEN {} ELSE inbuf]
       /\ primaryParts' = [primaryParts EXCEPT ![w] = pp]
       /\ loadsChan' = [loadsChan EXCEPT ![w] = {}]
       /\ initCaps' = [initCaps EXCEPT ![w] = @ /\ ~coldInit]
       /\ parts' = [parts EXCEPT ![w] = parts3]
       /\ timers' = [timers EXCEPT ![w] = NextTimers(w, parts3)]
       /\ notified' = [notified EXCEPT ![w] = FALSE]
       /\ pending' = pending \cup {parts2[k].epoch : k \in emitted \cup snapped}
       /\ abort' = (abort \/ \E k \in polledKeys : out[k].kind = "Abort")
       /\ snapLog' = [k \in Keys |-> IF k \in snapped
                                     THEN Append(snapLog[k], parts2[k].epoch)
                                     ELSE snapLog[k]]
       /\ itemEpochs' = [k \in Keys |-> IF k \in emitted
                                        THEN itemEpochs[k] \cup {parts2[k].epoch}
                                        ELSE itemEpochs[k]]
       /\ finished' = finished \cup eofd
       /\ UNCHANGED <<loadsSrc, loadsHold, loadsSrcDone, loadsView, primClosed, probe>>

(***************************************************************************)
(* The runtime around the operator.                                        *)
(***************************************************************************)

(* The primaries frontier closes once every worker's operator has read    *)
(* its primaries; the change activates the operator.                      *)
ClosePrimaries(w) ==
  /\ PrimariesDone
  /\ ~primClosed[w]
  /\ primClosed' = [primClosed EXCEPT ![w] = TRUE]
  /\ notified' = [notified EXCEPT ![w] = TRUE]
  /\ UNCHANGED <<primChan, primInbuf, primaryParts, loadsSrc, loadsHold,
                 loadsSrcDone, loadsChan, loadsView, initCaps, parts, timers,
                 probe, pending, abort, snapLog, itemEpochs, finished>>

(* The loads stream emits a recovered snapshot at its epoch; the route    *)
(* sends it to the key's primary once the primaries are known.            *)
EmitLoad(l) ==
  /\ l \in loadsSrc
  /\ loadsHold <= l.epoch
  /\ PrimariesDone
  /\ loadsSrc' = loadsSrc \ {l}
  /\ loadsChan' = [loadsChan EXCEPT ![Primary(l.key)] = @ \cup {l}]
  /\ notified' = [notified EXCEPT ![Primary(l.key)] = TRUE]
  /\ UNCHANGED <<primChan, primInbuf, primClosed, primaryParts, loadsHold,
                 loadsSrcDone, loadsView, initCaps, parts, timers, probe,
                 pending, abort, snapLog, itemEpochs, finished>>

(* The loads stream downgrades its capability, never past a load it has   *)
(* still to emit, and never past LoadsCapMax.                             *)
AdvanceLoads ==
  /\ ~loadsSrcDone
  /\ loadsHold < LoadsCapMax
  /\ \A l \in loadsSrc : loadsHold + 1 <= l.epoch
  /\ loadsHold' = loadsHold + 1
  /\ UNCHANGED <<primChan, primInbuf, primClosed, primaryParts, loadsSrc,
                 loadsSrcDone, loadsChan, loadsView, initCaps, parts, timers,
                 notified, probe, pending, abort, snapLog, itemEpochs, finished>>

(* The loads stream has emitted everything and drops its capability.      *)
LoadsDone ==
  /\ ~loadsSrcDone
  /\ loadsSrc = {}
  /\ loadsSrcDone' = TRUE
  /\ UNCHANGED <<primChan, primInbuf, primClosed, primaryParts, loadsSrc,
                 loadsHold, loadsChan, loadsView, initCaps, parts, timers,
                 notified, probe, pending, abort, snapLog, itemEpochs, finished>>

(* Worker w learns the current loads frontier, which activates the        *)
(* operator. The loads stream waits for the primaries only through the    *)
(* route's own copy of them (LoadsFrontier); the operator's Pipeline      *)
(* primaries input (inputs.rs:253) is a separate edge whose frontier      *)
(* nothing orders against the loads frontier (the comment at              *)
(* inputs.rs:373-379). LoadsEofAfterPrimaries = TRUE assumes that order;   *)
(* FALSE lets the two frontier changes reach the worker in either order.  *)
SeeLoads(w) ==
  /\ loadsView[w] # LoadsFrontier
  /\ LoadsEofAfterPrimaries /\ LoadsFrontier = Top => primClosed[w]
  /\ loadsView' = [loadsView EXCEPT ![w] = LoadsFrontier]
  /\ notified' = [notified EXCEPT ![w] = TRUE]
  /\ UNCHANGED <<primChan, primInbuf, primClosed, primaryParts, loadsSrc,
                 loadsHold, loadsSrcDone, loadsChan, initCaps, parts, timers,
                 probe, pending, abort, snapLog, itemEpochs, finished>>

(* Worker w's probe catches up, never past the true frontier nor past     *)
(* what w itself knows of its input frontiers. This does not activate    *)
(* the operator.                                                          *)
ProbeAdvance(w) ==
  LET bound == Min({TrueFrontier, loadsView[w]}
                   \cup (IF primClosed[w] THEN {} ELSE {0}))
  IN /\ probe[w] < bound
     /\ \E p \in probe[w] + 1 .. bound : probe' = [probe EXCEPT ![w] = p]
     /\ UNCHANGED <<primChan, primInbuf, primClosed, primaryParts, loadsSrc,
                    loadsHold, loadsSrcDone, loadsChan, loadsView, initCaps,
                    parts, timers, notified, pending, abort, snapLog,
                    itemEpochs, finished>>

(* Downstream operators (and the snapshot writer) finish epoch e's data.  *)
Downstream(e) ==
  /\ e \in pending
  /\ pending' = pending \ {e}
  /\ UNCHANGED <<primChan, primInbuf, primClosed, primaryParts, loadsSrc,
                 loadsHold, loadsSrcDone, loadsChan, loadsView, initCaps,
                 parts, timers, notified, probe, abort, snapLog, itemEpochs,
                 finished>>

(* Wall-clock time passes: every epoch gets older, every next_awake and   *)
(* activate_after delay gets nearer. Time always passes.                  *)
Tick ==
  /\ timers' = [w \in Workers |-> {Max({t - 1, 0}) : t \in timers[w]}]
  /\ parts' = [w \in Workers |-> [k \in DOMAIN parts[w] |->
                 [parts[w][k] EXCEPT
                    !.elapsed = Min({@ + 1, EpochInterval}),
                    !.awake = IF @ = NoAwake THEN @ ELSE Max({@ - 1, 0})]]]
  /\ UNCHANGED <<primChan, primInbuf, primClosed, primaryParts, loadsSrc,
                 loadsHold, loadsSrcDone, loadsChan, loadsView, initCaps,
                 notified, probe, pending, abort, snapLog, itemEpochs,
                 finished>>

(***************************************************************************)
(* Specification.                                                          *)
(***************************************************************************)

(* Every worker's assign_primaries has produced the whole assignment; the *)
(* operator was just built: both init caps held at start_at, and it will  *)
(* be activated once.                                                     *)
Init ==
  /\ primChan = [w \in Workers |-> Assignment]
  /\ primInbuf = [w \in Workers |-> {}]
  /\ primClosed = [w \in Workers |-> FALSE]
  /\ primaryParts = [w \in Workers |-> {}]
  /\ loadsSrc = Loads
  /\ loadsHold = 0
  /\ loadsSrcDone = FALSE
  /\ loadsChan = [w \in Workers |-> {}]
  /\ loadsView = [w \in Workers |-> 0]
  /\ initCaps = [w \in Workers |-> TRUE]
  /\ parts = [w \in Workers |-> <<>>]
  /\ timers = [w \in Workers |-> {}]
  /\ notified = [w \in Workers |-> TRUE]
  /\ probe = [w \in Workers |-> 0]
  /\ pending = {}
  /\ abort = FALSE
  /\ snapLog = [k \in Keys |-> <<>>]
  /\ itemEpochs = [k \in Keys |-> {}]
  /\ finished = {}

Next ==
  \/ \E w \in Workers : Activate(w)
  \/ \E w \in Workers : ClosePrimaries(w)
  \/ \E l \in Loads : EmitLoad(l)
  \/ AdvanceLoads
  \/ LoadsDone
  \/ \E w \in Workers : SeeLoads(w)
  \/ \E w \in Workers : ProbeAdvance(w)
  \/ \E e \in Epochs : Downstream(e)
  \/ Tick

(* The timely scheduler runs every due operator, delivers messages and    *)
(* progress, and downstream operators keep running; time passes. The     *)
(* user source gets no fairness: MaxBatches bounds it instead.            *)
Fairness ==
  /\ \A w \in Workers : WF_vars(Activate(w))
  /\ \A w \in Workers : WF_vars(ClosePrimaries(w))
  /\ WF_vars(\E l \in Loads : EmitLoad(l))
  /\ WF_vars(LoadsDone)
  /\ \A w \in Workers : WF_vars(SeeLoads(w))
  /\ \A w \in Workers : WF_vars(ProbeAdvance(w))
  /\ \A e \in Epochs : WF_vars(Downstream(e))
  /\ WF_vars(Tick)

Spec == Init /\ [][Next]_vars /\ Fairness

(***************************************************************************)
(* Properties.                                                             *)
(***************************************************************************)

TypeOK ==
  /\ primChan \in [Workers -> SUBSET (AllParts \X Workers)]
  /\ primInbuf \in [Workers -> SUBSET (AllParts \X Workers)]
  /\ primClosed \in [Workers -> BOOLEAN]
  /\ primaryParts \in [Workers -> SUBSET AllParts]
  /\ loadsSrc \subseteq Loads
  /\ loadsHold \in 0 .. LoadsCapMax
  /\ loadsSrcDone \in BOOLEAN
  /\ loadsChan \in [Workers -> SUBSET Loads]
  /\ loadsView \in [Workers -> Epochs]
  /\ initCaps \in [Workers -> BOOLEAN]
  /\ \A w \in Workers : parts[w] \in [DOMAIN parts[w] -> PartState]
  /\ timers \in [Workers -> SUBSET Delays]
  /\ notified \in [Workers -> BOOLEAN]
  /\ probe \in [Workers -> Epochs]
  /\ pending \subseteq Epochs
  /\ abort \in BOOLEAN
  /\ snapLog \in [Keys -> Seq(Epochs)]
  /\ itemEpochs \in [Keys -> SUBSET Epochs]
  /\ finished \subseteq AllParts


(* Exactly-once snapshots: each partition emits at most one snapshot per  *)
(* epoch and in increasing epoch order (inputs.rs:474-496), across resume *)
(* from loads, cold initialization at loads EOF, EOF and removal.        *)
SnapshotOncePerEpoch ==
  \A k \in Keys : \A i \in 1 .. Len(snapLog[k]) - 1 :
    snapLog[k][i] < snapLog[k][i + 1]

(* Backpressure (the probe gate at inputs.rs:421): no partition on any    *)
(* worker runs more than one epoch ahead of the oldest epoch that some    *)
(* capability still holds or that downstream has not finished.           *)
OldestOpenEpoch ==
  Min({Top} \cup pending
      \cup UNION {{parts[w][k].epoch : k \in DOMAIN parts[w]} : w \in Workers}
      \cup {StartAt : w \in {v \in Workers : initCaps[v]}})

EpochBackpressure ==
  \A w \in Workers : \A k \in DOMAIN parts[w] :
    parts[w][k].epoch <= OldestOpenEpoch + 1

(* Durability: every epoch at which a partition emitted items is closed   *)
(* by a snapshot of that partition at that epoch once the partition has   *)
(* moved past it or been EOF'd and removed (the final snapshot on EOF,    *)
(* inputs.rs:460-474), so a resume never replays or loses them.          *)
ItemsCoveredBySnapshot ==
  \A k \in Keys : \A e \in itemEpochs[k] :
    (\/ k \in finished
     \/ \E w \in Workers : k \in DOMAIN parts[w] /\ parts[w][k].epoch > e)
    => e \in Range(snapLog[k])

(* Once a worker has dropped its init caps (inputs.rs:369), every         *)
(* partition it is primary for has been built on it: cold initialization  *)
(* at loads EOF (inputs.rs:366-396) saw every primary assignment, which   *)
(* step 3 applies only once the primaries frontier has closed.            *)
PrimariesBuilt ==
  \A w \in Workers : ~initCaps[w] =>
    \A k \in AllParts : Primary(k) = w => k \in DOMAIN parts[w] \cup finished

(* Termination: with finite sources, every listed partition is built,     *)
(* read to EOF and removed, and every worker drops all its capabilities; *)
(* this needs the activate_after scheduling of inputs.rs:509-522 since    *)
(* probe progress does not activate the operator. Its "every partition is *)
(* built" half also needs LoadsEofAfterPrimaries (see PrimariesBuilt).    *)
Termination ==
  <>(/\ finished = AllParts
     /\ \A w \in Workers : DOMAIN parts[w] = {} /\ ~initCaps[w])

(***************************************************************************)
(* Refinement: the operator, over all workers, implements the per-key     *)
(* promise of PartitionEpochs. A key's abstract epoch is the epoch of its *)
(* partition on whichever worker hosts it, Finished once it was EOF'd,   *)
(* NotBuilt before.                                                       *)
(***************************************************************************)
AbstractEpoch(k) ==
  IF k \in finished THEN Finished
  ELSE IF \E w \in Workers : k \in DOMAIN parts[w]
       THEN LET w == CHOOSE v \in Workers : k \in DOMAIN parts[v] IN parts[w][k].epoch
       ELSE NotBuilt

PE == INSTANCE PartitionEpochs
        WITH MaxEpoch <- Top,
             epoch <- [k \in Keys |-> AbstractEpoch(k)],
             snaps <- snapLog,
             items <- itemEpochs

(* Every behaviour of the operator is a behaviour of PartitionEpochs: no  *)
(* key is built twice (a load re-applied to a live partition, or after   *)
(* its EOF, would rebuild it), none is built before start_at, items go   *)
(* out only at the partition's current epoch, the epoch moves only by one *)
(* and only with a snapshot of the epoch it leaves (inputs.rs:460-497),   *)
(* and EOF removes a partition only with its final snapshot.             *)
ImplementsPartitionEpochs == PE!Spec

=============================================================================
