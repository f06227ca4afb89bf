---------------------------- MODULE DynamicInput ----------------------------
(***************************************************************************)
(* The dynamic input operator of src/src/inputs.rs                         *)
(* (DynamicSource::dynamic_input): one stateless partition per worker,     *)
(* built once at start_at, polled behind the probe and awake gates, with  *)
(* no loads, no snapshots and no routing. The operator has no inputs, so  *)
(* after its first run only its own activator runs it again.             *)
(*                                                                         *)
(* As in PartitionedInput, one activation (the closure at                 *)
(* inputs.rs:724-808) is one step, time is counters relative to now moved *)
(* by Tick, and a source answers MaxBatches calls before it is EOF.       *)
(***************************************************************************)
EXTENDS Integers, FiniteSetsExt

CONSTANTS
  Workers,       \* worker indices
  StartAt,       \* the resume epoch
  EpochInterval, \* epoch length, in ticks
  Cooldown,      \* DEFAULT_COOLDOWN, in ticks
  AwakeDelays,   \* next_awake values a source may return, as ticks after now
  MaxBatches,    \* next_batch calls a partition answers before it is EOF
  NoAwake,       \* model value: next_awake is None
  CloseMayFail   \* the user's close() may raise

ASSUME EpochInterval \in Nat \ {0} /\ Cooldown \in Nat \ {0}
ASSUME AwakeDelays \subseteq Nat /\ MaxBatches \in Nat

VARIABLES
  live,          \* part_state is Some
  part,          \* [Workers -> DynamicPartState]
  timers,        \* pending activations, in ticks from now (0: activate())
  notified,      \* the operator's first scheduling after build
  probe,         \* the worker's view of the probe frontier
  pending,       \* epochs of items not yet processed downstream
  abort,         \* the shared abort flag
  crashed        \* the worker thread panicked

vars == <<live, part, timers, notified, probe, pending, abort, crashed>>

(* Epochs reachable: one advance per poll at most. Top is "no capability". *)
Top == StartAt + MaxBatches + 1
Epochs == 0 .. Top

UserAwake == {NoAwake} \cup AwakeDelays
Outcomes == [kind : {"Items", "Empty", "Eof", "Abort"}, awake : UserAwake]
Delays == 0 .. Max(AwakeDelays \cup {Cooldown})

PartState == [epoch : StartAt .. Top, elapsed : 0 .. EpochInterval,
              awake : {NoAwake} \cup Delays, left : 0 .. MaxBatches]

(* DynamicPartState::awake_due                                            *)
AwakeDue(st) == st.awake = NoAwake \/ st.awake = 0

(* default_next_awake, shared with the partitioned input.                 *)
DefaultNextAwake(res, nonEmpty) ==
  IF res # NoAwake THEN res
  ELSE IF nonEmpty THEN NoAwake ELSE Cooldown

(* The frontier the probe can reach: every live partition's capability    *)
(* and every epoch still being processed downstream.                      *)
TrueFrontier ==
  Min({Top} \cup {part[w].epoch : w \in {v \in Workers : live[v]}} \cup pending)

(* Whether a call of the user's close() raised. Dropping the partition   *)
(* (StatelessPartition's Drop, inputs.rs:875-881) calls close, which      *)
(* propagates the error (inputs.rs:869-872), and unwrap_any turns it into *)
(* a panic of the worker thread.                                          *)
CloseOutcomes == IF CloseMayFail THEN BOOLEAN ELSE {FALSE}

(* Mutant: the backpressure gate is dropped.                             *)
PolledNoBackpressure(w) == AwakeDue(part[w])

(* Backpressure and awake gates of the poll.                              *)
Polled(w) == ~(probe[w] < part[w].epoch) /\ AwakeDue(part[w])

(* The epoch advances when the interval has elapsed, only inside the poll *)
(* branch ("only increment once we've caught up").                        *)
Advances(w, st) == Polled(w) /\ st.elapsed >= EpochInterval

(* Mutant: no activation is requested when next_awake is None.            *)
NextTimersNoActivate(w, st) ==
  IF st.awake = NoAwake THEN timers[w] \ {0} ELSE (timers[w] \ {0}) \cup {st.awake}

(* The activation requested at the end: activate_after(next_awake - now)  *)
(* (0 when late), or activate() when next_awake is None. The request      *)
(* that ran this activation is used up.                                   *)
NextTimers(w, st) ==
  (timers[w] \ {0}) \cup {IF st.awake = NoAwake THEN 0 ELSE st.awake}

(* One activation of worker w's operator with its partition still live.   *)
Activate(w) ==
  /\ live[w] /\ ~crashed[w]
  /\ notified[w] \/ 0 \in timers[w]
  /\ LET st == part[w] IN
     \E o \in IF Polled(w) THEN Outcomes ELSE {[kind |-> "Skip", awake |-> NoAwake]} :
       LET polled == o.kind # "Skip"
           st1 == IF o.kind \in {"Items", "Empty"}
                  THEN [st EXCEPT !.awake = DefaultNextAwake(o.awake, o.kind = "Items")]
                  ELSE st
           eof == o.kind = "Eof"
           st2 == [st1 EXCEPT !.left = IF polled /\ ~eof THEN @ - 1 ELSE @]
           st3 == IF Advances(w, st) THEN [st2 EXCEPT !.epoch = @ + 1, !.elapsed = 0]
                  ELSE st2
       IN /\ polled /\ st.left = 0 => eof
          /\ live' = [live EXCEPT ![w] = ~eof]
          /\ part' = [part EXCEPT ![w] = st3]
          /\ timers' = [timers EXCEPT ![w] = IF eof THEN @ \ {0} ELSE NextTimers(w, st3)]
          /\ notified' = [notified EXCEPT ![w] = FALSE]
          /\ pending' = IF o.kind = "Items" THEN pending \cup {st.epoch} ELSE pending
          /\ abort' = (abort \/ o.kind = "Abort")
          \* part_state = None drops the partition
          /\ \E err \in IF eof THEN CloseOutcomes ELSE {FALSE} :
               crashed' = [crashed EXCEPT ![w] = err]
          /\ UNCHANGED probe

(* Worker w's probe catches up, never past the true frontier.             *)
ProbeAdvance(w) ==
  /\ probe[w] < TrueFrontier
  /\ \E p \in probe[w] + 1 .. TrueFrontier : probe' = [probe EXCEPT ![w] = p]
  /\ UNCHANGED <<live, part, timers, notified, pending, abort, crashed>>

(* Downstream operators finish epoch e's items.                           *)
Downstream(e) ==
  /\ e \in pending
  /\ pending' = pending \ {e}
  /\ UNCHANGED <<live, part, timers, notified, probe, abort, crashed>>

(* Wall-clock time passes.                                                *)
Tick ==
  /\ timers' = [w \in Workers |-> {Max({t - 1, 0}) : t \in timers[w]}]
  /\ part' = [w \in Workers |->
               [part[w] EXCEPT !.elapsed = Min({@ + 1, EpochInterval}),
                               !.awake = IF @ = NoAwake THEN @ ELSE Max({@ - 1, 0})]]
  /\ UNCHANGED <<live, notified, probe, pending, abort, crashed>>

(* Abort tears the dataflow down (the root checks the shared flag, spec   *)
(* 4.3): every operator is dropped with it, and so is every partition     *)
(* still live, each calling close().                                      *)
Shutdown ==
  /\ abort
  /\ \E w \in Workers : live[w]
  /\ \E err \in [{w \in Workers : live[w]} -> CloseOutcomes] :
       crashed' = [w \in Workers |-> crashed[w] \/ (live[w] /\ err[w])]
  /\ live' = [w \in Workers |-> FALSE]
  /\ timers' = [w \in Workers |-> {}]
  /\ UNCHANGED <<part, notified, probe, pending, abort>>

(* Mutant: the init capability is not downgraded to the resume epoch.     *)
InitNoResume ==
  /\ live = [w \in Workers |-> TRUE]
  /\ \E aw \in [Workers -> UserAwake] :
       part = [w \in Workers |-> [epoch |-> 0, elapsed |-> 0,
                                  awake |-> aw[w], left |-> MaxBatches]]
  /\ timers = [w \in Workers |-> {}]
  /\ notified = [w \in Workers |-> TRUE]
  /\ probe = [w \in Workers |-> 0]
  /\ pending = {}
  /\ abort = FALSE
  /\ crashed = [w \in Workers |-> FALSE]

(* Every worker built its partition at start_at; next_awake was read     *)
(* once; the operator will be scheduled once.                            *)
Init ==
  /\ live = [w \in Workers |-> TRUE]
  /\ \E aw \in [Workers -> UserAwake] :
       part = [w \in Workers |-> [epoch |-> StartAt, elapsed |-> 0,
                                  awake |-> aw[w], left |-> MaxBatches]]
  /\ timers = [w \in Workers |-> {}]
  /\ notified = [w \in Workers |-> TRUE]
  /\ probe = [w \in Workers |-> 0]
  /\ pending = {}
  /\ abort = FALSE
  /\ crashed = [w \in Workers |-> FALSE]

Next ==
  \/ \E w \in Workers : Activate(w)
  \/ \E w \in Workers : ProbeAdvance(w)
  \/ \E e \in Epochs : Downstream(e)
  \/ Tick
  \/ Shutdown

(* The scheduler runs every due operator, progress reaches the probe,     *)
(* downstream keeps running and time passes; the source gets no fairness. *)
Fairness ==
  /\ \A w \in Workers : WF_vars(Activate(w))
  /\ \A w \in Workers : WF_vars(ProbeAdvance(w))
  /\ \A e \in Epochs : WF_vars(Downstream(e))
  /\ WF_vars(Tick)
  /\ WF_vars(Shutdown)

Spec == Init /\ [][Next]_vars /\ Fairness

(***************************************************************************)
(* Properties.                                                             *)
(***************************************************************************)

TypeOK ==
  /\ live \in [Workers -> BOOLEAN]
  /\ part \in [Workers -> PartState]
  /\ timers \in [Workers -> SUBSET Delays]
  /\ notified \in [Workers -> BOOLEAN]
  /\ probe \in [Workers -> Epochs]
  /\ pending \subseteq Epochs
  /\ abort \in BOOLEAN
  /\ crashed \in [Workers -> BOOLEAN]

(* Backpressure (the probe gate at inputs.rs:739): no worker's partition  *)
(* runs more than one epoch ahead of the oldest epoch that a capability   *)
(* still holds or that downstream has not finished.                       *)
EpochBackpressure ==
  \A w \in Workers : live[w] =>
    part[w].epoch <= Min({Top} \cup pending
                         \cup {part[v].epoch : v \in {u \in Workers : live[u]}}) + 1

(* Termination: with finite sources every worker's partition is read to   *)
(* EOF and dropped, although the probe never activates the operator: it  *)
(* must keep requesting its own activation (inputs.rs:795-805).           *)
Termination == <>(\A w \in Workers : ~live[w])

(* Best-effort cleanup (spec: a partition's close hook is invoked with    *)
(* errors reported but not propagated): no close() error, at EOF          *)
(* (inputs.rs:793-795) or at teardown, brings a worker down.              *)
CloseErrorsNotPropagated == \A w \in Workers : ~crashed[w]
=============================================================================
