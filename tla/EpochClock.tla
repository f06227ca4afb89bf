------------------------------ MODULE EpochClock ------------------------------
(***************************************************************************)
(* EpochInterval::epochs_per (src/src/inputs.rs:57-64): how many epochs,  *)
(* rounded up, lie in a duration. Durations are integers in a unit of     *)
(* 1/SubMs milliseconds. The code takes num_milliseconds of both          *)
(* durations (truncating toward zero), divides them as f64, rounds up and *)
(* casts to u64, which saturates: NaN and negatives become 0, +inf        *)
(* becomes u64::MAX (U64Max here). Quotients of millisecond counts below  *)
(* 2^53 are exact enough in f64 that ceil is the mathematical ceiling.    *)
(* The interval and the duration of the next call range over Intervals   *)
(* and Durations, in any order.                                           *)
(***************************************************************************)
EXTENDS Integers

CONSTANTS
  SubMs,       \* model time units per millisecond
  Intervals,   \* epoch intervals
  Durations,   \* durations passed to epochs_per
  U64Max       \* the value `as u64` saturates +inf to

ASSUME SubMs \in Nat \ {0} /\ Intervals \subseteq Int /\ Durations \subseteq Int

VARIABLES
  interval,    \* the EpochInterval
  duration     \* the argument of the call

vars == <<interval, duration>>

(* chrono Duration::num_milliseconds: truncates toward zero.              *)
NumMs(d) == IF d >= 0 THEN d \div SubMs ELSE -((-d) \div SubMs)

(* Ceiling of a / b for b > 0.                                            *)
CeilDiv(a, b) == -((-a) \div b)

(* Mutant: the quotient is truncated instead of rounded up.              *)
EpochsPerTrunc(i, d) ==
  LET n == NumMs(d)  m == NumMs(i)
  IN CASE m > 0 /\ n > 0 -> n \div m
       [] OTHER -> 0

(* (n as f64 / m as f64).ceil() as u64, by the sign of n and m.          *)
EpochsPer(i, d) ==
  LET n == NumMs(d)  m == NumMs(i)
  IN CASE m > 0 /\ n >= 0 -> CeilDiv(n, m)
       [] m = 0 /\ n > 0 -> U64Max           \* +inf saturates
       [] m < 0 /\ n < 0 -> CeilDiv(-n, -m)
       [] OTHER -> 0                         \* NaN (0/0) or negative

(* The cases of test_epochs_per and test_epochs_per_zero, in milliseconds. *)
EpochsPerTests ==
  {[interval |-> 5000, duration |-> 12000, expected |-> 3],
   [interval |-> 5000, duration |-> 0, expected |-> 0]}

(* Inputs: the configured ones and those of the unit tests.               *)
AllIntervals == Intervals \cup {t.interval * SubMs : t \in EpochsPerTests}
AllDurations == Durations \cup {t.duration * SubMs : t \in EpochsPerTests}

Init == interval \in AllIntervals /\ duration \in AllDurations

Next == \E i \in AllIntervals, d \in AllDurations : interval' = i /\ duration' = d

Spec == Init /\ [][Next]_vars

(* For a positive interval and a non-negative duration, epochs_per is the *)
(* ceiling of duration / interval (spec 4.1), so it is 0 exactly when the *)
(* duration is 0 and the GC commit cadence always covers the duration.    *)
EpochsPerIsCeiling ==
  interval > 0 /\ duration >= 0 =>
    /\ EpochsPer(interval, duration) * interval >= duration
    /\ (EpochsPer(interval, duration) - 1) * interval < duration
    /\ (EpochsPer(interval, duration) = 0 <=> duration = 0)

(* epochs_per gives what its unit tests assert: 12 s in 5 s epochs is 3   *)
(* epochs (rounded up, not truncated) and no time is 0 epochs.            *)
EpochsPerMatchesTests ==
  \A t \in EpochsPerTests :
    interval = t.interval * SubMs /\ duration = t.duration * SubMs =>
      EpochsPer(interval, duration) = t.expected
================================================================================
