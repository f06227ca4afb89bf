\* Intervals and durations with a sub-millisecond part: 2 units per
\* millisecond, so 1 is 0.5 ms.
CONSTANTS
  SubMs = 2
  Intervals = {1, 2, 4}
  Durations = {0, 1, 2, 3, 5, 8}
  U64Max = 1000
SPECIFICATION Spec
INVARIANT EpochsPerIsCeiling
