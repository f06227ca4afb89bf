\* Whole-millisecond intervals and durations.
CONSTANTS
  SubMs = 1
  Intervals = {1, 2, 3, 5}
  Durations = {0, 1, 2, 3, 4, 5, 6, 7, 9, 10, 11, 12, 13, 14, 15, 16, 20, 24, 25, 26, 29, 30, 31, 36, 60}
  U64Max = 1000
SPECIFICATION Spec
INVARIANT EpochsPerIsCeiling
INVARIANT EpochsPerMatchesTests
