\* Overlapping windows (length 5, offset 2, align_to 3) and gapped windows
\* (length 2, offset 7, align_to 1); item times -60..60 ms; and the
\* inputs of the unit tests of sliding_window.rs.
CONSTANTS
  Windows <- MCOverlapAndGapped
  SubMs = 1
  IdxBits = 16
  ProbeTimes <- MCProbeTimes
  Tests <- MCTests
  InsertTests <- MCInsertTests
  DrainTests <- MCDrainTests
SPECIFICATION Spec
INVARIANTS
  IntersectsCorrect
  IntersectsMatchesTests
  WindowerMatchesTests
