\* Item times with a sub-millisecond part: 2 units per millisecond,
\* length 4 ms and offset 2 ms (8 and 4 units), align_to 0.
CONSTANTS
  Windows <- MCSubMsWindows
  SubMs = 2
  IdxBits = 16
  ProbeTimes <- MCSubMsProbeTimes
  Tests <- NoTests
  InsertTests <- NoTests
  DrainTests <- NoTests
SPECIFICATION Spec
INVARIANT IntersectsCorrect
