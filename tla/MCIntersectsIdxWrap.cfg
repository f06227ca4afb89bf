\* The `as i32` cast narrowed to 3 bits, so that window indexes past 3
\* wrap as indexes past 2^31 - 1 do in the code: length 2, offset 1 ms.
CONSTANTS
  Windows <- MCWrapWindows
  SubMs = 1
  IdxBits = 3
  ProbeTimes <- MCWideProbeTimes
  Tests <- NoTests
  InsertTests <- NoTests
  DrainTests <- NoTests
SPECIFICATION Spec
INVARIANT IntersectsCorrect
