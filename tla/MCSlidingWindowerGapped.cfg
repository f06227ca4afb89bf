\* Gapped windows, offset greater than length: length 2, offset 3, with
\* items inside windows and in the gaps between them.
CONSTANTS
  Length = 2
  Offset = 3
  AlignTo = 1
  SubMs = 1
  IdxBits = 8
  Times <- MCGappedTimes
  Watermarks <- MCGappedWatermarks
SPECIFICATION Spec
INVARIANTS
  ClosedNeverReopened
