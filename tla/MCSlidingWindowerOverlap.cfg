\* Overlapping windows, offset not dividing length: length 5, offset 2.
CONSTANTS
  Length = 5
  Offset = 2
  AlignTo = 3
  SubMs = 1
  IdxBits = 8
  Times = {0, 3, 8}
  Watermarks = {0, 5, 8, 12}
SPECIFICATION Spec
INVARIANTS
  ClosedNeverReopened
