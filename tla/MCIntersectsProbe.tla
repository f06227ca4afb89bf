------------------------- MODULE MCIntersectsProbe -------------------------
(***************************************************************************)
(* Window configurations and item times for IntersectsProbe. Times are in *)
(* milliseconds unless SubMs > 1.                                          *)
(***************************************************************************)
EXTENDS IntersectsProbe, WindowTests

(* The unit tests of sliding_window.rs (runs without them use NoTests). *)
MCTests == IntersectsTests
MCInsertTests == {InsertTest}
MCDrainTests == {DrainTest}
NoTests == {}

(* Overlapping windows, offset not dividing length.                      *)
MCOverlap == [length |-> 5, offset |-> 2, alignTo |-> 3]

(* Gapped windows, offset greater than length.                           *)
MCGapped == [length |-> 2, offset |-> 7, alignTo |-> 1]

MCOverlapAndGapped == {MCOverlap, MCGapped}

(* Length 4 ms and offset 2 ms in half milliseconds (SubMs = 2).         *)
MCSubMsWindows == {[length |-> 8, offset |-> 4, alignTo |-> 0]}

(* One-millisecond offset, so the window index grows fastest.            *)
MCWrapWindows == {[length |-> 2, offset |-> 1, alignTo |-> 0]}

(* Every instant from well before align_to to well after it, so that      *)
(* several periods of windows lie on each side.                           *)
MCProbeTimes == -60 .. 60

(* Instants in half milliseconds around align_to + length (SubMs = 2).   *)
MCSubMsProbeTimes == -8 .. 8

(* Instants far enough from align_to that the window index passes the    *)
(* range of the narrowed cast.                                           *)
MCWideProbeTimes == 0 .. 24
=============================================================================
