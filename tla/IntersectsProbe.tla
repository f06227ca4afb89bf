---------------------------- MODULE IntersectsProbe ----------------------------
(***************************************************************************)
(* SlidingWindower::intersects checked against its definition: the window *)
(* configuration ranges over Windows and the item time of the next call   *)
(* over ProbeTimes, in any order, and every state compares the windows    *)
(* the code yields with the windows the item lies in. The inputs of the   *)
(* code's unit tests are states too, where the model's intersects, insert *)
(* and drain_closed must give what the tests assert.                     *)
(***************************************************************************)
EXTENDS Integers, FiniteSets

CONSTANTS
  Windows,      \* SlidingWindow configs: records [length, offset, alignTo]
  SubMs,        \* time units per millisecond
  IdxBits,      \* width of the `as i32` cast
  ProbeTimes,   \* item times passed to intersects
  Tests,        \* unit tests of intersects: [window, time, expected]
  InsertTests,  \* unit tests of insert: [window, watermark, time, late, ok]
  DrainTests    \* unit tests of drain_closed: [window, time, watermark1,
                \* watermark2, drained]

VARIABLES
  window,       \* the SlidingWindow config of the windower
  itemTime      \* the item time of the current call

(* The windower's arithmetic for one configuration.                      *)
Win(c) == INSTANCE WindowMath
            WITH Length <- c.length, Offset <- c.offset, AlignTo <- c.alignTo

(* The windower for one configuration, with close_times ct at watermark  *)
(* wm; only its state functions are used.                                  *)
SW(c, wm, ct) == INSTANCE SlidingWindower
                   WITH Length <- c.length, Offset <- c.offset, AlignTo <- c.alignTo,
                        Times <- {}, Watermarks <- {wm}, closeTimes <- ct,
                        watermark <- wm, closed <- {}, snap <- {}

(* The calls made: every probe time with every window, and every test's. *)
Inputs == {<<c, t>> : c \in Windows, t \in ProbeTimes}
          \cup {<<tc.window, tc.time>> : tc \in Tests \cup InsertTests \cup DrainTests}

Init == \E i \in Inputs : window = i[1] /\ itemTime = i[2]

Next == \E i \in Inputs : window' = i[1] /\ itemTime' = i[2]

Spec == Init /\ [][Next]_<<window, itemTime>>

(* intersects (sliding_window.rs:100-132) yields exactly the windows the  *)
(* item lies in, for item times on both sides of align_to, including the  *)
(* start and end edges and, when offset > length, the gaps.              *)
IntersectsCorrect ==
  Win(window)!Intersects(itemTime) = Win(window)!IntersectsRef(itemTime)

(* intersects gives the windows, in order, that every unit test of it in *)
(* sliding_window.rs asserts: overlapping windows with an offset dividing *)
(* the length or not, tumbling and gapped windows, before, at and after  *)
(* align_to, at window starts and ends.                                  *)
IntersectsMatchesTests ==
  \A tc \in Tests : <<tc.window, tc.time>> = <<window, itemTime>> =>
    Win(window)!Intersects(itemTime) = tc.expected

(* insert returns the Late and Ok keys test_insert asserts, and           *)
(* drain_closed after an insert at an earlier watermark returns the        *)
(* closed windows test_drain_closed asserts.                             *)
WindowerMatchesTests ==
  /\ \A tc \in InsertTests : <<tc.window, tc.time>> = <<window, itemTime>> =>
       SW(tc.window, tc.watermark, <<>>)!InsertResult(tc.time)
         = [late |-> tc.late, ok |-> tc.ok]
  /\ \A tc \in DrainTests : <<tc.window, tc.time>> = <<window, itemTime>> =>
       LET ct == SW(tc.window, tc.watermark1, <<>>)!Inserted(tc.time)
       IN SW(tc.window, tc.watermark2, ct)!DrainResult = tc.drained
================================================================================
