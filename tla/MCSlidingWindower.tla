------------------------- MODULE MCSlidingWindower -------------------------
(***************************************************************************)
(* Bounds for SlidingWindower, in milliseconds.                         *)
(* Items are inserted on both sides of align_to and at window edges; the  *)
(* watermark passes through values equal to window close times so the     *)
(* late/closed boundary is exercised.                                     *)
(***************************************************************************)
EXTENDS SlidingWindower

(* Gapped windows: items before align_to, inside windows and in gaps;    *)
(* a watermark below every close time to start from.                      *)
MCGappedTimes == {-1, 2, 4, 7}
MCGappedWatermarks == {-3, 3, 6, 9}
=============================================================================
