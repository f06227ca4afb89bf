------------------------------ MODULE WindowMath ------------------------------
(***************************************************************************)
(* The arithmetic of SlidingWindower (src/src/window/sliding_window.rs):  *)
(* which windows an item time falls in. Instants and durations are        *)
(* integers in a unit of 1/SubMs milliseconds, so that chrono's          *)
(* num_milliseconds (truncating toward zero) is modelled by what it does. *)
(* The window index is cast to i32 before it multiplies the offset;      *)
(* IdxBits is the width of that cast (32 in the code).                    *)
(***************************************************************************)
EXTENDS Integers

CONSTANTS
  Length,      \* window length
  Offset,      \* distance between the starts of adjacent windows
  AlignTo,     \* the instant window 0 opens at
  SubMs,       \* model time units per millisecond
  IdxBits      \* width of the `window_idx as i32` cast

ASSUME Length > 0 /\ Offset > 0 /\ SubMs \in Nat \ {0} /\ IdxBits \in Nat \ {0}

(***************************************************************************)
(* Integer helpers with the semantics the code uses.                       *)
(***************************************************************************)

(* chrono Duration::num_milliseconds: truncates toward zero.              *)
NumMilliseconds(d) == IF d >= 0 THEN d \div SubMs ELSE -((-d) \div SubMs)

(* Mutant: language-native division, truncating toward zero.            *)
DivFloorTrunc(a, b) == IF a >= 0 THEN a \div b ELSE -((-a) \div b)

(* num::Integer::div_floor and div_ceil: rounding toward -inf and +inf.   *)
DivFloor(a, b) == a \div b
DivCeil(a, b) == -((-a) \div b)

(* `as i32`: two's complement truncation to IdxBits bits.                 *)
AsI32(x) ==
  LET half == 2^(IdxBits - 1) IN ((x + half) % (2 * half)) - half

(***************************************************************************)
(* SlidingWindower::intersects: the set of <<key, open, close>> yielded.  *)
(* Keys are yielded in increasing order, first_window_idx + i.            *)
(***************************************************************************)
(* Mutant: the alignment instant is left out of the open time.          *)
OpenTimeUnaligned(idx) == Offset * AsI32(idx)

OpenTime(idx) == AlignTo + Offset * AsI32(idx)

Intersects(time) ==
  LET sinceCloseOfFirst == time - (AlignTo + Length)
      firstIdx == DivFloor(NumMilliseconds(sinceCloseOfFirst),
                           NumMilliseconds(Offset)) + 1
      numWindows == DivCeil(NumMilliseconds(Length), NumMilliseconds(Offset))
      idxs == {firstIdx + i : i \in 0 .. numWindows - 1}
  IN {<<idx, OpenTime(idx), OpenTime(idx) + Length>> :
        idx \in {j \in idxs : ~(time < OpenTime(j))}}

(* Reference: the windows an item at `time` belongs to by definition     *)
(* (spec 3 and 4.5), not by the code's arithmetic:                       *)
(* window k spans [align_to + offset*k, align_to + offset*k +      *)
(* length), start inclusive, end exclusive.                              *)
IntersectsRef(time) ==
  LET lo == (time - AlignTo - Length) \div Offset - 1
      hi == (time - AlignTo) \div Offset + 1
  IN {<<k, AlignTo + Offset * k, AlignTo + Offset * k + Length>> :
        k \in {j \in lo .. hi : /\ AlignTo + Offset * j <= time
                                /\ time < AlignTo + Offset * j + Length}}

=============================================================================
