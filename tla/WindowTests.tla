------------------------------ MODULE WindowTests ------------------------------
(***************************************************************************)
(* The unit tests of src/src/window/sliding_window.rs as data: for each   *)
(* #[test], the SlidingWindow config, the call and the result it asserts. *)
(* Instants are Utc.with_ymd_and_hms(2023, 3, 16, h, m, s) as             *)
(* milliseconds since the start of that day; every test aligns to 9:00.   *)
(***************************************************************************)
EXTENDS Integers

(* An instant of 2023-03-16, in milliseconds.                            *)
Sec(h, m, s) == 1000 * (3600 * h + 60 * m + s)

(* SlidingWindower { length, offset, align_to: 9:00:00 }, in seconds.     *)
Sliding(length, offset) ==
  [length |-> 1000 * length, offset |-> 1000 * offset, alignTo |-> Sec(9, 0, 0)]

(* One test of intersects: the windows it asserts, as <<key, open, close>>. *)
Case(window, time, expected) ==
  [window |-> window, time |-> time, expected |-> expected]

(* sliding_window.rs:218-348: length 10 s, offset 5 s. *)
OverlapDivisibleBulkTests ==
  LET w == Sliding(10, 5) IN {
     \* overlap_offset_divisible_by_length_bulk_positive
     Case(w, Sec(9, 0, 13), {<<1, Sec(9, 0, 5), Sec(9, 0, 15)>>, <<2, Sec(9, 0, 10), Sec(9, 0, 20)>>}),
     \* overlap_offset_divisible_by_length_bulk_negative
     Case(w, Sec(8, 59, 57), {<<-2, Sec(8, 59, 50), Sec(9, 0, 0)>>, <<-1, Sec(8, 59, 55), Sec(9, 0, 5)>>}),
     \* overlap_offset_divisible_by_length_bulk_zero_negative
     Case(w, Sec(9, 0, 3), {<<-1, Sec(8, 59, 55), Sec(9, 0, 5)>>, <<0, Sec(9, 0, 0), Sec(9, 0, 10)>>}),
     \* overlap_offset_divisible_by_length_bulk_zero_positive
     Case(w, Sec(9, 0, 7), {<<0, Sec(9, 0, 0), Sec(9, 0, 10)>>, <<1, Sec(9, 0, 5), Sec(9, 0, 15)>>})
  }

(* sliding_window.rs:350-481: length 10 s, offset 5 s. *)
OverlapDivisibleEdgeTests ==
  LET w == Sliding(10, 5) IN {
     \* overlap_offset_divisible_by_length_edge_positive
     Case(w, Sec(9, 0, 15), {<<2, Sec(9, 0, 10), Sec(9, 0, 20)>>, <<3, Sec(9, 0, 15), Sec(9, 0, 25)>>}),
     \* overlap_offset_divisible_by_length_edge_negative
     Case(w, Sec(8, 59, 55), {<<-2, Sec(8, 59, 50), Sec(9, 0, 0)>>, <<-1, Sec(8, 59, 55), Sec(9, 0, 5)>>}),
     \* overlap_offset_divisible_by_length_edge_start_zero
     Case(w, Sec(9, 0, 0), {<<-1, Sec(8, 59, 55), Sec(9, 0, 5)>>, <<0, Sec(9, 0, 0), Sec(9, 0, 10)>>}),
     \* overlap_offset_divisible_by_length_edge_end_zero
     Case(w, Sec(9, 0, 10), {<<1, Sec(9, 0, 5), Sec(9, 0, 15)>>, <<2, Sec(9, 0, 10), Sec(9, 0, 20)>>})
  }

(* sliding_window.rs:483-598: length 10 s, offset 3 s. *)
OverlapIndivisibleBulkTests ==
  LET w == Sliding(10, 3) IN {
     \* overlap_offset_indivisible_by_length_bulk_positive
     Case(w, Sec(9, 0, 11), {<<1, Sec(9, 0, 3), Sec(9, 0, 13)>>, <<2, Sec(9, 0, 6), Sec(9, 0, 16)>>, <<3, Sec(9, 0, 9), Sec(9, 0, 19)>>}),
     \* overlap_offset_indivisible_by_length_bulk_negative
     Case(w, Sec(8, 59, 59), {<<-3, Sec(8, 59, 51), Sec(9, 0, 1)>>, <<-2, Sec(8, 59, 54), Sec(9, 0, 4)>>, <<-1, Sec(8, 59, 57), Sec(9, 0, 7)>>}),
     \* overlap_offset_indivisible_by_length_bulk_zero
     Case(w, Sec(9, 0, 5), {<<-1, Sec(8, 59, 57), Sec(9, 0, 7)>>, <<0, Sec(9, 0, 0), Sec(9, 0, 10)>>, <<1, Sec(9, 0, 3), Sec(9, 0, 13)>>})
  }

(* sliding_window.rs:600-694: length 10 s, offset 7 s. *)
OverlapIndivisibleEdgeStartTests ==
  LET w == Sliding(10, 7) IN {
     \* overlap_offset_indivisible_by_length_edge_start_positive
     Case(w, Sec(9, 0, 14), {<<1, Sec(9, 0, 7), Sec(9, 0, 17)>>, <<2, Sec(9, 0, 14), Sec(9, 0, 24)>>}),
     \* overlap_offset_indivisible_by_length_edge_start_negative
     Case(w, Sec(8, 59, 53), {<<-2, Sec(8, 59, 46), Sec(8, 59, 56)>>, <<-1, Sec(8, 59, 53), Sec(9, 0, 3)>>}),
     \* overlap_offset_indivisible_by_length_edge_start_zero
     Case(w, Sec(9, 0, 0), {<<-1, Sec(8, 59, 53), Sec(9, 0, 3)>>, <<0, Sec(9, 0, 0), Sec(9, 0, 10)>>})
  }

(* sliding_window.rs:696-769: length 10 s, offset 7 s. *)
OverlapIndivisibleEdgeEndTests ==
  LET w == Sliding(10, 7) IN {
     \* overlap_offset_indivisible_by_length_edge_end_positive
     Case(w, Sec(9, 0, 17), {<<2, Sec(9, 0, 14), Sec(9, 0, 24)>>}),
     \* overlap_offset_indivisible_by_length_edge_end_negative
     Case(w, Sec(8, 59, 56), {<<-1, Sec(8, 59, 53), Sec(9, 0, 3)>>}),
     \* overlap_offset_indivisible_by_length_edge_end_zero
     Case(w, Sec(9, 0, 10), {<<1, Sec(9, 0, 7), Sec(9, 0, 17)>>})
  }

(* sliding_window.rs:771-844: length 10 s, offset 10 s. *)
TumbleBulkTests ==
  LET w == Sliding(10, 10) IN {
     \* tumble_bulk_positive
     Case(w, Sec(9, 0, 15), {<<1, Sec(9, 0, 10), Sec(9, 0, 20)>>}),
     \* tumble_bulk_negative
     Case(w, Sec(8, 59, 55), {<<-1, Sec(8, 59, 50), Sec(9, 0, 0)>>}),
     \* tumble_bulk_zero
     Case(w, Sec(9, 0, 5), {<<0, Sec(9, 0, 0), Sec(9, 0, 10)>>})
  }

(* sliding_window.rs:846-947: length 10 s, offset 10 s. *)
TumbleEdgeTests ==
  LET w == Sliding(10, 10) IN {
     \* tumble_edge_positive
     Case(w, Sec(9, 0, 20), {<<2, Sec(9, 0, 20), Sec(9, 0, 30)>>}),
     \* tumble_edge_negative
     Case(w, Sec(8, 59, 50), {<<-1, Sec(8, 59, 50), Sec(9, 0, 0)>>}),
     \* tumble_edge_zero_start
     Case(w, Sec(9, 0, 0), {<<0, Sec(9, 0, 0), Sec(9, 0, 10)>>}),
     \* tumble_edge_zero_end
     Case(w, Sec(9, 0, 10), {<<1, Sec(9, 0, 10), Sec(9, 0, 20)>>})
  }

(* sliding_window.rs:949-1056: length 10 s, offset 13 s. *)
GapBulkTests ==
  LET w == Sliding(10, 13) IN {
     \* gap_bulk_positive
     Case(w, Sec(9, 0, 18), {<<1, Sec(9, 0, 13), Sec(9, 0, 23)>>}),
     \* gap_bulk_negative
     Case(w, Sec(8, 59, 48), {<<-1, Sec(8, 59, 47), Sec(8, 59, 57)>>}),
     \* gap_bulk_zero
     Case(w, Sec(9, 0, 3), {<<0, Sec(9, 0, 0), Sec(9, 0, 10)>>}),
     \* gap_gap_positive
     Case(w, Sec(9, 0, 12), {}),
     \* gap_gap_negative
     Case(w, Sec(8, 59, 59), {})
  }

(* sliding_window.rs:1058-1185: length 10 s, offset 13 s. *)
GapEdgeTests ==
  LET w == Sliding(10, 13) IN {
     \* gap_edge_start_positive
     Case(w, Sec(9, 0, 13), {<<1, Sec(9, 0, 13), Sec(9, 0, 23)>>}),
     \* gap_edge_start_negative
     Case(w, Sec(8, 59, 47), {<<-1, Sec(8, 59, 47), Sec(8, 59, 57)>>}),
     \* gap_edge_start_zero
     Case(w, Sec(9, 0, 0), {<<0, Sec(9, 0, 0), Sec(9, 0, 10)>>}),
     \* gap_edge_end_positive
     Case(w, Sec(9, 0, 23), {}),
     \* gap_edge_end_negative
     Case(w, Sec(8, 59, 57), {}),
     \* gap_edge_end_zero
     Case(w, Sec(9, 0, 10), {})
  }

IntersectsTests ==
  UNION {OverlapDivisibleBulkTests, OverlapDivisibleEdgeTests, OverlapIndivisibleBulkTests, OverlapIndivisibleEdgeStartTests, OverlapIndivisibleEdgeEndTests, TumbleBulkTests, TumbleEdgeTests, GapBulkTests, GapEdgeTests}

(* test_insert (sliding_window.rs:1187-1210): at watermark 9:00:17 an     *)
(* item at 9:00:13 is Err(Late(1)) and Ok(2).                             *)
InsertTest ==
  [window |-> Sliding(10, 5), watermark |-> Sec(9, 0, 17), time |-> Sec(9, 0, 13),
   late |-> {1}, ok |-> {2}]

(* test_drain_closed (sliding_window.rs:1212-1244): the item at 9:00:13   *)
(* inserted at watermark 9:00:04, drain_closed at 9:00:17 returns window *)
(* 1 with its boundaries.                                                 *)
DrainTest ==
  [window |-> Sliding(10, 5), time |-> Sec(9, 0, 13),
   watermark1 |-> Sec(9, 0, 4), watermark2 |-> Sec(9, 0, 17),
   drained |-> {<<1, <<Sec(9, 0, 5), Sec(9, 0, 15)>>>>}]
=============================================================================
