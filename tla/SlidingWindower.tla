--------------------------- MODULE SlidingWindower ---------------------------
(***************************************************************************)
(* The sliding windower of src/src/window/sliding_window.rs: which windows *)
(* an item time falls in (intersects), the registry of open windows        *)
(* (close_times) filled by insert and emptied by drain_closed, and its     *)
(* snapshot and restore through the builder.                               *)
(* The arithmetic of intersects is in WindowMath.                        *)
(*                                                                         *)
(* The watermark and the calls are supplied by the window operator, which *)
(* is not in src/: it is modelled as a monotone watermark and any order   *)
(* of insert, drain_closed, snapshot and resume.                          *)
(***************************************************************************)
EXTENDS WindowMath, FiniteSetsExt

CONSTANTS
  Times,       \* item times inserted
  Watermarks   \* watermark values the caller passes, in increasing order

ASSUME Watermarks # {}

VARIABLES
  closeTimes,  \* close_times: [window key -> <<open_time, close_time>>]
  watermark,   \* the watermark of the last call
  closed,      \* history: keys drain_closed has returned
  snap         \* the last snapshot, with the caller's state at that epoch

vars == <<closeTimes, watermark, closed, snap>>

(***************************************************************************)
(* The windower's operations.                                              *)
(***************************************************************************)

(* The caller advances the watermark (it is monotone).                    *)
AdvanceWatermark ==
  \E w \in Watermarks :
    /\ w > watermark
    /\ watermark' = w
    /\ UNCHANGED <<closeTimes, closed, snap>>

(* insert_window: a key already present must have the same boundaries    *)
(* (the assert); otherwise it is added with them.                         *)
BoundariesMatch(ct, key, open, close) ==
  key \in DOMAIN ct => ct[key] = <<open, close>>

(* Mutant: lateness judged by the open time instead of the close time.  *)
IsLateByOpen(w) == w[2] < watermark

(* Window w of an item is late when it closed before the watermark.      *)
IsLate(w) == w[3] < watermark

(* The windows of an item at `time` that are not late.                   *)
OnTime(time) == {w \in Intersects(time) : ~IsLate(w)}

(* What insert returns: Err(Late(key)) for each late window, Ok(key) for *)
(* the others.                                                            *)
InsertResult(time) ==
  [late |-> {w[1] : w \in Intersects(time) \ OnTime(time)},
   ok   |-> {w[1] : w \in OnTime(time)}]

(* close_times after insert_window of every on-time window: keys already *)
(* present keep their entry (the assert checks it is the same).          *)
Inserted(time) ==
  LET added == {w[1] : w \in OnTime(time)} \ DOMAIN closeTimes
      Window(k) == CHOOSE w \in OnTime(time) : w[1] = k
  IN [k \in DOMAIN closeTimes \cup added |->
        IF k \in added THEN <<Window(k)[2], Window(k)[3]>> ELSE closeTimes[k]]

(* Windower::insert for an item at `time`. A failed assert in            *)
(* insert_window panics the worker: no step.                             *)
Insert(time) ==
  /\ \A w \in OnTime(time) : BoundariesMatch(closeTimes, w[1], w[2], w[3])
  /\ closeTimes' = Inserted(time)
  /\ UNCHANGED <<watermark, closed, snap>>

(* Mutant: drain_closed also closes a window whose close equals the     *)
(* watermark, which insert does not consider late.                       *)
IsClosedAtWatermark(oc) == oc[2] <= watermark

(* A window is closed when its close time is before the watermark.       *)
IsClosed(oc) == oc[2] < watermark

(* The keys drain_closed finds closed.                                    *)
Drained == {k \in DOMAIN closeTimes : IsClosed(closeTimes[k])}

(* What drain_closed returns: each closed key with its open and close.   *)
DrainResult == {<<k, closeTimes[k]>> : k \in Drained}

(* Windower::drain_closed: return the closed windows, keep the others.   *)
DrainClosed ==
  /\ closeTimes' = [k \in DOMAIN closeTimes \ Drained |-> closeTimes[k]]
  /\ closed' = closed \cup Drained
  /\ UNCHANGED <<watermark, snap>>

(* Windower::snapshot at an epoch boundary, stored with the caller's      *)
(* state of the same epoch.                                               *)
Snapshot ==
  /\ snap' = [closeTimes |-> closeTimes, watermark |-> watermark,
              closed |-> closed]
  /\ UNCHANGED <<closeTimes, watermark, closed>>

(* The builder's resume path: close_times from the snapshot if there is  *)
(* one (a fresh windower otherwise).                                      *)
Resume(s) == s.closeTimes

(* Restart from the last snapshot: the whole dataflow resumes from the    *)
(* same epoch, so the history rolls back with it; the caller's watermark  *)
(* resumes no lower than at the snapshot (a system-time clock has moved  *)
(* on while the dataflow was down).                                       *)
Restart ==
  /\ closeTimes' = Resume(snap)
  /\ \E w \in Watermarks : w >= snap.watermark /\ watermark' = w
  /\ closed' = snap.closed
  /\ UNCHANGED snap

Init ==
  /\ closeTimes = <<>>
  /\ watermark = Min(Watermarks)
  /\ closed = {}
  /\ snap = [closeTimes |-> <<>>, watermark |-> Min(Watermarks),
             closed |-> {}]

Next ==
  \/ AdvanceWatermark
  \/ \E t \in Times : Insert(t)
  \/ DrainClosed
  \/ Snapshot
  \/ Restart

Spec == Init /\ [][Next]_vars

(***************************************************************************)
(* Properties.                                                             *)
(***************************************************************************)

(* A window drain_closed has returned is never opened again by a later   *)
(* insert: insert's lateness test and drain_closed's closedness test     *)
(* agree at the boundary, so each window is emitted once.                 *)
ClosedNeverReopened ==
  closed \cap DOMAIN closeTimes = {}

=============================================================================
