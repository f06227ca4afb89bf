------------------------- MODULE MCPartitionedInput -------------------------
(***************************************************************************)
(* Two workers and two partitions. k1 is listed by worker 0 only and its  *)
(* hash points at worker 1, so the fallback to the lowest reporter picks   *)
(* worker 0; k2 is listed by both and hashed to worker 1. The run resumes  *)
(* at epoch 2: k1 has a stale Upsert snapshot from epoch 0 (fast-forward  *)
(* case), k2 a Delete, so it is cold-initialized at loads EOF.             *)
(***************************************************************************)
EXTENDS PartitionedInput

CONSTANTS k1, k2

MCKeys == {k1, k2}
MCListParts == [w \in 0 .. 1 |-> IF w = 0 THEN {k1, k2} ELSE {k2}]
MCHash == [k \in MCKeys |-> 1]
MCLoads == {[key |-> k1, change |-> "Upsert", epoch |-> 0],
            [key |-> k2, change |-> "Delete", epoch |-> 0]}
=============================================================================
