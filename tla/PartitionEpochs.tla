--------------------------- MODULE PartitionEpochs ---------------------------
(***************************************************************************)
(* What the partitioned input promises per partition, whatever the         *)
(* workers, frontiers and scheduling: a partition is built once, at an     *)
(* epoch no earlier than the resume epoch; it emits items only at its      *)
(* current epoch; it leaves an epoch only by snapshotting it and moving to *)
(* the next one; and it finishes only with a final snapshot, after which  *)
(* it is never built again. Any set of partitions may move in one step    *)
(* (one operator activation moves every partition it polls).              *)
(***************************************************************************)
EXTENDS Integers, Sequences

CONSTANTS
  Keys,        \* partition keys
  StartAt,     \* the resume epoch
  MaxEpoch,    \* highest epoch a partition can be built at
  NotBuilt,    \* model value: the partition has not been built yet
  Finished     \* model value: the partition reached EOF and was removed

VARIABLES
  epoch,       \* [Keys -> epoch, NotBuilt or Finished]
  snaps,       \* [Keys -> Seq(epoch)]: the snapshots emitted, in order
  items        \* [Keys -> SUBSET epoch]: the epochs items were emitted at

vars == <<epoch, snaps, items>>

Init ==
  /\ epoch = [k \in Keys |-> NotBuilt]
  /\ snaps = [k \in Keys |-> <<>>]
  /\ items = [k \in Keys |-> {}]

(* Partition k acts at epoch e (building itself there first if it was not *)
(* built): it may emit items at e, snapshot e and move to e + 1, and      *)
(* finish, which needs the snapshot.                                      *)
Move(k) ==
  /\ epoch[k] # Finished
  /\ \E e \in IF epoch[k] = NotBuilt THEN StartAt .. MaxEpoch ELSE {epoch[k]},
        emit, adv, fin \in BOOLEAN :
       /\ fin => adv
       /\ items'[k] = IF emit THEN items[k] \cup {e} ELSE items[k]
       /\ snaps'[k] = IF adv THEN Append(snaps[k], e) ELSE snaps[k]
       /\ epoch'[k] = CASE fin -> Finished
                         [] adv -> e + 1
                         [] OTHER -> e

Stay(k) ==
  /\ epoch'[k] = epoch[k]
  /\ snaps'[k] = snaps[k]
  /\ items'[k] = items[k]

Next ==
  /\ epoch' \in [Keys -> Int \cup {NotBuilt, Finished}]
  /\ snaps' \in [Keys -> Seq(Int)]
  /\ items' \in [Keys -> SUBSET Int]
  /\ \A k \in Keys : Move(k) \/ Stay(k)

Spec == Init /\ [][Next]_vars
=============================================================================
