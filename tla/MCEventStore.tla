---------------------------- MODULE MCEventStore ----------------------------
(* Two ids, two partitions and two bodies are enough for every verdict of  *)
(* ingest(): a batch over two partitions, a replay, a conflict with the    *)
(* index in the same and in another partition, a conflict and a duplicate  *)
(* inside the batch.                                                       *)
EXTENDS PartitionedEventStore, TLC

Ev(i, q, x) == [id |-> i, part |-> q, body |-> x]

MCBatches == {<<Ev(2, 2, "x"), Ev(1, 1, "x")>>,
              <<Ev(1, 1, "x"), Ev(1, 1, "y"), Ev(1, 1, "x")>>,
              <<Ev(1, 2, "x"), Ev(2, 2, "x")>>}

Symm == Permutations(Procs)
=============================================================================
