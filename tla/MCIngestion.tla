---------------------------- MODULE MCIngestion ----------------------------
(* Two contents for one id, alone and in a batch of two events, so that    *)
(* the order of ingestion decides a conflict; the capacity of three events *)
(* makes the queue refuse.                                                 *)
EXTENDS IngestionService

Ev(i, x) == [id |-> i, body |-> x]

MCBatches == {<<Ev(1, "x")>>, <<Ev(1, "y"), Ev(2, "y")>>}

MCThreads == Workers \cup {Client}
=============================================================================
