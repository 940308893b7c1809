------------------------------ MODULE MCQueue ------------------------------
(* Batches of one and of two events against a capacity of three: a small   *)
(* batch may fit where a large one has to wait.                            *)
EXTENDS BoundedEventQueue

MCBatches == {<<"e">>, <<"e", "f">>}
=============================================================================
