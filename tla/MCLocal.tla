------------------------------ MODULE MCLocal ------------------------------
(* LocalExecution for TLC.  The requests of a harness are interchangeable: *)
(* no definition tells one from another.                                   *)
EXTENDS LocalExecution, TLC

CallSymmetry == Permutations(Calls)
=============================================================================
