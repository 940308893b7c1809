----------------------------- MODULE MCRollout -----------------------------
(* One group of two rows: every order of two tasks, of a straggler and a   *)
(* weight sync, of a second dispatch and a certificate.  Two groups of two *)
(* rows: a flat group beside one with a signal.                            *)
EXTENDS CertifiedRollout

OneGroup == [p \in 1..2 |-> "g"]

TwoGroups == [p \in 1..4 |-> IF p <= 2 THEN "g" ELSE "h"]
=============================================================================
