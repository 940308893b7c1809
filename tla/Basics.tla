------------------------------- MODULE Basics -------------------------------
(* What the modules of the data plane share: the absent value, Python's    *)
(* None and JSON's null.                                                   *)
EXTENDS Integers, Sequences, FiniteSets

CONSTANT None
=============================================================================
