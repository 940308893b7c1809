------------------------------- MODULE MCPool -------------------------------
(* Four episodes over two threads, so that some wait, some run and some    *)
(* have ended when one of them raises; and a list that repeats an id.      *)
EXTENDS RolloutPool

MCSpecLists == {<<1, 2, 3, 4>>, <<1, 2, 1>>, <<>>}
=============================================================================
