------------------------------ MODULE MCPiHost ------------------------------
(* PiHostExecution for TLC: one training execution, one without RL and     *)
(* pinned to another policy, one without a controlled model, and one that  *)
(* asks for isolation without the proxy it needs.                          *)
EXTENDS PiHostExecution

Exec(controlled, isolated, requireRl, pinned) ==
    [controlled |-> controlled, isolated |-> isolated, requireRl |-> requireRl, pinned |-> pinned]

MCSpecs == {Exec(TRUE, TRUE, TRUE, "policy"), Exec(FALSE, FALSE, FALSE, "other"),
            Exec(FALSE, FALSE, TRUE, None), Exec(FALSE, TRUE, TRUE, None)}

Turn(stop, calls) ==
    [type |-> "assistant", stop |-> stop, calls |-> calls, time |-> None, usage |-> TRUE]
ToolDone(id) == [type |-> "tool_end", id |-> id, error |-> FALSE, text |-> "ok"]

(* A tool round, a backend error, a crash before anything was printed, and *)
(* a call whose result was cut off by the timeout.                         *)
MCEndings == {[code |-> "zero", lines |-> <<Turn("toolUse", <<"t1">>), ToolDone("t1")>>],
              [code |-> "zero", lines |-> <<Turn("error", <<>>)>>],
              [code |-> "other", lines |-> <<[type |-> "junk"]>>],
              [code |-> "timeout", lines |-> <<Turn("toolUse", <<"t1">>)>>]}
=============================================================================
