--------------------------- MODULE LocalOutcomes ---------------------------
(***************************************************************************)
(* What LocalExecutionOrchestrator makes of the two exit statuses of a run *)
(* (src/orchestration/local_execution.py): its static methods.             *)
(***************************************************************************)
EXTENDS Basics

EventStatus(status) ==
    CASE status = "COMPLETED" -> "SUCCEEDED"
      [] status = "INFRA_INVALID" -> "ERROR"
      [] OTHER -> status

(* A harness that timed out is verified too.                               *)
UnverifiableOnlyInfra == {"INFRA_INVALID"}

Unverifiable == {"INFRA_INVALID", "TIMEOUT"}

(* _verifier_outcome, with the flag the event declares.                    *)
VerifierOutcome(status) ==
    CASE status = "COMPLETED" ->
           [verdict |-> "PASSED", status |-> "SUCCEEDED", passed |-> TRUE, score |-> 1]
      [] status = "FAILED" ->
           [verdict |-> "FAILED", status |-> "FAILED", passed |-> FALSE, score |-> 0]
      [] status = "TIMEOUT" ->
           [verdict |-> "TIMEOUT", status |-> "TIMEOUT", passed |-> None, score |-> None]
      [] OTHER ->
           [verdict |-> "ERROR", status |-> "ERROR", passed |-> None, score |-> None]

(* _terminal_outcome.                                                      *)
TerminalOutcome(harness, verdict) ==
    CASE harness \in Unverifiable -> [task |-> "UNKNOWN", validity |-> "INFRA_INVALID"]
      [] verdict = "PASSED" -> [task |-> "SUCCESS", validity |-> "VALID"]
      [] verdict = "FAILED" -> [task |-> "FAILURE", validity |-> "VALID"]
      [] OTHER -> [task |-> "UNKNOWN", validity |-> "INFRA_INVALID"]
=============================================================================
