--------------------------- MODULE ProcessCleanup ---------------------------
(***************************************************************************)
(* RunCleanup (src/integrations/verl/lifecycle.py): the processes a run    *)
(* registered, and terminate_all.  How a process meets the signals is its  *)
(* "life": it has exited, dies of SIGTERM, only of SIGKILL, exits between  *)
(* the poll and a signal (its group is gone when it is looked up), or is   *)
(* not ours to signal.                                                     *)
(***************************************************************************)
EXTENDS Basics, SequencesExt

Lives == {"exited", "polite", "stubborn", "gone before term", "gone before kill",
          "not permitted", "kill refused"}

Register(registrations, label, life) ==
    Append(registrations, [label |-> label, life |-> life])

(* A clean-up that takes a missed grace period for the end.                *)
OutcomeHasty(life) ==
    CASE life = "exited" -> "already-exited"
      [] life \in {"gone before term", "not permitted"} -> "terminate-failed"
      [] OTHER -> "terminated"

(* One registration: poll, SIGTERM, the grace period, SIGKILL.             *)
Outcome(life) ==
    CASE life = "exited" -> "already-exited"
      [] life \in {"gone before term", "not permitted"} -> "terminate-failed"
      [] life = "polite" -> "terminated"
      [] life \in {"gone before kill", "kill refused"} -> "kill-failed"
      [] life = "stubborn" -> "killed"

(* Is the process alive when its turn is over?                             *)
Survives(life, outcome) ==
    \/ life \in {"not permitted", "kill refused"}
    \/ life = "stubborn" /\ outcome # "killed"

(* terminate_all: outcomes by label, the last of a label standing; the     *)
(* list is emptied whatever the outcomes are.                              *)
TerminateAll(registrations) ==
    LET labels == {registrations[i].label : i \in DOMAIN registrations}
        last(l) == CHOOSE i \in DOMAIN registrations :
                     /\ registrations[i].label = l
                     /\ \A j \in (i + 1)..Len(registrations) : registrations[j].label # l
    IN  [outcomes |-> [l \in labels |-> Outcome(registrations[last(l)].life)],
         registrations |-> <<>>,
         survivors |-> {i \in DOMAIN registrations :
                          Survives(registrations[i].life, Outcome(registrations[i].life))}]

CleanupInputs == UNION {[1..n -> [label : {"pi", "model"}, life : Lives]] : n \in 0..3}

CleanupJob(input) ==
    LET registered[n \in 0..Len(input)] ==
            IF n = 0 THEN <<>> ELSE Register(registered[n - 1], input[n].label, input[n].life)
    IN  TerminateAll(registered[Len(input)])
=============================================================================
