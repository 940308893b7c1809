------------------------ MODULE EpisodeCertification ------------------------
(***************************************************************************)
(* The decisions derived from an assembled episode: certify_episode        *)
(* (src/validation/episode_semantics.py), the training roles of            *)
(* evaluate_training_eligibility (src/training/eligibility.py) and the     *)
(* consumer profiles of certify_for (src/certification/engine.py).         *)
(* Reasons are kept as the conditions that add them; their wording is not. *)
(***************************************************************************)
EXTENDS EpisodeAssembly

(* _verifier_attestation: the verdict one VERIFICATION_FINISHED attests.   *)
Attestation(e) ==
    CASE e.status = "SUCCEEDED" /\ e.passed = TRUE -> "PASSED"
      [] e.status = "FAILED" /\ e.passed = FALSE -> "FAILED"
      [] e.status \in {"ERROR", "TIMEOUT"} -> e.status
      [] OTHER -> None

VerifierEvents(ep) == OfType(ep.events, "VERIFICATION_FINISHED")

LatestAttestation(ep) ==
    LET attesting == {e \in VerifierEvents(ep) : Attestation(e) # None}
    IN  IF attesting = {} THEN None ELSE Attestation(Latest(attesting))

VerifierAttested(ep) == LatestAttestation(ep) \in {"PASSED", "FAILED"}

(* The declared outcome contradicts what the verifier attested.            *)
OutcomeContradicted(ep) ==
    LET attested == LatestAttestation(ep)
        o == ep.outcome
    IN  CASE attested = "PASSED" -> o.task # "SUCCESS" \/ o.validity # "VALID"
          [] attested = "FAILED" -> o.task = "SUCCESS" \/ o.validity # "VALID"
          [] attested \in {"ERROR", "TIMEOUT"} -> o.task = "SUCCESS" \/ o.score # None
          [] OTHER -> FALSE

(* The outcome cites evidence, but no verifier event.                      *)
EvidenceMiscited(ep) ==
    /\ VerifierEvents(ep) # {}
    /\ ep.outcome.evidence # {}
    /\ ep.outcome.evidence \cap {e.id : e \in VerifierEvents(ep)} = {}

SuccessUnattested(ep) ==
    /\ LatestAttestation(ep) = None
    /\ ep.outcome.task = "SUCCESS" /\ ep.outcome.validity = "VALID"

CertifyEpisode(ep) ==
    CASE \/ ep.integrity = "CORRUPT"
         \/ OutcomeContradicted(ep)
         \/ EvidenceMiscited(ep) -> "REJECTED"
      [] ep.integrity = "PARTIAL" \/ SuccessUnattested(ep) -> "INSUFFICIENT_EVIDENCE"
      [] OTHER -> "CERTIFIED"

ObservableObservation(ep) == OfType(ep.events, "MODEL_REQUEST") # {}

ObservableAction(ep) ==
    OfType(ep.events, "MODEL_RESPONSE") \cup OfType(ep.events, "TOOL_CALL") # {}

SftEligible(ep) ==
    /\ CertifyEpisode(ep) = "CERTIFIED"
    /\ ep.outcome.task = "SUCCESS" /\ ep.outcome.validity = "VALID"
    /\ VerifierAttested(ep) /\ ep.outcome.verifier = "PASSED"
    /\ ObservableObservation(ep) /\ ObservableAction(ep)

PreferenceEligible(ep) ==
    /\ CertifyEpisode(ep) = "CERTIFIED"
    /\ VerifierAttested(ep)
    /\ ep.outcome.validity = "VALID"

EvaluationVerdict(ep) ==
    CASE CertifyEpisode(ep) # "CERTIFIED" -> "INSUFFICIENT_EVIDENCE"
      [] ep.outcome.validity # "VALID" -> "REJECTED"
      [] ~VerifierAttested(ep) -> "INSUFFICIENT_EVIDENCE"
      [] OTHER -> "ELIGIBLE"

HarnessAnalysisVerdict(ep) ==
    CASE ep.integrity = "CORRUPT" -> "REJECTED"
      [] ep.events = {} -> "INSUFFICIENT_EVIDENCE"
      [] OTHER -> "ELIGIBLE"
=============================================================================
