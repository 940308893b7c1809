-------------------------- MODULE RlCertification --------------------------
(***************************************************************************)
(* The reinforcement-learning half of certification: the capability        *)
(* evidence of an episode (validate_capability_evidence), policy           *)
(* fingerprints (src/training/policy_fingerprint.py), the RL roles of      *)
(* evaluate_training_eligibility, and certify_for with the bundle-bound RL *)
(* profiles (src/certification/engine.py).                                 *)
(*                                                                         *)
(* A checksum is the value it is computed from.  The arrays a              *)
(* MODEL_RESPONSE may carry are a record [tokens, logprobs, mask] of       *)
(* sequences, None for an array that is absent or malformed.  An identity  *)
(* is a record [run, task, episode, attempt, group, policy].               *)
(***************************************************************************)
EXTENDS EpisodeCertification

Trainable(mask) == Cardinality({i \in DOMAIN mask : mask[i] = 1})

(* Whether the arrays of one response agree in length.  The last test      *)
(* looks at log-probabilities only when they do not number the trainable   *)
(* positions.                                                              *)
Aligned(r) ==
    /\ r.tokens # None /\ r.logprobs # None => Len(r.tokens) = Len(r.logprobs)
    /\ r.tokens # None /\ r.mask # None => Len(r.tokens) = Len(r.mask)
    /\ r.logprobs # None /\ r.mask # None /\ Len(r.logprobs) # Trainable(r.mask)
         => Len(r.mask) = Len(r.logprobs)

(* One response with an array is evidence of it for the whole episode;     *)
(* one misaligned response spoils them all.                                *)
CapabilityEvidence(ep, responses) ==
    LET saw(f) == \E r \in responses : r[f] # None
    IN  [MODEL_IO |-> OfType(ep.events, "MODEL_REQUEST") # {}
                      /\ OfType(ep.events, "MODEL_RESPONSE") # {},
         VERIFIER_EVIDENCE |-> VerifierEvents(ep) # {},
         MODEL_TOKEN_IDS |-> saw("tokens"),
         MODEL_LOGPROBS |-> saw("logprobs"),
         ACTION_MASK |-> saw("mask"),
         ARRAYS_ALIGNED |-> /\ saw("tokens") \/ saw("logprobs") \/ saw("mask")
                            /\ \A r \in responses : Aligned(r)]

-----------------------------------------------------------------------------
(* PolicyFingerprint.  Temperature and top_p count in units of 1e-9.       *)

FingerprintFields == {"provider", "model_id", "base_model_revision", "adapter_revision",
                      "tokenizer_revision", "chat_template_checksum",
                      "tool_schema_checksum", "temperature", "top_p", "policy_generation"}

FingerprintComplete(fp) == \A f \in FingerprintFields : fp[f] # None

(* from_model_manifest: what a manifest cannot show stays missing.         *)
FromModelManifest(manifest) ==
    [f \in FingerprintFields \cup {"sampling_config"} |->
       CASE f \in {"provider", "model_id", "tokenizer_revision", "sampling_config"} ->
              manifest[f]
         [] f = "base_model_revision" -> manifest.revision
         [] OTHER -> None]

FingerprintMatches(a, b) ==
    /\ FingerprintComplete(a) /\ FingerprintComplete(b)
    /\ \A f \in FingerprintFields \ {"temperature", "top_p"} : a[f] = b[f]
    /\ \A f \in {"temperature", "top_p"} : a[f] - b[f] \in -1..1
    /\ a.sampling_config = b.sampling_config

(* The RL roles of evaluate_training_eligibility.                          *)
RewardAttested(ep) ==
    /\ ep.outcome.score # None
    /\ ep.outcome.validity = "VALID"
    /\ VerifierAttested(ep)

PoliciesEqual(behavior, target) ==
    /\ target # None
    /\ FingerprintMatches(behavior, target)

RlFields(ep, responses) ==
    LET e == CapabilityEvidence(ep, responses)
    IN  /\ e.MODEL_TOKEN_IDS /\ e.ACTION_MASK /\ e.ARRAYS_ALIGNED
        /\ RewardAttested(ep)

OffPolicyRole(ep, responses, behavior, target) ==
    /\ CertifyEpisode(ep) = "CERTIFIED"
    /\ RlFields(ep, responses)
    /\ ~PoliciesEqual(behavior, target)

OnPolicyRole(ep, responses, behavior, target) ==
    /\ CertifyEpisode(ep) = "CERTIFIED"
    /\ RlFields(ep, responses)
    /\ CapabilityEvidence(ep, responses).MODEL_LOGPROBS
    /\ PoliciesEqual(behavior, target)

TrainingStatus(ep, responses, behavior, target) ==
    CASE CertifyEpisode(ep) # "CERTIFIED" -> CertifyEpisode(ep)
      [] OnPolicyRole(ep, responses, behavior, target) -> "ON_POLICY_RL_ELIGIBLE"
      [] OffPolicyRole(ep, responses, behavior, target) -> "OFF_POLICY_RL_ELIGIBLE"
      [] SftEligible(ep) -> "SFT_ELIGIBLE"
      [] PreferenceEligible(ep) -> "PREFERENCE_ELIGIBLE"
      [] OTHER -> "REJECTED"

-----------------------------------------------------------------------------
(* Bundle-bound certification.  An artifact is a record [identity, status, *)
(* caps, traces, ...], traces a sequence of records with a reward; a       *)
(* bundle is [identity, episode, policies, report].                        *)

TokenCapabilities == {"TOKEN_IDS", "ACTION_MASK", "POLICY_VERSION", "VERIFIER_EVIDENCE"}

RequiredCapabilities(profile) ==
    TokenCapabilities \cup (IF profile = "ON_POLICY_RL" THEN {"BEHAVIOR_LOGPROBS"} ELSE {})

(* _artifact_has_finite_rewards: numeric rewards, finite or not.           *)
ArtifactHasRewards(artifact) ==
    /\ artifact.traces # <<>>
    /\ \A i \in DOMAIN artifact.traces : artifact.traces[i].reward # None

Attempt(id) == <<id.run, id.task, id.episode, id.attempt>>

EvidenceMissing(profile, bundle, artifact, target) ==
    \/ ~(RequiredCapabilities(profile) \subseteq artifact.caps)
    \/ ~ArtifactHasRewards(artifact)
    \/ bundle.identity.policy = None
    \/ profile = "ON_POLICY_RL" /\ target = None

WrongPolicy(profile, bundle, target) ==
    /\ target # None
    /\ (profile = "ON_POLICY_RL") = (bundle.identity.policy # target)

(* _certify_bundle_for_rl for an episode ep of identity id.                *)
CertifyBundleForRl(profile, ep, id, bundle, artifact, target) ==
    IF bundle = None \/ artifact = None THEN "INSUFFICIENT_EVIDENCE"
    ELSE CASE \/ bundle.episode # ep
              \/ Attempt(bundle.identity) # Attempt(id)
              \/ artifact.identity # bundle.identity
              \/ artifact \notin bundle.policies
              \/ artifact.status # "COMPLETED" -> "REJECTED"
           [] CertifyEpisode(ep) # "CERTIFIED" -> "INSUFFICIENT_EVIDENCE"
           [] ep.outcome.validity # "VALID" -> "REJECTED"
           [] ~VerifierAttested(ep) \/ bundle.report = None -> "INSUFFICIENT_EVIDENCE"
           [] WrongPolicy(profile, bundle, target) -> "REJECTED"
           [] EvidenceMissing(profile, bundle, artifact, target) -> "INSUFFICIENT_EVIDENCE"
           [] OTHER -> "ELIGIBLE"

(* certify_for without a bundle: the profiles of training roles.           *)
RoleVerdict(ep, eligible) ==
    CASE eligible -> "ELIGIBLE"
      [] CertifyEpisode(ep) = "INSUFFICIENT_EVIDENCE" -> "INSUFFICIENT_EVIDENCE"
      [] OTHER -> "REJECTED"

CertifyFor(profile, ep, id, bundle, artifact, target) ==
    CASE profile = "HARNESS_ANALYSIS" -> HarnessAnalysisVerdict(ep)
      [] profile = "EVALUATION" -> EvaluationVerdict(ep)
      [] profile = "SFT" -> RoleVerdict(ep, SftEligible(ep))
      [] profile = "PREFERENCE" -> RoleVerdict(ep, PreferenceEligible(ep))
      [] OTHER -> CertifyBundleForRl(profile, ep, id, bundle, artifact, target)

-----------------------------------------------------------------------------
(* assemble_execution_bundle: producer artifacts of one identity; those    *)
(* with token ids become the bundle's policy traces.                       *)

BundleRefused(id, epId, artifacts, report) ==
    \/ Attempt(epId) # Attempt(id)
    \/ artifacts = <<>>
    \/ \E i \in DOMAIN artifacts : artifacts[i].identity # id
    \/ \E i, j \in DOMAIN artifacts : i # j /\ artifacts[i] = artifacts[j]
    \/ report = None /\ \E i \in DOMAIN artifacts : "VERIFIER_EVIDENCE" \in artifacts[i].caps

ExecutionBundle(id, ep, artifacts, sources, report) ==
    [identity |-> id, episode |-> ep,
     policies |-> {a \in {artifacts[i] : i \in DOMAIN artifacts} : "TOKEN_IDS" \in a.caps},
     sources |-> sources, report |-> report]
=============================================================================
