------------------------- MODULE TrainingAdmission -------------------------
(***************************************************************************)
(* From certified artifacts to a training batch: compile_dataset           *)
(* (src/learning/dataset_compiler.py), the manifest's own tests            *)
(* (src/contracts/dataset.py), file-based admission (admit_on_policy_      *)
(* manifest of src/integrations/verl and of src/integrations/slime), and   *)
(* certify_batch of src/integrations/verl/manager.py.                      *)
(*                                                                         *)
(* A checksum is the value it is computed from, so a manifest member holds *)
(* the decision, bundle and artifact it was compiled from, and the three   *)
(* stores hold the files as they are read now: a changed file is a value   *)
(* the store no longer has.  Token arrays are records of lengths and of    *)
(* what the code tests in them.                                            *)
(***************************************************************************)
EXTENDS Basics

RequiredForTraining ==
    {"TOKEN_IDS", "ACTION_MASK", "BEHAVIOR_LOGPROBS", "POLICY_VERSION", "VERIFIER_EVIDENCE"}

-----------------------------------------------------------------------------
(* compile_dataset and DatasetManifest.                                    *)

PurposeProfile(purpose) ==
    IF purpose = "HARNESS_REGRESSION" THEN "HARNESS_ANALYSIS" ELSE purpose

CompileRefused(purpose, c) ==
    \/ c.decision.verdict # "ELIGIBLE"
    \/ c.decision.profile # PurposeProfile(purpose)
    \/ c.identity.episode # c.decision.episode
    \/ /\ purpose \in {"OFF_POLICY_RL", "ON_POLICY_RL"}
       /\ \/ c.decision.bundle = None \/ c.decision.artifact = None
          \/ c.artifact # c.decision.artifact

CompiledMember(c) ==
    [identity |-> c.identity, content |-> c.decision.content, decision |-> c.decision,
     bundle |-> c.decision.bundle, artifact |-> c.decision.artifact, split |-> c.split,
     role |-> c.role]

AllowedRoles(purpose) ==
    CASE purpose = "PREFERENCE" -> {"CHOSEN", "REJECTED"}
      [] purpose \in {"OFF_POLICY_RL", "ON_POLICY_RL"} -> {"TRAJECTORY"}
      [] OTHER -> {"EXAMPLE"}

PairsRefused(M) ==
    \E m \in M :
      LET pair == {n \in M : n.identity.group = m.identity.group}
      IN  \/ m.identity.group = None
          \/ Cardinality(pair) # 2
          \/ {n.role : n \in pair} # {"CHOSEN", "REJECTED"}
          \/ Cardinality({n.identity.task : n \in pair}) # 1

(* A manifest that looks for a leak only between attempts of one group.    *)
ManifestRefusedByGroup(purpose, members) ==
    LET M == {members[i] : i \in DOMAIN members}
    IN  \/ M = {}
        \/ \E i, j \in DOMAIN members : i # j /\ members[i] = members[j]
        \/ \E m, n \in M : m.identity.group = n.identity.group /\ m.split # n.split
        \/ \E m \in M : m.role \notin AllowedRoles(purpose)

(* A task belongs to one split, with all its attempts and groups.          *)
ManifestRefused(purpose, members) ==
    LET M == {members[i] : i \in DOMAIN members}
    IN  \/ M = {}
        \/ \E i, j \in DOMAIN members : i # j /\ members[i] = members[j]
        \/ \E m, n \in M : m.identity.task = n.identity.task /\ m.split # n.split
        \/ \E m \in M : m.role \notin AllowedRoles(purpose)
        \/ purpose = "PREFERENCE" /\ PairsRefused(M)

-----------------------------------------------------------------------------
(* One member.                                                             *)

DecisionRefused(m, stores) ==
    \/ m.role # "TRAJECTORY"
    \/ m.decision \notin stores.decisions
    \/ m.decision.profile # "ON_POLICY_RL"
    \/ m.decision.verdict # "ELIGIBLE"
    \/ m.decision.episode # m.identity.episode
    \/ m.decision.content # m.content
    \/ m.bundle = None \/ m.artifact = None
    \/ m.decision.bundle # m.bundle
    \/ m.decision.artifact # m.artifact

EvidenceRefused(m, stores) ==
    \/ m.bundle \notin stores.bundles
    \/ m.artifact \notin stores.artifacts
    \/ m.bundle.identity # m.identity \/ m.artifact.identity # m.identity
    \/ m.bundle.content # m.content
    \/ m.artifact \notin m.bundle.policies
    \/ m.artifact.status # "COMPLETED"
    \/ ~(RequiredForTraining \subseteq m.artifact.caps)
    \/ m.identity.group = None \/ m.identity.policy = None

MemberRefused(m, stores) == DecisionRefused(m, stores) \/ EvidenceRefused(m, stores)

(* _admit_episode_sequence: the episode-level sequence, whose stored       *)
(* schema version nobody compares.                                         *)
SequenceFieldsRefused(a) ==
    \/ a.sequence = None
    \/ a.sequence.episode # a.identity.episode
    \/ a.sequence.calls < 1
    \/ a.sequence.rounds < 1
    \/ a.sequence.ids # a.sequence.mask \/ a.sequence.ids # a.sequence.probs
    \/ ~a.sequence.trainable
    \/ ~a.sequence.finite
    \/ a.reward = None

AdmittedSequence(m) ==
    [episode |-> m.artifact.sequence.episode, group |-> m.identity.group,
     policy |-> m.identity.policy, reward |-> m.artifact.reward, artifact |-> m.artifact,
     bundle |-> m.bundle]

(* _admit_artifact_traces: the traces of the calls, each with its reward.  *)
TracesRefused(a) ==
    \/ a.traces = <<>>
    \/ \E i \in DOMAIN a.traces :
         LET t == a.traces[i]
         IN  \/ t.ids = 0 \/ t.mask # t.ids \/ t.probs # t.ids
             \/ ~t.trainable \/ ~t.finite
             \/ t.reward = None

AdmittedTraces(m) ==
    {[episode |-> m.identity.episode, index |-> i, group |-> m.identity.group,
      policy |-> m.identity.policy, reward |-> m.artifact.traces[i].reward] :
       i \in DOMAIN m.artifact.traces}

-----------------------------------------------------------------------------
(* The batch.                                                              *)

Members(manifest) == {manifest.members[i] : i \in DOMAIN manifest.members}

GroupEpisodes(M, g) == {m.identity.episode : m \in {n \in M : n.identity.group = g}}

Undersized(manifest, minimum) ==
    \E m \in Members(manifest) :
      Cardinality(GroupEpisodes(Members(manifest), m.identity.group)) < minimum

BatchRefused(manifest, stores, minimum) ==
    \/ manifest.purpose # "ON_POLICY_RL"
    \/ minimum < 2
    \/ \E m \in Members(manifest) : MemberRefused(m, stores)
    \/ Cardinality({m.identity.policy : m \in Members(manifest)}) # 1
    \/ Undersized(manifest, minimum)

(* _require_reward_variance speaks of groups and looks at the batch.       *)
NoRewardVariance(S) == Cardinality({s.reward : s \in S}) < 2

AdmitForVerl(manifest, stores, minimum) ==
    LET S == {AdmittedSequence(m) : m \in Members(manifest)}
    IN  IF \/ BatchRefused(manifest, stores, minimum)
           \/ \E m \in Members(manifest) : SequenceFieldsRefused(m.artifact)
           \/ NoRewardVariance(S)
        THEN None ELSE S

(* Slime's admission tests traces, and no variance.                        *)
AdmitForSlime(manifest, stores, minimum) ==
    IF \/ BatchRefused(manifest, stores, minimum)
       \/ \E m \in Members(manifest) : TracesRefused(m.artifact)
    THEN None
    ELSE UNION {AdmittedTraces(m) : m \in Members(manifest)}

(* certify_batch: one update of exactly the round's policy.                *)
CertifyBatchRefused(S, policy, minimum, taskOf) ==
    \/ S = {}
    \/ \E s \in S : s.policy # policy
    \/ \E s, t \in S : s # t /\ s.episode = t.episode
    \/ \E s \in S : Cardinality({t \in S : t.group = s.group}) < minimum
    \/ \E s \in S : taskOf[s.episode] = None
    \/ \E s, t \in S : s.group = t.group /\ taskOf[s.episode] # taskOf[t.episode]
    \/ \E s \in S : NoRewardVariance({t \in S : t.group = s.group})

-----------------------------------------------------------------------------
(* Four episodes of two groups, what the verifier found in each, and at    *)
(* most one thing that went wrong with the first of them, or with its      *)
(* whole group: a test group of a task that is trained on.                 *)

Episodes == 1..4
GroupOf(e) == IF e <= 2 THEN "g1" ELSE "g2"

DecisionFaults == {"profile", "verdict", "wrong episode", "wrong content", "no bundle",
                   "other artifact"}
ArtifactFaults == {"failed", "no capability", "other identity", "no sequence",
                   "other sequence", "no round", "misaligned", "no mask", "not finite",
                   "no reward"}
MemberFaults == {"role", "unbound", "no group", "other policy", "duplicate", "other task",
                 "other split", "same member", "task in test"}
FileFaults == {"decision lost", "bundle lost", "artifact changed"}
Faults == {"none"} \cup DecisionFaults \cup ArtifactFaults \cup MemberFaults \cup FileFaults

FaultyIdentity(e, fault) ==
    LET id == [episode |-> e, group |-> GroupOf(e), policy |-> "p", task |-> GroupOf(e)]
    IN  CASE fault = "no group" -> [id EXCEPT !.group = None]
          [] fault = "other policy" -> [id EXCEPT !.policy = "q"]
          [] fault = "duplicate" -> [id EXCEPT !.episode = 4]
          [] fault \in {"other task", "task in test"} -> [id EXCEPT !.task = "g2"]
          [] OTHER -> id

FaultyArtifact(id, reward, fault) ==
    LET sequence == [episode |-> id.episode, calls |-> 2, rounds |-> 1, ids |-> 3, mask |-> 3,
                     probs |-> 3, trainable |-> TRUE, finite |-> TRUE]
        trace == [ids |-> 1, mask |-> 1, probs |-> 1, trainable |-> TRUE, finite |-> TRUE,
                  reward |-> reward]
        a == [identity |-> id, status |-> "COMPLETED", caps |-> RequiredForTraining,
              reward |-> reward, sequence |-> sequence, traces |-> <<trace>>]
    IN  CASE fault = "failed" -> [a EXCEPT !.status = "INFRA_INVALID"]
          [] fault = "no capability" -> [a EXCEPT !.caps = @ \ {"BEHAVIOR_LOGPROBS"}]
          [] fault = "other identity" -> [a EXCEPT !.identity.episode = 9]
          [] fault = "no sequence" -> [a EXCEPT !.sequence = None, !.traces = <<>>]
          [] fault = "other sequence" -> [a EXCEPT !.sequence.episode = 9]
          [] fault = "no round" -> [a EXCEPT !.sequence.rounds = 0]
          [] fault = "misaligned" -> [a EXCEPT !.sequence.mask = 2, !.traces[1].mask = 0]
          [] fault = "no mask" ->
               [a EXCEPT !.sequence.trainable = FALSE, !.traces[1].trainable = FALSE]
          [] fault = "not finite" ->
               [a EXCEPT !.sequence.finite = FALSE, !.traces[1].finite = FALSE]
          [] fault = "no reward" -> [a EXCEPT !.reward = None, !.traces[1].reward = None]
          [] OTHER -> a

CertifiedArtifact(e, reward, fault) ==
    LET id == FaultyIdentity(e, fault)
        artifact == FaultyArtifact(id, reward, fault)
        bundle == [identity |-> id, content |-> e,
                   policies |-> IF fault = "unbound" THEN {} ELSE {artifact}]
    IN  [identity |-> id, split |-> IF fault \in {"other split", "task in test"} THEN "TEST" ELSE "TRAIN",
         role |-> IF fault = "role" THEN "EXAMPLE" ELSE "TRAJECTORY",
         artifact |-> IF fault = "other artifact" THEN None ELSE artifact,
         decision |-> [profile |-> IF fault = "profile" THEN "SFT" ELSE "ON_POLICY_RL",
                       verdict |-> IF fault = "verdict" THEN "REJECTED" ELSE "ELIGIBLE",
                       episode |-> IF fault = "wrong episode" THEN 9 ELSE id.episode,
                       content |-> IF fault = "wrong content" THEN 9 ELSE e,
                       bundle |-> IF fault = "no bundle" THEN None ELSE bundle,
                       artifact |-> artifact]]

(* "edited": the manifest was written by hand, past the compiler.          *)
AdmissionInputs ==
    [rewards : [Episodes -> {0, 1}], fault : Faults, minimum : {2}, edited : BOOLEAN]
    \cup [rewards : {[e \in Episodes |-> e % 2]}, fault : {"none"}, minimum : {1, 3},
          edited : {FALSE}]

Certified(input) ==
    [e \in Episodes |-> CertifiedArtifact(e, input.rewards[e],
                                          IF \/ e = 1
                                             \/ e = 2 /\ input.fault = "task in test"
                                          THEN input.fault ELSE "none")]

ManifestOf(members, fault) ==
    [purpose |-> "ON_POLICY_RL",
     members |-> IF fault = "same member" THEN Append(members, members[1]) ELSE members]

(* The files as admission finds them.                                      *)
StoresOf(members, fault) ==
    LET without(f) == {members[i] : i \in IF fault = f THEN 2..4 ELSE 1..4}
    IN  [decisions |-> {m.decision : m \in without("decision lost")},
         bundles |-> {m.bundle : m \in without("bundle lost")},
         artifacts |-> {m.artifact : m \in without("artifact changed")}
                       \cup (IF fault = "artifact changed"
                             THEN {[members[1].artifact EXCEPT !.reward = 7]} ELSE {})]

ManifestRead(input, certified, manifest) ==
    /\ input.edited \/ \A e \in Episodes : ~CompileRefused(manifest.purpose, certified[e])
    /\ ~ManifestRefused(manifest.purpose, manifest.members)

BatchCertified(batch, certified, minimum) ==
    /\ batch # None
    /\ ~CertifyBatchRefused(batch, "p", minimum,
                            [e \in Episodes |-> certified[e].identity.task])

Trainers(certified, minimum, verl, slime) ==
    [verl |-> verl, slime |-> slime, certified |-> BatchCertified(verl, certified, minimum)]

Admitted(input, certified, manifest, stores) ==
    IF ~ManifestRead(input, certified, manifest)
    THEN Trainers(certified, input.minimum, None, None)
    ELSE Trainers(certified, input.minimum, AdmitForVerl(manifest, stores, input.minimum),
                  AdmitForSlime(manifest, stores, input.minimum))

AdmittedOf(input, certified, manifest) ==
    Admitted(input, certified, manifest, StoresOf(manifest.members, input.fault))

AdmissionOf(input, certified) ==
    AdmittedOf(input, certified,
               ManifestOf([e \in Episodes |-> CompiledMember(certified[e])], input.fault))

(* The trainer's way through: manifest, admission, certificate.            *)
Admission(input) == AdmissionOf(input, Certified(input))
=============================================================================
