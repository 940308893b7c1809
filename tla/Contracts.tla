----------------------------- MODULE Contracts -----------------------------
(***************************************************************************)
(* The documents components hand to one another (src/contracts and the     *)
(* dataclasses built the same way elsewhere): what from_dict accepts, and  *)
(* what to_dict writes of it.  A contract is a table of fields and kinds   *)
(* and, where fields depend on each other, a rule.                         *)
(*                                                                         *)
(* A JSON value is tagged with its type.  Texts are taken by class: blank, *)
(* a digest, an instant, a word.  Hash(v) is the text of the SHA-256 of v, *)
(* which no other value has.  Floats are whole numbers.                    *)
(***************************************************************************)
EXTENDS TrainingAdmission, SequencesExt

Null == <<"null">>
NaN == <<"nan">>
Bool(b) == <<"bool", b>>
Whole(n) == <<"int", n>>
Float(n) == <<"float", n>>
Text(s) == <<"text", s>>
Array(s) == <<"list", s>>
Object(d) == <<"object", d>>
Hash(v) == <<"hash", v>>
Sorted(S) == <<"sorted", S>>   \* the array of S in the order of sorted()

Refused == <<"refused">>
EmptyObject == Object(<<>>)

Blanks == {"", " "}
DigestTexts == {"digest", "digest2"}
Instants == <<"t1", "t2">>
Sensitive == {"token"}   \* a key of SENSITIVE_KEYS

Filled(v) == v[1] = "hash" \/ (v[1] = "text" /\ v[2] \notin Blanks)
IsDigest(v) == v[1] = "hash" \/ (v[1] = "text" /\ v[2] \in DigestTexts)
IsInstant(v) == v[1] = "text" /\ v[2] \in Range(Instants)
IsNumber(v) == v[1] \in {"int", "float"}
IsInt(v) == v[1] = "int"

(* When an instant was.                                                    *)
Moment(v) == CHOOSE i \in DOMAIN Instants : Instants[i] = v[2]

(* What tuple(value) makes of a value: an array is its items, a text its   *)
(* characters, an object its keys; a long text repeats a character.        *)
Iterable(v) == v[1] \in {"list", "sorted", "text", "hash", "object"}

Items(v) ==
    CASE v[1] = "list" -> v[2]
      [] v[1] = "sorted" -> SetToSeq(v[2])
      [] v[1] = "object" -> LET keys == SetToSeq(DOMAIN v[2])
                            IN  [i \in DOMAIN keys |-> Text(keys[i])]
      [] v[1] = "text" /\ v[2] \in {" ", "x", "y"} -> <<v>>
      [] v = Text("") -> <<>>
      [] OTHER -> <<Text("x"), Text("x")>>

(* Op of each item: a tuple, so that TLC evaluates every item once.        *)
Each(s, Op(_)) == <<>> \o [i \in DOMAIN s |-> Op(s[i])]

(* freeze_json: everything but a number that is not finite.                *)
RECURSIVE Frozen(_)
Frozen(v) ==
    /\ v # NaN
    /\ v[1] = "list" => \A i \in DOMAIN v[2] : Frozen(v[2][i])
    /\ v[1] = "sorted" => \A x \in v[2] : Frozen(x)
    /\ v[1] = "object" => \A f \in DOMAIN v[2] : Frozen(v[2][f])

RECURSIVE Redact(_)
Redact(v) ==
    CASE v[1] = "object" ->
           Object([f \in DOMAIN v[2] |->
                     IF f \in Sensitive THEN Text("REDACTED") ELSE Redact(v[2][f])])
      [] v[1] = "list" -> Array([i \in DOMAIN v[2] |-> Redact(v[2][i])])
      [] OTHER -> v

-----------------------------------------------------------------------------
(* The kinds of field.                                                     *)

RequiredText == <<"text">>
OptionalText == <<"text?">>
NonEmpty == <<"nonempty">>
Sha256 == <<"sha">>            \* validate_sha256: null passes
Digest == <<"digest">>         \* required_text and validate_sha256
Natural == <<"nat">>
OptionalNatural == <<"nat?">>
Positive == <<"pos">>
AnyInt == <<"any int">>
HttpStatus == <<"status">>
OptionalNumber == <<"number?">>
Number == <<"number">>
Latency == <<"latency">>
Floatable == <<"float">>       \* float(item): a Boolean is a number too
Timeout == <<"timeout">>
Cpus == <<"cpus">>
Boolean == <<"bool">>
OptionalBoolean == <<"bool?">>
Instant == <<"instant">>
OptionalInstant == <<"instant?">>
FrozenObject == <<"object">>
RedactedObject == <<"redacted">>
FrozenJson == <<"json">>
TextMap == <<"text map">>
PlainDict == <<"dict">>
Unchecked == <<"unchecked">>
Enum(S) == <<"enum", S>>
Version == Enum({"current"})
SetOf(S) == <<"set", S>>
ListOf(k) == <<"tuple", k, {}>>
UniqueList(k) == <<"tuple", k, {"unique"}>>
ListWith(k, flags) == <<"tuple", k, flags>>
StrictArray(k) == <<"tuple", k, {"array"}>>
Optional(k) == <<"optional", k>>
Doc(c) == <<"doc", c>>
DocSet(c) == <<"docs", c>>   \* members, which are sorted by their checksum

Distinct(s) == \A i, j \in DOMAIN s : i # j => s[i] # s[j]

Ascending(s) == \A i \in 2..Len(s) : s[i - 1][2] < s[i][2]

ScalarOk(k, v) ==
    CASE k = RequiredText -> Filled(v)
      [] k = OptionalText -> v = Null \/ Filled(v)
      [] k = NonEmpty -> v[1] = "hash" \/ (v[1] = "text" /\ v[2] # "")
      [] k = Sha256 -> v = Null \/ IsDigest(v)
      [] k = Digest -> IsDigest(v)
      [] k = Natural -> IsInt(v) /\ v[2] >= 0
      [] k = OptionalNatural -> v = Null \/ (IsInt(v) /\ v[2] >= 0)
      [] k = Positive -> IsInt(v) /\ v[2] >= 1
      [] k = AnyInt -> IsInt(v)
      [] k = HttpStatus -> IsInt(v) /\ v[2] \in 100..599
      [] k = OptionalNumber -> v = Null \/ IsNumber(v)
      [] k = Number -> IsNumber(v)
      [] k = Floatable -> IsNumber(v) \/ v[1] = "bool"
      [] k = Latency -> IsNumber(v) /\ v[2] >= 0
      [] k = Timeout -> v = NaN \/ (IsNumber(v) /\ v[2] > 0)
      [] k = Cpus -> IsNumber(v) /\ v[2] \in 1..64
      [] k = Boolean -> v[1] = "bool"
      [] k = OptionalBoolean -> v = Null \/ v[1] = "bool"
      [] k = Instant -> IsInstant(v)
      [] k = OptionalInstant -> v = Null \/ IsInstant(v)
      [] k = FrozenObject -> v[1] = "object" /\ Frozen(v)
      [] k = RedactedObject -> v[1] = "object" /\ Frozen(Redact(v))
      [] k = FrozenJson -> Frozen(v)
      [] k = TextMap -> /\ v[1] = "object"
                        /\ \A f \in DOMAIN v[2] : v[2][f][1] \in {"text", "hash"}
      [] k = PlainDict -> v[1] = "object" \/ (Iterable(v) /\ Items(v) = <<>>)
      [] k[1] = "enum" -> v[1] = "text" /\ v[2] \in k[2]
      [] OTHER -> TRUE

(* A score of zero, taken for no score.                                    *)
ScalarNormTruthy(k, v) ==
    CASE k = OptionalNumber -> IF v # Null /\ v[2] = 0 THEN Null ELSE v
      [] k \in {Number, Floatable, Latency, Timeout, Cpus} /\ IsNumber(v) -> Float(v[2])
      [] OTHER -> v

(* A number is kept as a float wherever the contract converts it.          *)
ScalarNorm(k, v) ==
    CASE k \in {OptionalNumber, Number, Floatable, Latency, Timeout, Cpus} /\ IsNumber(v) ->
           Float(v[2])
      [] k = Floatable -> Float(IF v[2] THEN 1 ELSE 0)
      [] k = RedactedObject -> Redact(v)
      [] k = PlainDict /\ v[1] # "object" -> EmptyObject
      [] OTHER -> v

ListOk(flags, s) ==
    /\ "unique" \in flags => Distinct(s)
    /\ "filled" \in flags => s # <<>>
    /\ "ascending" \in flags => Ascending(s)

-----------------------------------------------------------------------------
(* The contracts, field by field.                                          *)

EventTypes == {"MODEL_REQUEST", "MODEL_RESPONSE", "TOOL_CALL", "TOOL_RESULT",
               "SANDBOX_STARTED", "SANDBOX_COMMAND", "SANDBOX_FINISHED",
               "VERIFICATION_STARTED", "VERIFICATION_FINISHED", "EPISODE_FINISHED",
               "HARNESS_DECISION", "CONTEXT_SELECTED", "CONTEXT_COMPACTED",
               "RETRY_SCHEDULED", "TERMINATION_DECIDED"}
EventComponents == {"MODEL", "HARNESS", "TOOL", "SANDBOX", "MODEL_BACKEND", "EVALUATOR",
                    "EXTERNAL_SERVICE"}
EventStatuses == {"STARTED", "SUCCEEDED", "FAILED", "ERROR", "TIMEOUT", "CANCELLED", "UNKNOWN"}
CaptureCapabilities ==
    {"MODEL_IO", "MODEL_TOKEN_USAGE", "MODEL_TOKEN_IDS", "MODEL_LOGPROBS", "TOOL_IO",
     "SANDBOX_LIFECYCLE", "SANDBOX_COMMAND_IO", "FILE_ARTIFACTS", "VERIFIER_EVIDENCE",
     "HARNESS_DECISIONS", "CONTEXT_SELECTION", "CONTEXT_COMPACTION", "RETRY_DECISIONS",
     "TERMINATION_DECISIONS"}
TaskStatuses == {"SUCCESS", "FAILURE", "UNKNOWN"}
Validities == {"VALID", "INFRA_INVALID", "UNKNOWN"}
VerifierStatuses == {"PASSED", "FAILED", "ERROR", "TIMEOUT", "NOT_RUN", "UNKNOWN"}
ProcessStatuses == {"COMPLETED", "FAILED", "INFRA_INVALID", "TIMEOUT"}
ProducerCapabilities ==
    {"RAW_HARNESS_TRACE", "HARNESS_EVENTS", "TOKEN_IDS", "BEHAVIOR_LOGPROBS", "ACTION_MASK",
     "POLICY_VERSION", "VERIFIER_EVIDENCE", "ASYNC_SUBMISSION", "WEIGHT_SYNC", "RESAMPLING"}
EvidenceCapabilities == {"REQUEST_RESPONSE", "TOKEN_IDS", "BEHAVIOR_LOGPROBS", "POLICY_VERSION"}
EndpointKinds == {"CONTROLLED", "EXTERNAL_API"}
ConsumerProfiles == {"HARNESS_ANALYSIS", "EVALUATION", "SFT", "PREFERENCE", "OFF_POLICY_RL",
                     "ON_POLICY_RL"}
Verdicts == {"ELIGIBLE", "REJECTED", "INSUFFICIENT_EVIDENCE"}
ActionTypes == {"read_file", "search_code", "list_directory", "run_command", "edit_file",
                "write_file", "finish", "tool_error", "environment_observation"}
ResultStatuses == {"SUCCEEDED", "FAILED", "ERROR", "TIMEOUT", "NONE"}

ArtifactRefFields ==
    [schema_version |-> Version, artifact_id |-> RequiredText, kind |-> RequiredText,
     uri |-> RequiredText, media_type |-> RequiredText, sha256 |-> Sha256,
     size_bytes |-> Natural, producer_event_id |-> OptionalText, created_at |-> Instant]

ExecutionIdentityFields ==
    [schema_version |-> Version, run_id |-> RequiredText, task_id |-> RequiredText,
     episode_id |-> RequiredText, attempt_id |-> Positive, producer_id |-> RequiredText,
     producer_version |-> RequiredText, group_id |-> OptionalText,
     policy_fingerprint |-> Sha256, sampling_fingerprint |-> Sha256]

TraceEventFields ==
    [schema_version |-> Version, event_id |-> RequiredText, run_id |-> RequiredText,
     episode_id |-> RequiredText, trace_id |-> RequiredText, span_id |-> RequiredText,
     parent_span_id |-> OptionalText, sequence |-> Natural, timestamp |-> Instant,
     event_type |-> Enum(EventTypes), component |-> Enum(EventComponents),
     status |-> Enum(EventStatuses), attempt |-> Positive, attributes |-> FrozenObject,
     artifact_refs |-> UniqueList(RequiredText)]

HarnessManifestFields ==
    [schema_version |-> Version, name |-> RequiredText, version |-> RequiredText,
     revision |-> RequiredText, config_digest |-> Digest, policy_flags |-> FrozenObject,
     hook_version |-> OptionalText]

ModelManifestFields ==
    [schema_version |-> Version, provider |-> RequiredText, model_id |-> RequiredText,
     revision |-> RequiredText, sampling_config |-> FrozenObject,
     tokenizer_revision |-> OptionalText]

EnvironmentManifestFields ==
    [schema_version |-> Version, runtime_type |-> RequiredText, revision |-> RequiredText,
     image |-> OptionalText, resource_limits |-> FrozenObject,
     network_policy |-> RequiredText, task_snapshot |-> OptionalText]

EvaluatorManifestFields ==
    [schema_version |-> Version, name |-> RequiredText, revision |-> RequiredText,
     config_digest |-> Digest]

EpisodeOutcomeFields ==
    [task_status |-> Enum(TaskStatuses), execution_validity |-> Enum(Validities),
     verifier_status |-> Enum(VerifierStatuses), score |-> OptionalNumber,
     evidence_event_ids |-> UniqueList(RequiredText)]

EpisodeTerminationFields ==
    [reason |-> RequiredText, observable |-> Boolean, source_event_id |-> OptionalText]

IntegrityReportFields ==
    [state |-> Enum({"COMPLETE", "PARTIAL", "CORRUPT"}), duplicate_event_count |-> Natural,
     sequence_gaps |-> ListWith(Natural, {"ascending"}),
     orphan_span_ids |-> ListOf(RequiredText),
     missing_expected_event_types |-> ListOf(Enum(EventTypes)),
     assembler_version |-> RequiredText, input_checksum |-> Sha256,
     output_checksum |-> Sha256, warnings |-> ListOf(RequiredText)]

AgentEpisodeFields ==
    [schema_version |-> Version, episode_id |-> RequiredText, run_id |-> RequiredText,
     task_id |-> RequiredText, attempt |-> Positive,
     harness_manifest |-> Doc("HarnessManifest"), model_manifest |-> Doc("ModelManifest"),
     environment_manifest |-> Doc("EnvironmentManifest"),
     evaluator_manifest |-> Doc("EvaluatorManifest"),
     experiment_manifest_ref |-> RequiredText, capabilities |-> SetOf(CaptureCapabilities),
     events |-> ListOf(Doc("TraceEvent")), artifact_refs |-> ListOf(Doc("ArtifactRef")),
     started_at |-> Instant, ended_at |-> Instant, outcome |-> Doc("EpisodeOutcome"),
     termination |-> Doc("EpisodeTermination"), integrity |-> Doc("IntegrityReport"),
     source_lineage |-> FrozenObject]

ExecutionRunManifestFields ==
    [schema_version |-> Version, identity |-> Doc("ExecutionIdentity"),
     harness_manifest |-> Doc("HarnessManifest"), model_manifest |-> Doc("ModelManifest"),
     environment_manifest |-> Doc("EnvironmentManifest"),
     evaluator_manifest |-> Doc("EvaluatorManifest"),
     experiment_manifest_ref |-> RequiredText,
     capture_capabilities |-> SetOf(CaptureCapabilities),
     launcher_plan_checksum |-> Sha256, created_at |-> Instant]

ExecutionBundleFields ==
    [schema_version |-> Version, identity |-> Doc("ExecutionIdentity"),
     episode_checksum |-> Sha256,
     source_artifact_checksums |-> ListWith(Sha256, {"unique", "filled"}),
     policy_trace_checksums |-> UniqueList(Sha256), verifier_report_checksum |-> Sha256]

LocalVerifierReportFields ==
    [schema_version |-> Version, identity_checksum |-> Sha256,
     evaluator |-> Doc("EvaluatorManifest"), command |-> ListWith(NonEmpty, {"filled"}),
     execution_status |-> Enum(ProcessStatuses), verifier_status |-> Enum(VerifierStatuses),
     score |-> OptionalNumber, producer_artifact_checksum |-> Sha256,
     output_artifact_checksums |-> UniqueList(Sha256), created_at |-> Instant]

SemanticCheckFields ==
    [name |-> RequiredText, passed |-> Boolean, detail |-> RequiredText]

EpisodeCertificationFields ==
    [schema_version |-> Version, episode_id |-> RequiredText, episode_checksum |-> Sha256,
     certification_status |-> Enum({"CERTIFIED", "REJECTED", "INSUFFICIENT_EVIDENCE"}),
     verifier_attested |-> Boolean, semantic_checks |-> ListOf(Doc("SemanticCheck")),
     capability_evidence |-> TextMap, rejection_reasons |-> ListOf(RequiredText),
     validator_version |-> RequiredText]

EligibilityDecisionFields ==
    [engine_version |-> Version, episode_id |-> Unchecked, episode_checksum |-> Sha256,
     profile |-> Enum(ConsumerProfiles), verdict |-> Enum(Verdicts),
     reasons |-> ListOf(Unchecked), episode_certification_checksum |-> Sha256,
     training_eligibility_checksum |-> Sha256, execution_bundle_checksum |-> Sha256,
     policy_artifact_checksum |-> Sha256]

ProducerArtifactFields ==
    [schema_version |-> Version, identity |-> Doc("ExecutionIdentity"),
     status |-> Enum(ProcessStatuses), capabilities |-> SetOf(ProducerCapabilities),
     payload |-> FrozenObject, issues |-> ListOf(RequiredText)]

DatasetMemberFields ==
    [identity |-> Doc("ExecutionIdentity"), episode_checksum |-> Sha256,
     certification_checksum |-> Sha256, artifact_checksum |-> Sha256,
     split |-> Enum({"TRAIN", "DEVELOPMENT", "TEST", "REGRESSION"}),
     role |-> Enum({"EXAMPLE", "CHOSEN", "REJECTED", "TRAJECTORY"}),
     execution_bundle_checksum |-> Sha256, policy_artifact_checksum |-> Sha256]

DatasetManifestFields ==
    [schema_version |-> Version, dataset_id |-> RequiredText, revision |-> RequiredText,
     purpose |-> Enum({"HARNESS_REGRESSION", "EVALUATION", "SFT", "PREFERENCE",
                       "OFF_POLICY_RL", "ON_POLICY_RL"}),
     selection_policy_version |-> RequiredText, members |-> DocSet("DatasetMember"),
     metadata |-> FrozenObject]

ModelProxyRequestFields ==
    [schema_version |-> Version, identity |-> Doc("ExecutionIdentity"),
     request_id |-> RequiredText, endpoint_kind |-> Enum(EndpointKinds),
     model_id |-> RequiredText, messages |-> ListOf(RedactedObject),
     tools |-> ListOf(RedactedObject), sampling_config |-> FrozenObject]

ModelBackendResponseFields ==
    [response |-> RedactedObject, latency_ms |-> Latency, status_code |-> HttpStatus,
     backend_model_revision |-> OptionalText, prompt_token_ids |-> Optional(ListOf(AnyInt)),
     response_token_ids |-> Optional(ListOf(AnyInt)),
     response_logprobs |-> Optional(ListOf(Floatable)), usage |-> FrozenObject]

ModelCallEvidenceFields ==
    [schema_version |-> Unchecked, request |-> Doc("ModelProxyRequest"),
     backend |-> Doc("ModelBackendResponse"), capabilities |-> SetOf(EvidenceCapabilities),
     issues |-> ListOf(RequiredText)]

CanonicalActionFields ==
    [schema_version |-> Unchecked, action_id |-> RequiredText,
     action_type |-> Enum(ActionTypes), canonical_tool_name |-> Enum(ActionTypes),
     arguments |-> FrozenJson, normalized_arguments |-> FrozenJson,
     observation |-> FrozenJson, result_status |-> Enum(ResultStatuses),
     source_tool_name |-> RequiredText, source_harness |-> RequiredText,
     parent_action_id |-> OptionalText, action_timestamp |-> OptionalInstant,
     result_timestamp |-> OptionalInstant, evidence_event_ids |-> ListOf(RequiredText),
     environment_state_refs |-> ListOf(RequiredText), lossy |-> Unchecked,
     lossy_reasons |-> ListOf(Unchecked)]

CanonicalEpisodeFields ==
    [schema_version |-> Unchecked, episode_id |-> RequiredText, task_id |-> RequiredText,
     source_harness |-> RequiredText, model_id |-> RequiredText,
     verifier_status |-> Unchecked, actions |-> ListOf(Doc("CanonicalAction"))]

PolicyFingerprintFields ==
    [schema_version |-> Version, provider |-> RequiredText, model_id |-> RequiredText,
     base_model_revision |-> RequiredText, adapter_revision |-> OptionalText,
     tokenizer_revision |-> OptionalText, chat_template_checksum |-> OptionalText,
     tool_schema_checksum |-> OptionalText, sampling_config |-> PlainDict,
     temperature |-> OptionalNumber, top_p |-> OptionalNumber,
     policy_generation |-> OptionalText]

RecoveryDecisionFields ==
    [policy_version |-> RequiredText,
     action |-> Enum({"DISCOVER", "READ", "TERMINATE", "NO_ACTION"}),
     reason_code |-> RequiredText, trigger_event_ids |-> ListOf(RequiredText),
     scope_key |-> OptionalText, tool_name |-> OptionalText, arguments |-> FrozenObject,
     selected_candidates |-> ListOf(RequiredText), budget_before |-> OptionalNatural,
     budget_after |-> OptionalNatural, cache_hit |-> OptionalBoolean]

AdmittedVerlSequenceFields ==
    [sequence_schema_version |-> Version, episode_id |-> NonEmpty, group_id |-> NonEmpty,
     policy_fingerprint |-> NonEmpty, prompt_ids |-> ListWith(AnyInt, {"array", "filled"}),
     response_ids |-> ListWith(AnyInt, {"array", "filled"}),
     response_mask |-> StrictArray(AnyInt), response_logprobs |-> StrictArray(Number),
     reward |-> Number, num_model_calls |-> Natural, num_tool_rounds |-> Natural,
     member_id |-> NonEmpty, execution_bundle_checksum |-> NonEmpty,
     policy_artifact_checksum |-> NonEmpty]

SandboxLimitsFields ==
    [cpus |-> Cpus, memory_mb |-> Positive, pids |-> Positive, tmpfs_mb |-> Positive]

LocalExecutionSpecFields ==
    [schema_version |-> Version, identity |-> Doc("ExecutionIdentity"),
     harness_manifest |-> Doc("HarnessManifest"), model_manifest |-> Doc("ModelManifest"),
     evaluator_manifest |-> Doc("EvaluatorManifest"),
     experiment_manifest_ref |-> RequiredText, image |-> RequiredText,
     image_digest |-> Sha256, workspace |-> RequiredText,
     harness_argv |-> ListWith(NonEmpty, {"filled"}),
     verifier_argv |-> ListWith(NonEmpty, {"filled"}),
     upstream_chat_completions_url |-> Enum({"http://a", "https://b"}),
     endpoint_kind |-> Enum(EndpointKinds), task_snapshot |-> RequiredText,
     capture_capabilities |-> SetOf(CaptureCapabilities),
     capture_response_logprobs |-> Boolean, default_sampling_seed |-> OptionalNatural,
     platform |-> Unchecked, docker_host_gateway |-> Boolean,
     proxy_bind_host |-> RequiredText, run_as_host_user |-> Boolean,
     network_policy |-> Enum({"NONE", "BRIDGE_UNRESTRICTED"}),
     sandbox_profile |-> Enum({"FAST", "SECURE"}), sandbox_runtime |-> Enum({"runc", "runsc"}),
     limits |-> Doc("SandboxLimits"), harness_timeout_seconds |-> Timeout,
     verifier_timeout_seconds |-> Timeout, trace_id |-> RequiredText]

Schema ==
    [ArtifactRef |-> ArtifactRefFields, ExecutionIdentity |-> ExecutionIdentityFields,
     TraceEvent |-> TraceEventFields, HarnessManifest |-> HarnessManifestFields,
     ModelManifest |-> ModelManifestFields, EnvironmentManifest |-> EnvironmentManifestFields,
     EvaluatorManifest |-> EvaluatorManifestFields, EpisodeOutcome |-> EpisodeOutcomeFields,
     EpisodeTermination |-> EpisodeTerminationFields, IntegrityReport |-> IntegrityReportFields,
     AgentEpisode |-> AgentEpisodeFields, ExecutionRunManifest |-> ExecutionRunManifestFields,
     ExecutionBundle |-> ExecutionBundleFields, LocalVerifierReport |-> LocalVerifierReportFields,
     SemanticCheck |-> SemanticCheckFields, EpisodeCertification |-> EpisodeCertificationFields,
     EligibilityDecision |-> EligibilityDecisionFields, ProducerArtifact |-> ProducerArtifactFields,
     DatasetMember |-> DatasetMemberFields, DatasetManifest |-> DatasetManifestFields,
     ModelProxyRequest |-> ModelProxyRequestFields,
     ModelBackendResponse |-> ModelBackendResponseFields,
     ModelCallEvidence |-> ModelCallEvidenceFields, CanonicalAction |-> CanonicalActionFields,
     CanonicalEpisode |-> CanonicalEpisodeFields, PolicyFingerprint |-> PolicyFingerprintFields,
     RecoveryDecision |-> RecoveryDecisionFields,
     AdmittedVerlSequence |-> AdmittedVerlSequenceFields,
     SandboxLimits |-> SandboxLimitsFields, LocalExecutionSpec |-> LocalExecutionSpecFields]

(* What from_dict fills in when a field is missing; every other contract   *)
(* demands exactly its fields (strict_fields).                             *)
Defaults(c) ==
    CASE c = "HarnessManifest" ->
           [policy_flags |-> EmptyObject, hook_version |-> Null, schema_version |-> Text("current")]
      [] c = "ModelManifest" ->
           [sampling_config |-> EmptyObject, tokenizer_revision |-> Null,
            schema_version |-> Text("current")]
      [] c = "EnvironmentManifest" ->
           [image |-> Null, resource_limits |-> EmptyObject, network_policy |-> Text("x"),
            task_snapshot |-> Null, schema_version |-> Text("current")]
      [] c = "EvaluatorManifest" -> [schema_version |-> Text("current")]
      [] c = "SandboxLimits" ->
           [cpus |-> Float(2), memory_mb |-> Whole(2), pids |-> Whole(2), tmpfs_mb |-> Whole(2)]
      [] c = "RecoveryDecision" ->
           [policy_version |-> Text("x"), trigger_event_ids |-> Array(<<>>),
            scope_key |-> Null, tool_name |-> Null, arguments |-> EmptyObject,
            selected_candidates |-> Array(<<>>), budget_before |-> Null,
            budget_after |-> Null, cache_hit |-> Null]
      [] OTHER -> <<>>

-----------------------------------------------------------------------------
(* The rules between fields; d holds the fields as from_dict built them.   *)

(* The order of the texts that occur as identifiers.                       *)
TextOrder == <<"current", "digest", "digest2", "e1", "e2", "e3", "e4", "e5", "e6", "e7",
               "local", "t1", "t2", "x", "y">>
TextRank(v) == CHOOSE i \in DOMAIN TextOrder : TextOrder[i] = v[2]

Fields(v) == v[2]
Values(v) == Range(Items(v))

(* Assembler order: sequence, timestamp, event_id.                         *)
EventBefore(e, f) ==
    \/ e.sequence[2] < f.sequence[2]
    \/ /\ e.sequence = f.sequence
       /\ \/ Moment(e.timestamp) < Moment(f.timestamp)
          \/ e.timestamp = f.timestamp /\ TextRank(e.event_id) <= TextRank(f.event_id)

EpisodeRule(d) ==
    LET E == [i \in DOMAIN d.events[2] |-> Fields(d.events[2][i])]
        A == [i \in DOMAIN d.artifact_refs[2] |-> Fields(d.artifact_refs[2][i])]
        ids == {E[i].event_id : i \in DOMAIN E}
    IN  /\ \A i \in 2..Len(E) : EventBefore(E[i - 1], E[i])
        /\ \A i \in DOMAIN E : E[i].episode_id = d.episode_id /\ E[i].run_id = d.run_id
        /\ Cardinality(ids) = Len(E)
        /\ Cardinality({A[i].artifact_id : i \in DOMAIN A}) = Len(A)
        /\ Moment(d.started_at) <= Moment(d.ended_at)
        /\ Values(Fields(d.outcome).evidence_event_ids) \subseteq ids
        /\ Fields(d.termination).source_event_id \in ids \cup {Null}

(* Log-probabilities come with as many token ids.                          *)
AlignedRule(d) ==
    d.response_logprobs # Null =>
      /\ d.response_token_ids # Null
      /\ Len(d.response_logprobs[2]) = Len(d.response_token_ids[2])

Truthy(v) == ~(v = Null \/ (v[1] \in {"int", "float"} /\ v[2] = 0)
               \/ (v[1] = "bool" /\ ~v[2]) \/ (Iterable(v) /\ Items(v) = <<>>))

ActionRule(d) ==
    /\ d.parent_action_id # d.action_id
    /\ Truthy(d.lossy) <=> Truthy(d.lossy_reasons)

SequenceRule(d) ==
    /\ Len(d.response_ids[2]) = Len(d.response_mask[2])
    /\ Len(d.response_ids[2]) = Len(d.response_logprobs[2])
    /\ Values(d.response_mask) \subseteq {Whole(0), Whole(1)}
    /\ Whole(1) \in Values(d.response_mask)

BudgetRule(d) ==
    Null \notin {d.budget_before, d.budget_after} => d.budget_after[2] <= d.budget_before[2]

AsMember(m) ==
    [identity |-> [task |-> m.identity[2].task_id, group |->
                     IF m.identity[2].group_id = Null THEN None ELSE m.identity[2].group_id],
     split |-> m.split[2], role |-> m.role[2]]

(* The members are distinct documents already: the loader refuses a        *)
(* repeated one.                                                           *)
DatasetRule(d) ==
    LET M == {AsMember(Fields(m)) @@ [document |-> m] : m \in d.members[2]}
    IN  ~ManifestRefused(d.purpose[2], SetToSeq(M))

Rule(c, d) ==
    CASE c = "TraceEvent" -> d.parent_span_id # d.span_id
      [] c = "AgentEpisode" -> EpisodeRule(d)
      [] c = "ModelBackendResponse" -> AlignedRule(d)
      [] c = "CanonicalAction" -> ActionRule(d)
      [] c = "AdmittedVerlSequence" -> SequenceRule(d)
      [] c = "RecoveryDecision" -> BudgetRule(d)
      [] c = "DatasetManifest" -> DatasetRule(d)
      [] c = "LocalExecutionSpec" -> d.network_policy # Text("NONE")
      [] OTHER -> TRUE

-----------------------------------------------------------------------------
(* from_dict: Refused, or the document to_dict writes of what was built.   *)

RECURSIVE Load(_, _)

Sorting(list) == IF list = Refused THEN Refused ELSE Sorted(Range(list[2]))

ItemsBuilt(flags, v, built) ==
    IF \/ ~Iterable(v) \/ ("array" \in flags /\ v[1] # "list")
       \/ \E i \in DOMAIN built : built[i] = Refused
       \/ ~ListOk(flags, built)
    THEN Refused
    ELSE Array(built)

LoadItems(k, flags, v) ==
    ItemsBuilt(flags, v, Each(IF Iterable(v) THEN Items(v) ELSE <<>>, LAMBDA x : Load(k, x)))

FieldsBuilt(c, given, required, known, built) ==
    IF \/ ~(given \subseteq known)
       \/ ~(required \subseteq given)
       \/ \E f \in given : built[f] = Refused
       \/ ~Rule(c, built)
    THEN Refused
    ELSE Object(built)

LoadFields(c, v, schema, default) ==
    IF v[1] # "object" THEN Refused
    ELSE FieldsBuilt(c, DOMAIN v[2], DOMAIN schema \ DOMAIN default, DOMAIN schema,
                     [f \in DOMAIN schema \cap DOMAIN v[2] |-> Load(schema[f], v[2][f])]
                       @@ default)

Load(k, v) ==
    CASE k[1] = "doc" -> LoadFields(k[2], v, Schema[k[2]], Defaults(k[2]))
      [] k[1] \in {"docs", "set"} ->
           Sorting(IF k[1] = "docs" THEN LoadItems(Doc(k[2]), {"unique", "filled"}, v)
                   ELSE LoadItems(Enum(k[2]), {}, v))
      [] k[1] = "tuple" -> LoadItems(k[2], k[3], v)
      [] k[1] = "optional" -> IF v = Null THEN Null ELSE Load(k[2], v)
      [] OTHER -> IF ScalarOk(k, v) THEN ScalarNorm(k, v) ELSE Refused

FromDict(c, v) == Load(Doc(c), v)
=============================================================================
