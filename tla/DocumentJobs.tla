---------------------------- MODULE DocumentJobs ---------------------------
(***************************************************************************)
(* The documents given to Contracts, StoredRuns and RunDocuments: one of   *)
(* each contract with one field altered, and the files of a run with one   *)
(* file altered.  The staged artifacts given to PolarFixtures: one of them *)
(* altered, or one file of the fixture packaged of them.  And what is      *)
(* asked of the result.                                                    *)
(***************************************************************************)
EXTENDS RunDocuments, PolarFixtures

JsonValues ==
    {Null, NaN, Bool(TRUE), Bool(FALSE), Whole(0), Whole(1), Whole(-1), Whole(200),
     Float(0), Float(1), EmptyObject, Object([x |-> NaN]), Object([x |-> Whole(1)]),
     Object([token |-> Text("x")]), Object([token |-> Text("y")])}
    \cup {Text(t) : t \in {"", " ", "x", "y", "digest", "digest2", "t1", "t2", "local"}}
    \cup {Array(s) : s \in {<<>>, <<Text("x")>>, <<Text("x"), Text("x")>>,
                            <<Text("y"), Text("x")>>, <<Text("digest")>>, <<Whole(1)>>,
                            <<Whole(1), Whole(0)>>, <<Null>>, <<NaN>>}}

-----------------------------------------------------------------------------
(* A document every contract accepts.                                      *)

RECURSIVE Base(_)

Sample(k) ==
    CASE k \in {RequiredText, NonEmpty} -> Text("x")
      [] k \in {Sha256, Digest} -> Text("digest")
      [] k \in {Natural, AnyInt} -> Whole(0)
      [] k = Positive -> Whole(1)
      [] k = HttpStatus -> Whole(200)
      [] k \in {Number, Latency, Floatable, Timeout, Cpus} -> Float(1)
      [] k = Boolean -> Bool(FALSE)
      [] k = Instant -> Text("t1")
      [] k \in {FrozenObject, RedactedObject, TextMap, PlainDict} -> EmptyObject
      [] k[1] = "enum" -> Text(CHOOSE x \in k[2] : TRUE)
      [] k[1] = "set" -> Array(<<>>)
      [] k[1] = "tuple" -> Array(IF "filled" \notin k[3] THEN <<>>
                                 ELSE IF k[2] = AnyInt THEN <<Whole(1)>>
                                 ELSE IF k[2] = Sha256 THEN <<Text("digest")>>
                                 ELSE <<Text("x")>>)
      [] k[1] = "doc" -> Base(k[2])
      [] k[1] = "docs" -> Array(<<Base(k[2])>>)
      [] OTHER -> Null

Particulars(c) ==
    CASE c = "ExecutionIdentity" -> [producer_id |-> Text("local"), producer_version |-> Text("local")]
      [] c = "TraceEvent" -> [event_type |-> Text("HARNESS_DECISION")]
      [] c = "AgentEpisode" -> [events |-> Array(<<Base("TraceEvent")>>),
                                artifact_refs |-> Array(<<Base("ArtifactRef")>>)]
      [] c = "EpisodeCertification" -> [semantic_checks |-> Array(<<Base("SemanticCheck")>>)]
      [] c = "CanonicalAction" -> [lossy |-> Bool(FALSE)]
      [] c = "CanonicalEpisode" -> [actions |-> Array(<<Base("CanonicalAction")>>)]
      [] c = "DatasetMember" -> [role |-> Text("EXAMPLE")]
      [] c = "DatasetManifest" -> [purpose |-> Text("EVALUATION")]
      [] c = "AdmittedVerlSequence" -> [response_mask |-> Array(<<Whole(1)>>),
                                        response_logprobs |-> Array(<<Float(0)>>)]
      [] c = "LocalExecutionSpec" -> [network_policy |-> Text("BRIDGE_UNRESTRICTED"),
                                      sandbox_profile |-> Text("FAST"),
                                      platform |-> Text("linux/amd64")]
      [] OTHER -> <<>>

Base(c) == Object(Particulars(c) @@ [f \in DOMAIN Schema[c] |-> Sample(Schema[c][f])])

-----------------------------------------------------------------------------
(* One alteration of a document, down to the fields of the documents in    *)
(* it: where, and what is there instead.                                   *)

Absent == <<"absent">>
Field(f) == <<"field", f>>
Item(i) == <<"item", i>>
To(w) == [at |-> <<>>, to |-> w]
Under(step, alterations) == {[a EXCEPT !.at = <<step>> \o @] : a \in alterations}

(* Fields that depend on each other, altered at once.                      *)
Together(c) ==
    LET ids == {Null, Array(<<>>), Array(<<Whole(1)>>), Array(<<Whole(1), Whole(0)>>)}
    IN  CASE c = "ModelBackendResponse" -> [response_token_ids |-> ids, response_logprobs |-> ids]
          [] c = "AdmittedVerlSequence" ->
               [response_ids |-> ids, response_mask |-> ids, response_logprobs |-> ids]
          [] c = "CanonicalAction" ->
               [lossy |-> {Bool(TRUE), Whole(0), Text("x")},
                lossy_reasons |-> {Array(<<>>), Array(<<Text("x")>>)}]
          [] c = "RecoveryDecision" ->
               [budget_before |-> {Null, Whole(0), Whole(1)},
                budget_after |-> {Null, Whole(0), Whole(1)}]
          [] c = "DatasetManifest" ->
               [purpose |-> {Text("SFT"), Text("PREFERENCE"), Text("ON_POLICY_RL")},
                members |-> {Array(<<With(Base("DatasetMember"), [role |-> Text(r)]),
                                     With(Base("DatasetMember"), [split |-> Text(p)])>>) :
                               r \in {"EXAMPLE", "CHOSEN", "TRAJECTORY"},
                               p \in {"TRAIN", "TEST"}}]
          [] c = "AgentEpisode" ->
               [events |-> {Array(<<With(Base("TraceEvent"), [sequence |-> Whole(n)]),
                                    With(Base("TraceEvent"), [event_id |-> Text(id),
                                                              timestamp |-> Text(t)])>>) :
                              n \in 0..1, id \in {"e1", "x", "y"}, t \in {"t1", "t2"}}]
          [] c = "LocalExecutionSpec" ->
               [sandbox_profile |-> {Text("FAST"), Text("SECURE")},
                sandbox_runtime |-> {Text("runc"), Text("runsc")},
                platform |-> {Text("linux/arm64")}]
          [] OTHER -> <<>>

FieldChoices(r) == {g \in [DOMAIN r -> UNION Range(r)] : \A f \in DOMAIN r : g[f] \in r[f]}

(* The values a field of kind k gets instead of v.                         *)
Replacements(k, v) ==
    JsonValues \cup
    CASE k[1] = "enum" -> {Text(x) : x \in k[2]}
      [] k[1] = "set" -> {Array(<<Text(x)>>) : x \in k[2]}
                           \cup {Array(<<Text(x), Text(y)>>) :
                                   x, y \in {CHOOSE z \in k[2] : TRUE, "POLICY_VERSION"}}
      [] OTHER -> {}

RECURSIVE Alterations(_, _)

AlteredFields(c, v) ==
    UNION {Under(Field(f), Alterations(Schema[c][f], v[2][f]) \cup {To(Absent)}) :
             f \in DOMAIN Schema[c]}
    \cup Under(Field("extra"), {To(Null)})
    \cup (IF Together(c) = <<>> THEN {} ELSE {To(With(v, g)) : g \in FieldChoices(Together(c))})

AlteredItems(k, v) == UNION {Under(Item(i), Alterations(k, v[2][i])) : i \in DOMAIN v[2]}

AlteredValues(v) ==
    UNION {Under(Field(f), {To(w) : w \in {Null, Text("PASSED"), Text("FAILED"), Text("digest"),
                                           Whole(1), Array(<<Text("e1")>>),
                                           Array(<<Text("y")>>)}}) : f \in DOMAIN v[2]}

Alterations(k, v) ==
    {To(w) : w \in Replacements(k, v)} \cup
    CASE k[1] = "tuple" /\ v[1] = "list" -> AlteredItems(k[2], v)
      [] k[1] = "docs" -> AlteredItems(Doc(k[2]), v)
      [] k = FrozenObject -> AlteredValues(v)
      [] k[1] = "doc" -> AlteredFields(k[2], v)
      [] OTHER -> {}

RECURSIVE Apply(_, _)
Apply(v, a) ==
    LET step == Head(a.at)
        rest == [a EXCEPT !.at = Tail(@)]
    IN  CASE a.at = <<>> -> a.to
          [] a.at # <<>> /\ step[1] = "item" ->
               Array([v[2] EXCEPT ![step[2]] = Apply(@, rest)])
          [] a.at = <<step>> /\ a.to = Absent ->
               Object([g \in DOMAIN v[2] \ {step[2]} |-> v[2][g]])
          [] OTHER -> With(v, [g \in {step[2]} |-> Apply(Get(v[2], step[2]), rest)])

(* v and w say the same in a field of kind k: whole numbers and floats,    *)
(* the order and repetition of a set, what is redacted, an absent field    *)
(* and its default, and a text read as an array of characters.             *)
RECURSIVE Alike(_, _, _)
Alike(k, v, w) ==
    \/ v = w
    \/ /\ k \in {OptionalNumber, Number, Floatable, Latency, Timeout, Cpus}
       /\ v # Null /\ w # Null /\ ScalarNorm(Floatable, v) = ScalarNorm(Floatable, w)
    \/ k = RedactedObject /\ Redact(v) = Redact(w)
    \/ /\ k = PlainDict /\ ~Truthy(v) /\ ~Truthy(w)
    \/ k[1] = "set" /\ Values(v) = Values(w)
    \/ /\ k[1] \in {"tuple", "docs"} /\ Len(Items(v)) = Len(Items(w))
       /\ \A i \in DOMAIN Items(v) :
            Alike(IF k[1] = "docs" THEN Doc(k[2]) ELSE k[2], Items(v)[i], Items(w)[i])
    \/ k[1] = "optional" /\ Null \notin {v, w} /\ Alike(k[2], v, w)
    \/ /\ k[1] = "doc"
       /\ \A f \in DOMAIN Schema[k[2]] :
            Alike(Schema[k[2]][f], (v[2] @@ Defaults(k[2]))[f], (w[2] @@ Defaults(k[2]))[f])

-----------------------------------------------------------------------------
(* The jobs.                                                               *)

BaseSpec == FromDict("LocalExecutionSpec", Base("LocalExecutionSpec"))
BaseRequest == Base("ModelProxyRequest")
BaseBackend == Base("ModelBackendResponse")
BothCompleted == [harness |-> "COMPLETED", verifier |-> "COMPLETED"]

FilesOf(spec, local, script, end) ==
    RunFiles(spec, PrepareLocalExecution(spec, local), script, BaseRequest, BaseBackend, end)

BaseRun == FilesOf(BaseSpec, FALSE, <<>>, BothCompleted)

Hooks ==
    {ModelRequest, ModelResponse("SUCCEEDED", Array(<<Whole(1)>>), Array(<<Float(0)>>)),
     ModelResponse("ERROR", Null, Null), ToolCall, ToolResult("SUCCEEDED", Float(1)),
     ToolResult("FAILED", Null), CommandResult("TIMEOUT"),
     EmitRecoveryDecision(Base("RecoveryDecision")[2]), EmitRetryScheduled(Whole(1)),
     EmitTerminationDecided(FALSE), EmitContextSelected, EmitContextCompacted(1, 0)}

Parts ==
    [events |-> ListOf(Doc("TraceEvent")), evidence |-> ListOf(Doc("ModelCallEvidence")),
     refs |-> ListOf(Doc("ArtifactRef")), manifest |-> Doc("ExecutionRunManifest"),
     artifact |-> Doc("ProducerArtifact")]

(* The files of a run as documents: a file of lines is an array.           *)
AsFile(part, value) == IF Parts[part][1] = "tuple" THEN Array(value) ELSE value

(* A line dropped, repeated or out of place.                               *)
AlteredLines(lines) ==
    {To(Array(RemoveAt(lines, i))) : i \in DOMAIN lines}
    \cup {To(Array(Append(lines, lines[i]))) : i \in DOMAIN lines}
    \cup {To(Array([lines EXCEPT ![i] = lines[i + 1], ![i + 1] = lines[i]])) :
            i \in 1..(Len(lines) - 1)}

AlteredFile(part, value) ==
    CASE Parts[part][1] = "tuple" ->
           UNION {Under(Item(i), Alterations(Parts[part][2], value[i])) :
                    i \in DOMAIN value \cap {2, Len(value)}}
           \cup AlteredLines(value)
      [] OTHER -> AlteredFields(Parts[part][2], value)

(* An object that is gone, or has other bytes.                             *)
StoredAlterations(run) ==
    UNION {[what : {"stored"}, part : {p}, value : AlteredFile(p, run[p])] : p \in DOMAIN Parts}
    \cup [what : {"stored"}, part : {"objects"}, object : DOMAIN run.objects,
          value : {Absent, Text("other")}]

AlteredFiles(run, part, change) ==
    LET file == Apply(AsFile(part, run[part]), change)
    IN  [run EXCEPT ![part] = IF Parts[part][1] = "tuple" THEN file[2] ELSE file]

AlteredObjects(run, o, change) ==
    IF change = Absent THEN [run EXCEPT !.objects = [u \in DOMAIN @ \ {o} |-> @[u]]]
    ELSE [run EXCEPT !.objects[o].content = change]

AlteredRun(input, run) ==
    IF input.part = "objects" THEN AlteredObjects(run, input.object, input.value)
    ELSE AlteredFiles(run, input.part, input.value)

EvidenceRows ==
    {CaptureModelCall(FromDict("ModelProxyRequest", With(BaseRequest, [request_id |-> Text(id)])),
                      FromDict("ModelBackendResponse",
                               With(BaseBackend, [response_token_ids |-> ids,
                                                  response_logprobs |-> ids]))) :
       id \in {"x", "y"}, ids \in {Null, Array(<<Whole(1)>>)}}

DocumentInputs ==
    UNION {[what : {"document"}, contract : {c}, value : AlteredFields(c, Base(c))] :
             c \in DOMAIN Schema}
    \cup [what : {"spec"}, local : BOOLEAN,
          value : AlteredFields("LocalExecutionSpec", Base("LocalExecutionSpec"))]
    \cup [what : {"run"}, value : UNION {[1..n -> Hooks] : n \in 0..2},
          end : {e \in [harness : ProcessStatuses, verifier : ProcessStatuses] :
                   e.harness \in Unverifiable => e.verifier = "FAILED"}]
    \cup [what : {"log"}, value : UNION {[1..n -> EvidenceRows \cup {Torn}] : n \in 0..2},
          next : EvidenceRows]
    \cup StoredAlterations(BaseRun)

GivenSpec(input) == Apply(Base("LocalExecutionSpec"), input.value)

SpecJob(spec, prepared) ==
    IF prepared = Refused THEN Refused
    ELSE With(prepared, [record |-> FinalizeLocal(
                RunFiles(spec, prepared, <<>>, BaseRequest, BaseBackend, BothCompleted))])

RunJob(files) ==
    [record |-> FinalizeLocal(files), events |-> files.events,
     replayed |-> EmitAll(Fields(BaseSpec), files.events, files.drafts)]

DocumentJob(input) ==
    CASE input.what = "document" ->
           FromDict(input.contract, Apply(Base(input.contract), input.value))
      [] input.what = "spec" ->
           LET spec == FromDict("LocalExecutionSpec", GivenSpec(input))
           IN  SpecJob(spec, PrepareLocalExecution(spec, input.local))
      [] input.what = "run" -> RunJob(FilesOf(BaseSpec, FALSE, input.value, input.end))
      [] input.what = "stored" -> FinalizeLocal(AlteredRun(input, BaseRun))
      [] input.what = "log" -> AppendEvidence(OpenEvidenceLog(input.value), input.next)

-----------------------------------------------------------------------------
(* What is asked of them.                                                  *)

RECURSIVE Mentions(_, _)
Mentions(v, x) ==
    \/ v = x
    \/ v[1] = "list" /\ \E i \in DOMAIN v[2] : Mentions(v[2][i], x)
    \/ v[1] = "sorted" /\ \E y \in v[2] : Mentions(y, x)
    \/ v[1] = "object" /\ \E f \in DOMAIN v[2] : Mentions(v[2][f], x)

(* Contracts with a field nothing checks.                                  *)
Unguarded == {"EligibilityDecision", "ModelCallEvidence", "CanonicalAction", "CanonicalEpisode",
              "PolicyFingerprint", "LocalExecutionSpec"}

BaseRead == [c \in DOMAIN Schema |-> FromDict(c, Base(c))]
BaseRecord == FinalizeLocal(BaseRun)
BaseManifest == PrepareLocalExecution(BaseSpec, FALSE)[2].manifest

(* A document that is read is written the same ever after, has a checksum, *)
(* and the checksum of another document only if that says the same.        *)
ReadBinds(c, given, read) ==
    LET base == BaseRead[c]
    IN  /\ base # Refused
        /\ read # Refused =>
             /\ FromDict(c, read) = read
             /\ Frozen(read) \/ c \in Unguarded
             /\ read = base => Alike(Doc(c), given, Base(c))
        /\ c = "TraceEvent" => ParseTraceEvent(given) = read

(* Fields of a specification that the manifest of its run leaves open.     *)
Unbound == {"verifier_argv", "upstream_chat_completions_url", "endpoint_kind", "trace_id",
            "capture_response_logprobs", "default_sampling_seed", "proxy_bind_host"}

PlanBinds(given, out) ==
    LET prepared == Fields(out)
        secure == Get(given[2], "sandbox_profile") = Text("SECURE")
        same == prepared.manifest = BaseManifest
        bound == DOMAIN LocalExecutionSpecFields \ (Unbound \cup {"capture_capabilities"})
    IN  /\ ~Mentions(out, Secret)
        /\ \A plan \in {prepared.plan[2], prepared.verifier[2]} :
             /\ secure => plan.sandbox_runtime = Text("runsc")
             /\ plan.sandbox_runtime \in Range(plan.argv[2])
             /\ plan.network_policy \in Range(plan.argv[2])
        /\ prepared.verifier[2].network_policy = Text("NONE")
        /\ prepared.verifier[2].secret_environment_keys = Sorted({})
        /\ same => \A f \in bound :
             f \in DOMAIN given[2] =>
               Alike(LocalExecutionSpecFields[f], given[2][f], Base("LocalExecutionSpec")[2][f])
        /\ prepared.record # Refused

EpisodeIn(record) == record[2].episode_checksum[2][2]

(* Every call of the script has its answer.                                *)
Answered(script) ==
    \A p \in {<<"MODEL_REQUEST", "MODEL_RESPONSE">>, <<"TOOL_CALL", "TOOL_RESULT">>} :
      (\E i \in DOMAIN script : script[i].event_type = Text(p[1])) =>
        \E i \in DOMAIN script : script[i].event_type = Text(p[2])

(* What the orchestrator writes is finalized: nothing is lost, a capture   *)
(* replayed on its own log changes nothing, the episode is complete exactly *)
(* when every call was answered, and its verdict is the verifier's.        *)
RunReadsBack(script, end, out) ==
    LET episode == EpisodeIn(out.record).assembled
        verdict == IF end.harness \in Unverifiable THEN "NOT_RUN"
                   ELSE VerifierOutcome(end.verifier).verdict
    IN  /\ out.record # Refused
        /\ out.replayed = out.events
        /\ ~Mentions(Array(out.events), Object([token |-> Text("x")]))
        /\ (episode.integrity = "COMPLETE") <=> Answered(script)
        /\ episode.outcome.verifier = verdict
        /\ episode.outcome.validity = "VALID" => verdict \in {"PASSED", "FAILED"}

(* The record of a run that was tampered with differs, unless the files    *)
(* say the same; references may come in any order.                         *)
StoredBinds(part, file, base, same) ==
    same =>
      /\ part # "objects"
      /\ IF part = "refs" THEN Values(file) = Values(base)
         ELSE Alike(Parts[part], file, base)

LogReopens(rows, next, after) ==
    after # Refused =>
      /\ OpenEvidenceLog(after[3]) = after
      /\ next \in Range(after[3]) /\ Len(after[3]) <= Len(rows) + 1
      /\ Text("BEHAVIOR_LOGPROBS") \in next[2].capabilities[2] =>
           /\ Text("TOKEN_IDS") \in next[2].capabilities[2]
           /\ Len(next[2].backend[2].response_logprobs[2])
                = Len(next[2].backend[2].response_token_ids[2])

JobBinds(input, out) ==
    CASE input.what = "document" ->
           ReadBinds(input.contract, Apply(Base(input.contract), input.value), out)
      [] input.what = "spec" -> out # Refused => PlanBinds(GivenSpec(input), out)
      [] input.what = "run" -> RunReadsBack(input.value, input.end, out)
      [] input.what = "stored" ->
           LET part == input.part
               run == BaseRun
           IN  StoredBinds(part, AsFile(part, AlteredRun(input, run)[part]),
                           AsFile(part, run[part]), out = BaseRecord)
      [] input.what = "log" -> LogReopens(input.value, input.next, out)

-----------------------------------------------------------------------------
(* Golden fixtures.                                                        *)

MaxBytes == 1
Apart == [place |-> "apart", kind |-> "none", files |-> <<>>]
Regular(content) == [kind |-> "regular", content |-> content, size |-> 1]
DirOf(files) == [kind |-> "dir", files |-> files]

PatchContent == Prose("clean")

VerifierResult(type) ==
    LET ran == type # "coding_invalid_infra"
        won == type = "coding_success"
    IN  Object([verifier_completed |-> Bool(ran), timed_out |-> Bool(~ran),
                crashed |-> Bool(FALSE), exit_code |-> Whole(0),
                resolved |-> IF ran THEN Bool(won) ELSE Null,
                reward |-> IF ~ran THEN Null ELSE Whole(IF won THEN 1 ELSE 0),
                error_type |-> Null])

VerifierEvidence(type) ==
    Object([schema_version |-> Text("current"), outcome_class |-> Text(OutcomeClass(type)),
            task_id |-> Text("x"), instance_id |-> Text("x"), base_commit |-> Text("commit"),
            runtime_image_identity |-> Text("x"), synthetic_fault |-> Bool(FALSE),
            test |-> Object([command |-> Text("x"), timeout_seconds |-> Whole(1)]),
            result |-> VerifierResult(type), patch_sha256 |-> Hash(PatchContent),
            provenance |-> Object([source_file |-> Text("x"), json_path |-> Text("x")])])

ReplayEvidence(type) ==
    Object([schema_version |-> Text("current"), clean_workspace |-> Bool(TRUE),
            patch_applied |-> Bool(TRUE), verifier_completed |-> Bool(TRUE),
            resolved |-> Bool(type = "coding_success")])

Summary(type) ==
    LET evaluation == Object([outcome_reward |-> Float(1),
                              report |-> Object([error_eval |-> Bool(FALSE)])])
    IN  IF type \in {"calculator_fault", "coding_invalid_infra"}
        THEN Object([status |-> Text("error"), error |-> Text("x"), reward |-> Null])
        ELSE Object([status |-> Text("completed"), reward |-> Null, trajectory |->
               Object([metadata |-> Object([evaluation |-> evaluation])])])

StagedContent(type, p) ==
    CASE p = "summary.json" -> Json(Summary(type))
      [] p = "verifier-evidence.json" -> Json(VerifierEvidence(type))
      [] p = "replay.json" -> Json(ReplayEvidence(type))
      [] p = Patch -> PatchContent
      [] p \in Logs -> Prose("log")
      [] OTHER -> Json(Object([headers |-> Object([authorization |-> Text("<redacted>")])]))

Staged(type) ==
    [p \in DOMAIN RequiredStaging(type) \cup {"gateway.log", "task-metadata.json"} |->
       Regular(StagedContent(type, p))]

Described ==
    [f \in RequiredSource |-> IF f = "polar_commit" THEN Text("commit") ELSE Text("x")]
    @@ [fixture_id |-> Text("x"), synthetic_fault |-> Null, policy_version |-> Null,
        created_at_utc |-> Null, known_missing_fields |-> <<>>, redactions |-> Null,
        notes |-> <<>>]

Package(type, files, metadata, output) ==
    PackageFixture(DirOf(files), output, "current", type, metadata, MaxBytes)

Golden == [type \in FixtureTypes |-> Package(type, Staged(type), Described, Apart)]

-----------------------------------------------------------------------------
(* Alterations: a value anywhere in a document, or a file.                 *)

FixtureValues ==
    {Null, NaN, Bool(TRUE), Bool(FALSE), Whole(0), Whole(1), Whole(-1), Float(1),
     EmptyObject, Array(<<>>), Array(<<Text(PrivateKey)>>),
     Object([authorization |-> Text("x")]), Object([count |-> Whole(1)])}
    \cup {Text(t) : t \in {"", "x", "tbd", "digest", "t1", "commit", PrivateKey, "completed",
                           "timeout", "raw_log", "../x", "gateway.log", "text/plain"}
                          \cup FixtureTypes \cup {OutcomeClass(t) : t \in Coding}}

RECURSIVE Anywhere(_)
Anywhere(v) ==
    {To(w) : w \in FixtureValues} \cup
    CASE v[1] = "object" ->
           UNION {Under(Field(f), Anywhere(v[2][f]) \cup {To(Absent)}) : f \in DOMAIN v[2]}
           \cup Under(Field("extra"), {To(Whole(1))})
      [] v[1] = "list" ->
           UNION {Under(Item(i), Anywhere(v[2][i])) : i \in DOMAIN v[2]}
           \cup {To(Array(RemoveAt(v[2], i))) : i \in DOMAIN v[2]}
           \cup {To(Array(Append(v[2], v[2][i]))) : i \in DOMAIN v[2]}
      [] OTHER -> {}

OtherFiles ==
    [kind : {"regular", "symlink", "dir"}, size : {1},
     content : {Prose("clean"), Prose(PrivateKey), Json(EmptyObject)}]
    \cup [kind : {"regular"}, size : {1, 2}, content : {Binary, Json(Text("x"))}]

Gone == [kind |-> "gone", size |-> 0, content |-> Binary]

(* A file that is gone, other or new.                                      *)
AlteredPaths(files) ==
    [path : Range(Paths), to : OtherFiles \cup {Gone}]
    \cup UNION {[path : {p}, to : {[files[p] EXCEPT !.content = Json(Apply(@[2], a))] :
                                     a \in Anywhere(files[p].content[2])}] :
                  p \in {q \in DOMAIN files : IsJson(files, q)}}
    \cup UNION {[path : {p}, to : {[files[p] EXCEPT !.kind = "symlink"]}] : p \in DOMAIN files}

AlterPath(files, a) ==
    IF a.to = Gone THEN [p \in DOMAIN files \ {a.path} |-> files[p]]
    ELSE [p \in {a.path} |-> a.to] @@ files

(* What a verifier may say, all at once.                                   *)
Results ==
    {Object([exit_code |-> Null, verifier_completed |-> Bool(c), timed_out |-> Bool(t),
             crashed |-> Bool(k), resolved |-> r, reward |-> w, error_type |-> e]) :
       c, t, k \in BOOLEAN, r \in {Null, Bool(TRUE), Bool(FALSE)},
       w \in {Null, Whole(0), Float(1), NaN}, e \in {Null, Text("x")}}

ResultPaths(type) ==
    [path : {"verifier-evidence.json"},
     to : {Regular(Json(With(VerifierEvidence(type), [result |-> r]))) : r \in Results}]

Descriptions ==
    {[Described EXCEPT ![f] = Text(t)] :
       f \in RequiredSource \cup {"fixture_id", "policy_version", "created_at_utc"},
       t \in {"", "x", "tbd", "commit", "t2"}}
    \cup {[Described EXCEPT !.known_missing_fields = s] :
            s \in {<<Text("x"), Text("x")>>, <<Text("")>>}}
    \cup {[Described EXCEPT !.redactions = r] :
            r \in {Binary, Json(EmptyObject), Json(Array(<<Text("x")>>)),
                   Json(Array(<<Object([path |-> Text("x"), rule |-> Text("x"),
                                        count |-> Whole(1)])>>)), Json(Array(<<EmptyObject>>))}}
    \cup {[Described EXCEPT !.synthetic_fault = Bool(TRUE)]}

Outputs ==
    [place : {"apart", "same", "inside"}, kind : {"none", "file", "symlink"}, files : {<<>>}]
    \cup [place : {"apart"}, kind : {"dir"},
          files : {[p \in {q} |-> f] : q \in {Readme, "extra.md", "request.json"}, f \in OtherFiles}]

FixtureInputs ==
    UNION {
      [what : {"staging"}, type : {t}, metadata : {Described}, output : {Apart},
       change : AlteredPaths(Staged(t))
                  \cup (IF t \in Coding THEN ResultPaths(t) ELSE {})]
      \cup [what : {"staging"}, type : {t}, metadata : Descriptions, output : {Apart},
            change : {[path |-> "extra.md", to |-> Gone]}]
      \cup [what : {"staging"}, type : {t}, metadata : {Described}, output : Outputs,
            change : {[path |-> "extra.md", to |-> Gone]}]
      \cup [what : {"tampered"}, type : {t}, change : AlteredPaths(Golden[t][2])]
      \cup [what : {"interrupted"}, type : {t}, copied : 0..Cardinality(DOMAIN Golden[t][2])] :
      t \in FixtureTypes}

(* The files a copy that was interrupted left, and a second attempt.       *)
InterruptedJob(type, left) ==
    [verified |-> Verified(VerifyFixture(left, "current", MaxBytes)),
     again |-> Package(type, Staged(type), Described, left @@ Apart)]

GoldenJob(input, golden) ==
    CASE input.what = "tampered" ->
           VerifyFixture(DirOf(AlterPath(golden, input.change)), "current", MaxBytes)
      [] input.what = "interrupted" ->
           InterruptedJob(input.type, DirOf(Copied(Apart, golden, input.copied)))

FixtureJob(input) ==
    IF input.what = "staging"
    THEN Package(input.type, AlterPath(Staged(input.type), input.change),
                 input.metadata, input.output)
    ELSE GoldenJob(input, Golden[input.type][2])

-----------------------------------------------------------------------------
(* What is asked of them.                                                  *)

(* The manifest binds these; the rest of it describes where the files come *)
(* from, which nothing in them shows.                                      *)
Bound(m) ==
    <<Member(m, "synthetic_fault"),
      {<<e.path, e.bytes, e.sha256>> : e \in {Items(Member(m, "files"))[i][2] :
                                                i \in DOMAIN Items(Member(m, "files"))}}>>

(* A run that timed out, crashed or did not complete carries no reward,    *)
(* and the patch that was judged is the one in the fixture.                *)
RewardEarned(files) ==
    LET evidence == files["verifier-evidence.json"].content[2]
        result == Member(evidence, "result")
        summary == files["summary.json"].content[2]
    IN  IF "verifier-evidence.json" \in DOMAIN files
        THEN /\ Bool(TRUE) \in {Member(result, "timed_out"), Member(result, "crashed")}
                => Member(result, "reward") = Null
             /\ Member(evidence, "patch_sha256") = Sha256File(files, Patch)
        ELSE /\ Member(summary, "status") # Text("completed")
             /\ Member(summary, "trajectory") = Null
             => Member(summary, "reward") = Null

(* A packaged fixture is what was staged and a manifest, beside the readme *)
(* that was there; what it says happened allows one type only; no reward   *)
(* is made of a failure of the infrastructure; and no credential is in a   *)
(* file that is scanned.                                                   *)
StagingPackaged(input, staged, out) ==
    LET written == out[2]
        synthetic(b) == [input.metadata EXCEPT !.synthetic_fault = b]
    IN  out # Refused =>
          /\ \A p \in {q \in DOMAIN written : IsFile(written, q)} \ {Manifest} :
               \/ p \in DOMAIN staged /\ written[p] = staged[p]
               \/ p = Readme /\ input.output.kind = "dir"
          /\ {p \in DOMAIN staged : staged[p].kind = "regular"} \subseteq DOMAIN written
          /\ \A t \in FixtureTypes \ {input.type}, b \in {Null, Bool(TRUE)} :
               Package(t, staged, synthetic(b), Apart) = Refused
          /\ RewardEarned(written)
          /\ \A p \in (DOMAIN staged \cap DOMAIN written) \ Unsuffixed :
               /\ written[p].content # Prose(PrivateKey)
               /\ IsJson(written, p) =>
                    /\ ~Mentions(written[p].content[2], Text(PrivateKey))
                    /\ ~Mentions(written[p].content[2], Object([authorization |-> Text("x")]))

(* A fixture that was altered does not verify any more, unless it is the   *)
(* readme or the description of the source that changed.  A coding fixture *)
(* whose summary is completed also verifies as calculator_success: to that *)
(* type the verifier's evidence is one listed file more.                   *)
TamperFound(type, golden, altered, result) ==
    Verified(result) =>
      /\ \A p \in (DOMAIN golden \cup DOMAIN altered) \ {Manifest, Readme} :
           \/ p \in DOMAIN golden \cap DOMAIN altered /\ altered[p] = golden[p]
           \/ p \notin DOMAIN golden /\ altered[p].kind = "dir"
      /\ Bound(altered[Manifest].content[2]) = Bound(golden[Manifest].content[2])
      /\ \/ TypeOf(altered[Manifest].content[2]) = type
         \/ /\ TypeOf(altered[Manifest].content[2]) = "calculator_success"
            /\ type \in Replayed

(* A copy that was interrupted never verifies, and is never completed: the *)
(* next attempt refuses the files it finds.                                *)
InterruptionSeen(input, golden, out) ==
    /\ out.verified <=> input.copied = Cardinality(DOMAIN golden)
    /\ out.again # Refused <=> input.copied = 0

GoldenBinds(input, golden, out) ==
    /\ golden # Refused
    /\ CASE input.what = "staging" ->
              StagingPackaged(input, AlterPath(Staged(input.type), input.change), out)
         [] input.what = "tampered" ->
              TamperFound(input.type, golden[2], AlterPath(golden[2], input.change), out)
         [] input.what = "interrupted" -> InterruptionSeen(input, golden[2], out)

FixtureBinds(input, out) == GoldenBinds(input, Golden[input.type], out)
=============================================================================
