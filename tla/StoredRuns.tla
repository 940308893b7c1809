---------------------------- MODULE StoredRuns ----------------------------
(***************************************************************************)
(* What a run leaves on disk, read back: finalize_local_run on the files   *)
(* of a run (src/assembly/local_run_finalizer.py, agent-data finalize-     *)
(* local of src/cli.py), the evidence log reopened (src/capture/           *)
(* model_proxy.py), and the launch plan and run manifest frozen before a   *)
(* container starts (src/orchestration/local_execution.py,                 *)
(* src/launchers/local_docker.py).                                         *)
(*                                                                         *)
(* Every document is a JSON value of Contracts.  The inputs are one        *)
(* document of each contract, and one stored run, with one field altered.  *)
(***************************************************************************)
EXTENDS Contracts, EpisodeAssembly

(* dict.get                                                                *)
Get(d, f) == IF f \in DOMAIN d THEN d[f] ELSE Null

With(doc, changes) == Object([f \in DOMAIN changes \cup DOMAIN doc[2] |->
                                IF f \in DOMAIN changes THEN changes[f] ELSE doc[2][f]])

-----------------------------------------------------------------------------
(* finalize_local_run.                                                     *)

(* _derive_terminal: an outcome that is not well formed is UNKNOWN.        *)
OutcomeStated(built) ==
    IF built = Refused
    THEN [task |-> "UNKNOWN", validity |-> "UNKNOWN", verifier |-> "UNKNOWN",
          score |-> Null, evidence |-> {}]
    ELSE [task |-> built[2].task_status[2], validity |-> built[2].execution_validity[2],
          verifier |-> built[2].verifier_status[2], score |-> built[2].score,
          evidence |-> {TextRank(x) : x \in Values(built[2].evidence_event_ids)}]

Terminal(e) ==
    LET a == e.attributes[2]
        status(f) == IF f \in DOMAIN a THEN a[f] ELSE Text("UNKNOWN")
        cited == IF "evidence_event_ids" \in DOMAIN a THEN a.evidence_event_ids ELSE Array(<<>>)
    IN  OutcomeStated(FromDict("EpisodeOutcome",
          Object([task_status |-> status("task_status"),
                  execution_validity |-> status("execution_validity"),
                  verifier_status |-> status("verifier_status"),
                  score |-> Get(a, "score"), evidence_event_ids |-> cited])))

(* The event as EpisodeAssembly reads it, the document beside it.          *)
AsEvent(doc) ==
    LET e == Fields(doc)
    IN  [id |-> TextRank(e.event_id), type |-> e.event_type[2], span |-> e.span_id,
         parent |-> IF e.parent_span_id = Null THEN None ELSE e.parent_span_id,
         seq |-> e.sequence[2], status |-> e.status[2], refs |-> Values(e.artifact_refs),
         terminal |-> IF e.event_type = Text("EPISODE_FINISHED") THEN Terminal(e) ELSE None,
         document |-> doc]

Context(m) ==
    [f \in {"harness_manifest", "model_manifest", "environment_manifest",
            "evaluator_manifest", "experiment_manifest_ref", "capture_capabilities"} |-> m[f]]

(* _read_artifacts: distinct ids, each object present with the size and    *)
(* bytes its reference states.                                             *)
ArtifactsRefused(refs, objects) ==
    \/ \E i \in DOMAIN refs : refs[i] = Refused
    \/ \E i, j \in DOMAIN refs : i # j /\ refs[i][2].artifact_id = refs[j][2].artifact_id
    \/ \E i \in DOMAIN refs :
         LET ref == Fields(refs[i])
         IN  \/ ref.uri \notin DOMAIN objects
             \/ ref.size_bytes # objects[ref.uri].size
             \/ ref.sha256 # Hash(objects[ref.uri].content)

(* _read_verifier_report, Null when the artifact states none.              *)
ReportRefused(report, ref, m, a, refs) ==
    \/ report = Refused
    \/ Hash(report) # ref.sha256
    \/ report[2].identity_checksum # Hash(m.identity)
    \/ report[2].evaluator # m.evaluator_manifest
    \/ report[2].producer_artifact_checksum # Get(a.payload[2], "verifier_artifact_checksum")
    \/ ~(Values(report[2].output_artifact_checksums) \subseteq {Hash(r) : r \in Range(refs)})

ReportBound(report, ref, m, a, refs) ==
    IF ReportRefused(report, ref, m, a, refs) THEN Refused ELSE report

VerifierReport(m, a, refs, objects) ==
    LET checksum == Get(a.payload[2], "verifier_report_checksum")
        matches == {r \in Range(refs) : /\ r[2].sha256 = checksum
                                        /\ r[2].kind = Text("verifier-report")}
        ref == Fields(CHOOSE r \in matches : TRUE)
    IN  IF checksum = Null THEN Null
        ELSE IF Cardinality(matches) # 1 THEN Refused
        ELSE ReportBound(FromDict("LocalVerifierReport", objects[ref.uri].content),
                        ref, m, a, refs)

(* The assembled episode: the context, the events in assembler order, the  *)
(* artifacts the events name and what was found wrong; derived fields are  *)
(* functions of these.                                                     *)
EpisodeBuilt(m, raw, refs, assembled) ==
    Object([context |-> Context(m), identity |-> m.identity, assembled |-> assembled,
            arrival |-> SelectSeq(raw, LAMBDA e : e \in assembled.events),
            duplicates |-> Len(raw) - Cardinality(assembled.events),
            artifacts |-> {r \in Range(refs) : r[2].artifact_id \in assembled.artifacts}])

EpisodeOfEvents(m, raw, refs) ==
    IF AssemblyFails(raw) THEN Refused
    ELSE EpisodeBuilt(m, raw, refs, Assemble(raw, {r[2].artifact_id : r \in Range(refs)}))

EpisodeOf(m, events, refs) ==
    IF \E e \in Range(events) : \/ e[2].episode_id # m.identity[2].episode_id
                                \/ e[2].run_id # m.identity[2].run_id
    THEN Refused
    ELSE EpisodeOfEvents(m, Each(events, AsEvent), refs)

(* assemble_execution_bundle: no policy artifact is given here.            *)
BundleOf(m, a, episode, evidence, refs, report) ==
    IF "VERIFIER_EVIDENCE" \in {x[2] : x \in a[2].capabilities[2]} /\ report = Null
    THEN Refused
    ELSE Object([identity |-> m.identity, episode_checksum |-> Hash(episode),
                 source_artifact_checksums |->
                   Sorted({Hash(a)} \cup {Hash(x) : x \in Range(evidence)}
                            \cup {r[2].sha256 : r \in Range(refs)}),
                 policy_trace_checksums |->
                   Sorted(IF Text("TOKEN_IDS") \in a[2].capabilities[2] THEN {Hash(a)} ELSE {}),
                 verifier_report_checksum |-> Get(a[2].payload[2], "verifier_report_checksum")])

LoadAll(c, docs) == Each(docs, LAMBDA d : FromDict(c, d))

(* agent-data finalize-local: the documents are loaded, joined, and the    *)
(* checksums of everything that was joined are recorded.                   *)
Finalization(m, a, evidence, episode, bundle) ==
    IF bundle = Refused THEN Refused
    ELSE Object([manifest_checksum |-> Hash(m), producer_artifact_checksum |-> Hash(a),
                 episode_checksum |-> Hash(episode),
                 execution_bundle_checksum |-> Hash(bundle),
                 model_evidence_checksums |-> [i \in DOMAIN evidence |-> Hash(evidence[i])]])

FinalizeEpisode(m, a, evidence, refs, report, episode) ==
    IF \/ report = Refused
       \/ episode = Refused
       \/ report # Null /\ report[2].verifier_status[2] # episode[2].assembled.outcome.verifier
    THEN Refused
    ELSE Finalization(m, a, evidence, episode,
                      BundleOf(m[2], a, episode, evidence, refs, report))

FinalizeLocalRun(m, a, events, evidence, refs, objects) ==
    IF \/ m = Refused \/ a = Refused
       \/ a[2].identity # m[2].identity
       \/ Get(a[2].payload[2], "launch_plan_checksum") # m[2].launcher_plan_checksum
       \/ Refused \in Range(events) \cup Range(evidence)
       \/ \E x \in Range(evidence) : x[2].request[2].identity # m[2].identity
       \/ ArtifactsRefused(refs, objects)
    THEN Refused
    ELSE FinalizeEpisode(m, a, evidence, refs, VerifierReport(m[2], a[2], refs, objects),
                         EpisodeOf(m[2], events, refs))

FinalizeLocal(run) ==
    FinalizeLocalRun(FromDict("ExecutionRunManifest", run.manifest),
                     FromDict("ProducerArtifact", run.artifact),
                     LoadAll("TraceEvent", run.events),
                     LoadAll("ModelCallEvidence", run.evidence),
                     LoadAll("ArtifactRef", run.refs), run.objects)

-----------------------------------------------------------------------------
(* Logs of one document per line.                                          *)

Torn == <<"torn">>

(* A writer: the documents it knows, by id, and the rows of its file.      *)
Writer(index, rows) == <<"writer", index, rows>>

(* What a log knows a document by.                                         *)
LogKey(c, doc) ==
    IF c = "ModelCallEvidence" THEN doc[2].request[2].request_id ELSE doc[2].event_id

(* Opened on rows that are read as docs: refused when a row is malformed   *)
(* or two rows of one id differ.                                           *)
Opened(c, rows, docs) ==
    IF \/ Torn \in Range(rows) \/ Refused \in Range(docs)
       \/ \E i, j \in DOMAIN rows : LogKey(c, docs[i]) = LogKey(c, docs[j]) /\ docs[i] # docs[j]
    THEN Refused
    ELSE Writer({<<LogKey(c, docs[i]), Hash(docs[i])>> : i \in DOMAIN rows}, rows)

(* A known document is not written again, and may not differ.              *)
Appended(writer, id, doc) ==
    LET known == {p \in writer[2] : p[1] = id}
    IN  IF writer = Refused \/ \E p \in known : p[2] # Hash(doc) THEN Refused
        ELSE IF known # {} THEN writer
        ELSE Writer(writer[2] \cup {<<id, Hash(doc)>>}, Append(writer[3], doc))

(* ModelEvidenceJsonlWriter                                                *)
OpenEvidenceLog(rows) == Opened("ModelCallEvidence", rows, LoadAll("ModelCallEvidence", rows))

AppendEvidence(writer, evidence) ==
    Appended(writer, LogKey("ModelCallEvidence", evidence), evidence)

(* EventWriter                                                             *)
OpenEventLog(rows) == Opened("TraceEvent", rows, LoadAll("TraceEvent", rows))

AppendEvent(writer, event) == Appended(writer, LogKey("TraceEvent", event), event)

(* StorageSchemaRegistry.parse_trace_event, with no migration registered.  *)
ParseTraceEvent(v) ==
    IF v[1] = "object" /\ Get(v[2], "schema_version") = Text("current")
    THEN FromDict("TraceEvent", v) ELSE Refused

(* capture_model_call: what the backend really returned.                   *)
CaptureModelCall(request, backend) ==
    LET r == Fields(request)
        b == Fields(backend)
        claims == [TOKEN_IDS |-> b.response_token_ids # Null,
                   BEHAVIOR_LOGPROBS |-> b.response_logprobs # Null,
                   POLICY_VERSION |-> /\ r.endpoint_kind = Text("CONTROLLED")
                                      /\ r.identity[2].policy_fingerprint # Null
                                      /\ b.backend_model_revision # Null]
        kept == {c \in DOMAIN claims : claims[c]}
    IN  Object([schema_version |-> Text("current"), request |-> request, backend |-> backend,
                capabilities |-> Sorted({Text(c) : c \in kept \cup {"REQUEST_RESPONSE"}}),
                issues |-> Array([i \in 1..(3 - Cardinality(kept)) |-> Text("x")])])

-----------------------------------------------------------------------------
(* What is frozen before a container starts.                               *)

Secret == Text("secret")           \* the access token of the run
Directories == {"x", "digest"}     \* the workspaces that exist
Platforms == {"linux/amd64", "linux/arm64"}
Guaranteed == {"MODEL_IO", "MODEL_TOKEN_USAGE", "SANDBOX_LIFECYCLE", "SANDBOX_COMMAND_IO",
               "FILE_ARTIFACTS", "VERIFIER_EVIDENCE"}

(* _resolve_image_reference: local says whether the tag is that image here. *)
ImageReference(image, digest, local) ==
    IF local THEN image ELSE Array(<<image, digest>>)

(* LocalHarnessRequest refuses; url and key are Null without a proxy.      *)
RequestRefused(q) ==
    \/ q.identity[2].producer_id # Text("local")
    \/ q.identity[2].producer_version # Text("local")
    \/ q.workspace[2] \notin Directories
    \/ q.platform \notin {Text(p) : p \in Platforms}
    \/ (q.url = Null) # (q.key = Null)
    \/ q.sandbox_profile = Text("SECURE") /\ q.sandbox_runtime # Text("runsc")
    \/ q.url # Null /\ q.network_policy = Text("NONE")

(* build_docker_launch_plan                                                *)
DockerLaunchPlan(q, local) ==
    LET id == q.identity[2]
        public == [AGENT_RUN_ID |-> id.run_id, AGENT_TASK_ID |-> id.task_id,
                   AGENT_EPISODE_ID |-> id.episode_id, AGENT_ATTEMPT_ID |-> id.attempt_id,
                   AGENT_EXECUTION_IDENTITY_CHECKSUM |-> Hash(q.identity)]
                  @@ (IF q.url = Null THEN <<>>
                      ELSE [AGENT_MODEL_PROXY_URL |-> q.url, OPENAI_BASE_URL |-> q.url,
                            AGENT_TRACE_URL |-> q.url])
        secret == IF q.key = Null THEN <<>>
                  ELSE [AGENT_MODEL_PROXY_API_KEY |-> q.key, OPENAI_API_KEY |-> q.key,
                        AGENT_TRACE_API_KEY |-> q.key]
        names == {Text(n) : n \in DOMAIN public \cup DOMAIN secret}
        argv == <<Hash(q.identity), q.platform, q.sandbox_runtime, id.run_id, id.episode_id,
                  q.network_policy, q.docker_host_gateway, q.run_as_host_user, q.limits,
                  q.workspace, Sorted(names),
                  ImageReference(q.image, q.image_digest, local)>> \o q.argv[2]
    IN  [identity_checksum |-> Hash(q.identity), container_name |-> Hash(q.identity),
         argv |-> Array(argv), environment |-> public, secret_environment |-> secret,
         network_policy |-> q.network_policy, image_digest |-> q.image_digest,
         platform |-> q.platform, sandbox_profile |-> q.sandbox_profile,
         sandbox_runtime |-> q.sandbox_runtime]

(* The plan as to_dict writes it: of the secrets only the names.           *)
PlanShown(plan) ==
    Object([environment |-> Object(plan.environment),
            secret_environment_keys |->
              Sorted({Text(n) : n \in DOMAIN plan.secret_environment})]
           @@ [f \in DOMAIN plan \ {"environment", "secret_environment"} |-> plan[f]])

LaunchPlan(q, local) == PlanShown(DockerLaunchPlan(q, local))

HarnessRequest(s) == s @@ [argv |-> s.harness_argv, url |-> Text("x"), key |-> Secret]

(* The verifier runs without network, proxy or key.                        *)
VerifierRequest(s) ==
    [s EXCEPT !.network_policy = Text("NONE"), !.docker_host_gateway = Bool(FALSE)]
      @@ [argv |-> s.verifier_argv, url |-> Null, key |-> Null]

(* prepare_local_execution                                                 *)
EnvironmentOf(s) ==
    Object([schema_version |-> Text("current"), runtime_type |-> s.sandbox_runtime,
            revision |-> Hash(Array(<<s.platform, s.image_digest, s.sandbox_profile,
                                      s.sandbox_runtime>>)),
            image |-> Hash(Array(<<s.image, s.image_digest>>)),
            resource_limits |-> With(s.limits,
              [harness_timeout_seconds |-> s.harness_timeout_seconds,
               verifier_timeout_seconds |-> s.verifier_timeout_seconds]),
            network_policy |-> s.network_policy, task_snapshot |-> s.task_snapshot])

ManifestOfRun(s, plan) ==
    FromDict("ExecutionRunManifest", Object(
      [schema_version |-> Text("current"), identity |-> s.identity,
       harness_manifest |-> s.harness_manifest, model_manifest |-> s.model_manifest,
       environment_manifest |-> EnvironmentOf(s),
       evaluator_manifest |-> s.evaluator_manifest,
       experiment_manifest_ref |-> s.experiment_manifest_ref,
       capture_capabilities |-> Sorted({Text(c) : c \in Guaranteed}
                                          \cup s.capture_capabilities[2]),
       launcher_plan_checksum |-> Hash(plan), created_at |-> Text("t1")]))

Prepared(plan, manifest, verifier) ==
    IF manifest = Refused THEN Refused
    ELSE Object([plan |-> plan, manifest |-> manifest, verifier |-> verifier])

PreparePlanned(s, plan, verifier) == Prepared(plan, ManifestOfRun(s, plan), verifier)

PrepareLocalExecution(spec, local) ==
    IF spec = Refused THEN Refused
    ELSE IF RequestRefused(HarnessRequest(Fields(spec))) THEN Refused
    ELSE PreparePlanned(Fields(spec), LaunchPlan(HarnessRequest(Fields(spec)), local),
                        LaunchPlan(VerifierRequest(Fields(spec)), local))
=============================================================================
