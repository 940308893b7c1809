---------------------------- MODULE RunDocuments ---------------------------
(***************************************************************************)
(* What a run writes: the events of the recorder and its hooks             *)
(* (src/capture/recorder.py), the artifacts and the files of               *)
(* LocalExecutionOrchestrator.run, document by document, so that they can  *)
(* be read back by StoredRuns.  Event ids and times are handed out in      *)
(* order, as a capture with its own id_factory and clock does.             *)
(***************************************************************************)
EXTENDS StoredRuns, LocalOutcomes

EventIds == <<"e1", "e2", "e3", "e4", "e5", "e6", "e7">>

(* What one hook passes to emit.                                           *)
Draft(type, component, status, span, attributes) ==
    [event_type |-> Text(type), component |-> Text(component), status |-> Text(status),
     span_id |-> Text(span), parent_span_id |-> Null, attempt |-> Whole(1),
     attributes |-> Object(attributes), artifact_refs |-> Array(<<>>)]

Naming(draft, refs) ==
    [draft EXCEPT !.artifact_refs = Array([i \in DOMAIN refs |-> refs[i][2].artifact_id])]

(* emit: identity and order are the recorder's, attributes lose their      *)
(* secrets.                                                                *)
EventOf(s, draft, sequence) ==
    Object([draft EXCEPT !.attributes = Redact(@)]
             @@ [schema_version |-> Text("current"), event_id |-> Text(EventIds[sequence + 1]),
                 run_id |-> s.identity[2].run_id, episode_id |-> s.identity[2].episode_id,
                 trace_id |-> s.trace_id, sequence |-> Whole(sequence),
                 timestamp |-> Text("t1")])

(* The log after the drafts were emitted from sequence 0: appended, or     *)
(* replayed on a log that has them.                                        *)
EmitAll(s, rows, drafts) ==
    FoldLeft(LAMBDA writer, e : AppendEvent(writer, e), OpenEventLog(rows),
             LoadAll("TraceEvent", [i \in DOMAIN drafts |-> EventOf(s, drafts[i], i - 1)]))[3]

-----------------------------------------------------------------------------
(* The hooks.                                                              *)

(* An argument that is None is no attribute.                               *)
Given(d) == LET given == {f \in DOMAIN d : d[f] # Null}
            IN  [f \in given |-> d[f]]

ModelRequest ==
    Draft("MODEL_REQUEST", "MODEL", "STARTED", "call",
          [model |-> Text("x"), messages |-> Array(<<Object([token |-> Text("x")])>>),
           tools |-> Array(<<>>)])

ModelResponse(status, ids, probs) ==
    Draft("MODEL_RESPONSE", "MODEL_BACKEND", status, "call",
          [response |-> EmptyObject]
            @@ Given([usage |-> EmptyObject, latency_ms |-> Null, token_ids |-> ids,
                      logprobs |-> probs, action_mask |-> Null,
                      backend_model_revision |-> Text("x")]))

ToolCall ==
    Draft("TOOL_CALL", "TOOL", "STARTED", "tool",
          [tool_name |-> Text("x"), arguments |-> EmptyObject])

ToolResult(status, latency) ==
    Draft("TOOL_RESULT", "TOOL", status, "tool",
          [tool_name |-> Text("x"), result |-> EmptyObject] @@ Given([latency_ms |-> latency]))

CommandResult(status) ==
    Draft("SANDBOX_COMMAND", "SANDBOX", status, "command",
          [command |-> Text("x"), cwd |-> Text("x"), exit_code |-> Whole(0),
           latency_ms |-> Float(1)])

SandboxStarted(plan) ==
    Draft("SANDBOX_STARTED", "SANDBOX", "STARTED", "sandbox",
          [runtime_id |-> plan[2].container_name, launch_plan_checksum |-> Hash(plan)])

SandboxFinished(plan, status) ==
    Draft("SANDBOX_FINISHED", "SANDBOX", status, "sandbox",
          [runtime_id |-> plan[2].container_name])

VerificationStarted(verifier) ==
    Draft("VERIFICATION_STARTED", "EVALUATOR", "STARTED", "verifier", [verifier |-> verifier])

(* A verdict that is none is written as null.                              *)
OrNull(v, As(_)) == IF v = None THEN Null ELSE As(v)

VerificationFinished(verifier, o) ==
    Draft("VERIFICATION_FINISHED", "EVALUATOR", o.status, "verifier",
          [verifier |-> verifier, passed |-> OrNull(o.passed, Bool),
           score |-> OrNull(o.score, Float)])

(* TraceRecorder.finish                                                    *)
FinishEpisode(o, verdict, score, cited) ==
    Draft("EPISODE_FINISHED", "HARNESS", "SUCCEEDED", "episode",
          [task_status |-> Text(o.task), execution_validity |-> Text(o.validity),
           verifier_status |-> Text(verdict), termination_reason |-> Text("x"),
           score |-> OrNull(score, Float), evidence_event_ids |-> Array(cited)])

(* _decision_attributes                                                    *)
DecisionAttributes(triggers, scope, before, after, hit) ==
    [trigger_event_ids |-> triggers]
      @@ Given([policy_name |-> Text("x"), policy_version |-> Text("x"), scope_key |-> scope,
                budget_before |-> before, budget_after |-> after, cache_hit |-> hit])

Decided(type, attributes, own) == Draft(type, "HARNESS", "SUCCEEDED", "hook", own @@ attributes)

EmitDecision(decision, reason, details, attributes) ==
    Decided("HARNESS_DECISION", attributes,
            [decision |-> decision, reason_code |-> reason, details |-> details])

EmitRecoveryDecision(d) ==
    EmitDecision(d.action, d.reason_code,
                 Object([arguments |-> d.arguments,
                         selected_candidates |-> d.selected_candidates,
                         decision_checksum |-> Hash(Object(d))]),
                 DecisionAttributes(d.trigger_event_ids, d.scope_key, d.budget_before,
                                    d.budget_after, d.cache_hit))

NoTriggers == DecisionAttributes(Array(<<>>), Null, Null, Null, Null)

EmitRetryScheduled(attempt) ==
    [Decided("RETRY_SCHEDULED", DecisionAttributes(Array(<<>>), Null, Whole(1), Whole(0), Null),
             [reason |-> Text("x"), delay_ms |-> Whole(1)]) EXCEPT !.attempt = attempt]

EmitTerminationDecided(observed) ==
    Decided("TERMINATION_DECIDED", NoTriggers,
            [reason |-> Text("x"), verifier_observed |-> Bool(observed)])

EmitContextSelected ==
    Decided("CONTEXT_SELECTED", NoTriggers, [selection |-> Text("x"), details |-> EmptyObject])

EmitContextCompacted(before, after) ==
    Decided("CONTEXT_COMPACTED", NoTriggers,
            [before_tokens |-> Whole(before), after_tokens |-> Whole(after)])

-----------------------------------------------------------------------------
(* Artifacts and files.                                                    *)

(* ArtifactStore.put: the object is named by its content, the reference by *)
(* content, kind and media type, never by its time.                        *)
PutArtifact(content, kind, time) ==
    Object([schema_version |-> Text("current"),
            artifact_id |-> Hash(Array(<<Hash(content), Text(kind)>>)), kind |-> Text(kind),
            uri |-> Hash(content), media_type |-> Text("x"), sha256 |-> Hash(content),
            size_bytes |-> Whole(1), producer_event_id |-> Null, created_at |-> Text(time)])

(* DockerLocalLauncher._artifact                                           *)
LauncherArtifact(s, plan, status, outputs) ==
    Object([schema_version |-> Text("current"), identity |-> s.identity,
            status |-> Text(status), capabilities |-> Array(<<Text("RAW_HARNESS_TRACE")>>),
            payload |-> Object([launch_plan_checksum |-> Hash(plan), image |-> s.image,
                                image_digest |-> s.image_digest, platform |-> s.platform,
                                network_policy |-> plan[2].network_policy,
                                sandbox_profile |-> s.sandbox_profile,
                                sandbox_runtime |-> s.sandbox_runtime, limits |-> s.limits,
                                output_artifacts |-> Array(outputs)]),
            issues |-> Array(IF status \in Unverifiable THEN <<Text("x")>> ELSE <<>>)])

(* _combined_artifact; verifier and report are Null when nothing was       *)
(* verified.                                                               *)
CombinedArtifact(s, plan, harness, verifier, report) ==
    LET verified == verifier # Null
        spoilt == /\ verified
                  /\ harness[2].status = Text("COMPLETED")
                  /\ verifier[2].status[2] \in Unverifiable
        claims == {"RAW_HARNESS_TRACE", "HARNESS_EVENTS"}
                    \cup (IF verified THEN {"VERIFIER_EVIDENCE"} ELSE {})
        payload == [launch_plan_checksum |-> Hash(plan),
                    harness_artifact_checksum |-> Hash(harness), harness_result |-> harness]
                   @@ (IF ~verified THEN <<>>
                       ELSE [verifier_artifact_checksum |-> Hash(verifier),
                             verifier_result |-> verifier,
                             verifier_report_checksum |-> report[2].sha256])
    IN  Object([schema_version |-> Text("current"), identity |-> s.identity,
                status |-> IF spoilt THEN Text("INFRA_INVALID") ELSE harness[2].status,
                capabilities |-> Sorted({Text(c) : c \in claims}),
                payload |-> Object(payload),
                issues |-> Array(harness[2].issues[2]
                                   \o (IF verified THEN verifier[2].issues[2] ELSE <<>>))])

ReportOf(s, status, artifact, outputs) ==
    LET o == VerifierOutcome(status)
    IN  Object([schema_version |-> Text("current"), identity_checksum |-> Hash(s.identity),
                evaluator |-> s.evaluator_manifest, command |-> s.verifier_argv,
                execution_status |-> Text(status), verifier_status |-> Text(o.verdict),
                score |-> OrNull(o.score, Float), producer_artifact_checksum |-> Hash(artifact),
                output_artifact_checksums |-> Array([i \in DOMAIN outputs |-> Hash(outputs[i])]),
                created_at |-> Text("t2")])

ObjectsOf(contents) ==
    LET objects == {Hash(c) : c \in contents}
    IN  [u \in objects |-> [size |-> Whole(1), content |-> u[2]]]

(* What a run emits: the harness and its artifacts, the verifier and its   *)
(* own when the harness could be verified, and the end.                    *)
DraftsOf(s, plan, script, end, harnessRefs, verifierRefs, verified) ==
    LET o == VerifierOutcome(end.verifier)
        verdict == IF verified THEN o.verdict ELSE "NOT_RUN"
        name == s.evaluator_manifest[2].name
    IN  <<SandboxStarted(plan)>> \o script
          \o <<Naming(SandboxFinished(plan, EventStatus(end.harness)), harnessRefs)>>
          \o (IF ~verified THEN <<>>
              ELSE <<VerificationStarted(name),
                     Naming(VerificationFinished(name, o), verifierRefs)>>)
          \o <<FinishEpisode(TerminalOutcome(end.harness, verdict), verdict,
                             IF verified THEN o.score ELSE None,
                             IF verified THEN <<Text(EventIds[Len(script) + 4])>> ELSE <<>>)>>

(* The files, once both containers have ended and the report was stored.   *)
FilesWritten(s, prepared, drafts, call, harness, verifier, document, refs) ==
    [manifest |-> prepared[2].manifest,
     artifact |-> FromDict("ProducerArtifact",
                    CombinedArtifact(s, prepared[2].plan, harness, verifier, Last(refs))),
     events |-> EmitAll(s, <<>>, drafts),
     drafts |-> drafts,
     evidence |-> AppendEvidence(OpenEvidenceLog(<<>>), call)[3],
     refs |-> refs,
     objects |-> ObjectsOf({Text("out"), Text("diff"), Text("checked"), document})]

RunEnded(s, prepared, script, call, end, harnessOut, verifierOut, verifier, document) ==
    LET verified == end.harness \notin Unverifiable
        harnessRefs == Append(harnessOut, PutArtifact(Text("diff"), "workspace-diff", "t1"))
        verifierRefs == Append(verifierOut, PutArtifact(document, "verifier-report", "t2"))
        harness == LauncherArtifact(s, prepared[2].plan, end.harness, harnessOut)
    IN  FilesWritten(s, prepared,
                     DraftsOf(s, prepared[2].plan, script, end, harnessRefs, verifierRefs,
                              verified),
                     call, FromDict("ProducerArtifact", harness),
                     IF verified THEN verifier ELSE Null, document,
                     harnessRefs \o (IF verified THEN verifierRefs ELSE <<>>))

(* The verifier's own artifact, and the report that cites it.              *)
RunVerified(s, prepared, script, call, end, harnessOut, verifierOut, verifier) ==
    RunEnded(s, prepared, script, call, end, harnessOut, verifierOut, verifier,
             FromDict("LocalVerifierReport", ReportOf(s, end.verifier, verifier, verifierOut)))

(* LocalExecutionOrchestrator.run: the harness emits the drafts of script, *)
(* one model call is evidenced, both containers end as told.               *)
RunFiles(spec, prepared, script, request, backend, end) ==
    LET s == Fields(spec)
        out(status, text) == IF status \in Unverifiable THEN <<>>
                             ELSE <<PutArtifact(text, "process-stdout", "t1")>>
        verifierOut == out(end.verifier, Text("checked"))
    IN  RunVerified(s, prepared, script,
                    CaptureModelCall(With(request, [identity |-> s.identity]), backend), end,
                    out(end.harness, Text("out")), verifierOut,
                    FromDict("ProducerArtifact",
                             LauncherArtifact(s, prepared[2].verifier, end.verifier,
                                              verifierOut)))
=============================================================================
