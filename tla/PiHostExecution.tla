--------------------------- MODULE PiHostExecution ---------------------------
(***************************************************************************)
(* PiHostExecutionOrchestrator.run (src/orchestration/                     *)
(* pi_host_execution.py), the training loop around it (_execute_episode    *)
(* and _assemble in src/integrations/verl/pi_loop.py) and the batch gate's *)
(* test of one episode (_certify_from_evidence in verl_manager.py).        *)
(* Pi, the model engine and the verifier are the environment.              *)
(*                                                                         *)
(* The evidence file is read five times, and serving threads outlive the   *)
(* server, so no two reads need agree: once for the rows training is built *)
(* from, once for the stored copy, once by finalize_local_run, once by     *)
(* _assemble and once by the gate.  A prompt is the sequence of turns Pi   *)
(* had seen when it asked; the tokens of a turn are the call that made it. *)
(***************************************************************************)
EXTENDS ModelProxy, RlCertification, PiAdapter

CONSTANTS
    Specs,    \* executions asked for: [controlled, isolated, requireRl, pinned]
    Endings   \* how Pi may end: [code, lines], its exit code and what it printed

Policy == "policy"

ASSUME PiHostAssumption ==
    /\ \A s \in Specs : /\ {s.controlled, s.isolated, s.requireRl} \subseteq BOOLEAN
                        /\ s.pinned \in {None, Policy, "other"}
    /\ \A e \in Endings : e.code \in {"zero", "other", "timeout"}
    /\ \E e \in Endings : e.code = "timeout"
    /\ None \notin {"COMPLETED", "PASSED", "FAILED"} /\ None \notin BOOLEAN

VARIABLES
    spec,     \* the PiHostExecutionSpec
    host,     \* the locals of run() and of the loop that calls it
    alive,    \* is Pi running?
    server,   \* the proxy's HTTP server: "absent", "up", "closed"
    prompt,   \* prompt[c]: the turns the messages of call c contain
    heard,    \* the answers Pi has received, in order
    files,    \* JSON files of the output directory
    final,    \* what finalize_local_run returned
    exits     \* history: how Pi and the verifier really ended

hostVars == <<spec, host, alive, server, prompt, heard, files, final, exits>>
vars == <<proxyVars, hostVars>>

Identity == [run |-> "r", task |-> "t", episode |-> "e", attempt |-> 1, group |-> "g",
             policy |-> Policy]

JsonFiles == {"execution-run-manifest", "launch-plan", "producer-artifact",
              "policy-artifact", "artifact-refs", "episode", "execution-bundle",
              "sft-eligibility", "on-policy-rl-eligibility", "summary", "admitted-sequence"}

Init ==
    /\ ProxyInit
    /\ spec \in Specs
    /\ host = [pc |-> "start", code |-> None, records |-> <<>>, rows |-> <<>>, usable |-> FALSE,
               harness |-> None, replay |-> <<>>, verifier |-> None, verdict |-> {},
               refs |-> {}, policy |-> None, events |-> <<>>,
               admitted |-> None, gate |-> None]
    /\ alive = FALSE
    /\ server = "absent"
    /\ prompt = [c \in Calls |-> <<>>]
    /\ heard = <<>>
    /\ files = {}
    /\ final = None
    /\ exits = [pi |-> None, verifier |-> None]

At(pc) == host.pc = pc
GoTo(pc) == host' = [host EXCEPT !.pc = pc]

-----------------------------------------------------------------------------
(* Preparation and the Pi process.                                         *)

(* root.mkdir(exist_ok=False).                                             *)
RefuseRoot ==
    /\ At("start")
    /\ GoTo("raised")
    /\ UNCHANGED <<proxyVars, spec, alive, server, prompt, heard, files, final, exits>>

Setup ==
    /\ At("start")
    /\ files' = {"execution-run-manifest", "launch-plan"}
    /\ Emit(Fact("SANDBOX_STARTED", "sandbox", "STARTED"))
    /\ GoTo("serve")
    /\ UNCHANGED <<evidence, call, callCount, observed, recordLock, closeouts, spec, alive,
                   server, prompt, heard, final, exits>>

StartServer ==
    /\ At("serve")
    /\ server' = IF spec.controlled THEN "up" ELSE server
    /\ GoTo("spawn")
    /\ UNCHANGED <<proxyVars, spec, alive, prompt, heard, files, final, exits>>

(* pi_bwrap_command and an isolated Pi need the execution-bound proxy.     *)
RefuseIsolation ==
    /\ At("spawn")
    /\ spec.isolated /\ ~spec.controlled
    /\ GoTo("raising")
    /\ UNCHANGED <<proxyVars, spec, alive, server, prompt, heard, files, final, exits>>

SpawnPi ==
    /\ At("spawn")
    /\ spec.isolated => spec.controlled
    /\ alive' = TRUE
    /\ GoTo("in")
    /\ UNCHANGED <<proxyVars, spec, server, prompt, heard, files, final, exits>>

(* Pi asks for a completion; its messages are what it has heard so far.    *)
(* Requests are named in the order of their arrival.                       *)
PiCalls(c) ==
    /\ alive /\ server = "up"
    /\ PostCall(c)
    /\ c = CHOOSE d \in Calls : call[d].pc = "new"
    /\ prompt' = [prompt EXCEPT ![c] = heard]
    /\ UNCHANGED <<spec, host, alive, server, heard, files, final, exits>>

(* The HTTP response of a served call reaches a Pi that still listens.     *)
PiHears(c) ==
    /\ alive
    /\ call[c].pc = "done" /\ call[c].answer # "error"
    /\ \A i \in DOMAIN heard : heard[i] # c
    /\ heard' = Append(heard, c)
    /\ UNCHANGED <<proxyVars, spec, host, alive, server, prompt, files, final, exits>>

PiEnds(code, lines) ==
    /\ alive' = FALSE
    /\ exits' = [exits EXCEPT !.pi = code]
    /\ host' = [host EXCEPT !.pc = "close", !.code = code, !.records = lines]
    /\ UNCHANGED <<proxyVars, spec, server, prompt, heard, files, final>>

PiExits ==
    /\ At("in")
    /\ \E e \in Endings : e.code # "timeout" /\ PiEnds(e.code, e.lines)

(* _run_owned_process kills the session, subprocess.run the child; both    *)
(* hand over what was printed, with return code 124.                       *)
PiTimesOut ==
    /\ At("in")
    /\ \E e \in Endings : e.code = "timeout" /\ PiEnds(e.code, e.lines)

(* The process does not start, or its output is not text.                  *)
PiRaises ==
    /\ At("in")
    /\ alive' = FALSE
    /\ GoTo("raising")
    /\ UNCHANGED <<proxyVars, spec, server, prompt, heard, files, final, exits>>

(* A close that only follows a Pi that ended.                              *)
CloseServerOnReturn ==
    /\ At("close") \/ At("raising")
    /\ server' = IF server = "up" /\ At("close") THEN "closed" ELSE server
    /\ GoTo(IF At("close") THEN "rows" ELSE "raised")
    /\ UNCHANGED <<proxyVars, spec, alive, prompt, heard, files, final, exits>>

(* finally: server.close().                                                *)
CloseServer ==
    /\ At("close") \/ At("raising")
    /\ server' = IF server = "up" THEN "closed" ELSE server
    /\ GoTo(IF At("close") THEN "rows" ELSE "raised")
    /\ UNCHANGED <<proxyVars, spec, alive, prompt, heard, files, final, exits>>

-----------------------------------------------------------------------------
(* What Pi left behind.                                                    *)

AllModelCallsUsable(rows) ==
    /\ rows # <<>>
    /\ \A i \in DOMAIN rows : rows[i].answer = "native"

(* The first read: the rows that decide everything below.                  *)
ReadRows ==
    /\ At("rows")
    /\ host' = [host EXCEPT !.pc = "adapt", !.rows = evidence,
                            !.usable = AllModelCallsUsable(evidence)]
    /\ UNCHANGED <<proxyVars, spec, alive, server, prompt, heard, files, final, exits>>

NotRun == [task |-> "UNKNOWN", validity |-> "UNKNOWN", verifier |-> "NOT_RUN", score |-> None]

(* The adapter is a function of what Pi printed.                           *)
Adaptations ==
    [lines \in {e.lines : e \in Endings} |->
       Convert(ReadPiNdjson(lines).records, ReadPiNdjson(lines).issues, NotRun)]

ObservableDirectRun(adapted) ==
    /\ ReadPiNdjson(host.records).records # <<>>
    /\ \/ adapted.errors = 0
       \/ \E i \in DOMAIN adapted.events : adapted.events[i].type = "TOOL_RESULT"

HarnessStatus(adapted) ==
    CASE /\ host.code = "zero"
         /\ IF spec.controlled /\ spec.requireRl THEN host.usable
            ELSE ObservableDirectRun(adapted) -> "COMPLETED"
      [] host.code = "timeout" -> "TIMEOUT"
      [] OTHER -> "INFRA_INVALID"

(* Pi's account gives way to the host's verdict and, for a controlled      *)
(* model, to the proxy's record.                                           *)
Superseded(type) ==
    \/ type \in {"EPISODE_FINISHED", "VERIFICATION_STARTED", "VERIFICATION_FINISHED"}
    \/ spec.controlled /\ type \in {"MODEL_REQUEST", "MODEL_RESPONSE"}

(* The second read, stored as an artifact; the adapter; the status; and    *)
(* the end of the sandbox.                                                 *)
EndSandbox ==
    LET adapted == Adaptations[host.records]
        harness == HarnessStatus(adapted)
        refs == {<<"pi-ndjson", host.records>>, <<"pi-stderr", "text">>,
                 <<"model-evidence", evidence>>, <<"workspace-diff", "diff">>}
        status == CASE harness = "COMPLETED" -> "SUCCEEDED"
                    [] harness = "TIMEOUT" -> "TIMEOUT"
                    [] OTHER -> "ERROR"
    IN  /\ At("adapt")
        /\ Emit([Fact("SANDBOX_FINISHED", "sandbox", status) EXCEPT !.refs = refs])
        /\ host' = [host EXCEPT !.pc = "replay", !.harness = harness,
                                !.replay = adapted.events, !.refs = refs]
        /\ UNCHANGED <<evidence, call, callCount, observed, recordLock, closeouts, spec, alive,
                       server, prompt, heard, files, final, exits>>

ReplayEvent ==
    /\ At("replay")
    /\ host.replay # <<>>
    /\ LET e == Head(host.replay)
       IN  IF Superseded(e.type) THEN UNCHANGED <<log, nextSeq>>
           ELSE Emit(Fact(e.type, <<"pi", e.span>>, e.status))
    /\ host' = [host EXCEPT !.replay = Tail(@)]
    /\ UNCHANGED <<evidence, call, callCount, observed, recordLock, closeouts, spec, alive,
                   server, prompt, heard, files, final, exits>>

-----------------------------------------------------------------------------
(* The verdict.                                                            *)

SkipVerifier ==
    /\ At("replay") /\ host.replay = <<>>
    /\ host.harness # "COMPLETED"
    /\ GoTo("finish")
    /\ UNCHANGED <<proxyVars, spec, alive, server, prompt, heard, files, final, exits>>

StartVerifier ==
    /\ At("replay") /\ host.replay = <<>>
    /\ host.harness = "COMPLETED"
    /\ Emit(Fact("VERIFICATION_STARTED", "verifier", "STARTED"))
    /\ GoTo("verifying")
    /\ UNCHANGED <<evidence, call, callCount, observed, recordLock, closeouts, spec, alive,
                   server, prompt, heard, files, final, exits>>

(* The exit code decides, although the report has no verdict.              *)
VerdictOfExit(resolved, zero) == IF zero THEN "PASSED" ELSE "FAILED"

(* "resolved" of the verifier's report, a boolean or nothing usable; the   *)
(* exit code only decides how the report itself is classed.                *)
VerdictOf(resolved, zero) ==
    CASE resolved = TRUE -> "PASSED"
      [] resolved = FALSE -> "FAILED"
      [] OTHER -> "ERROR"

VerdictEvent(verdict) ==
    CASE verdict = "PASSED" -> [status |-> "SUCCEEDED", passed |-> TRUE, score |-> 1]
      [] verdict = "FAILED" -> [status |-> "FAILED", passed |-> FALSE, score |-> 0]
      [] OTHER -> [status |-> "ERROR", passed |-> None, score |-> None]

RecordVerdict ==
    /\ At("verifying")
    /\ \E resolved \in {TRUE, FALSE, None}, zero \in BOOLEAN :
         LET verdict == VerdictOf(resolved, zero)
             v == VerdictEvent(verdict)
             refs == {<<"verifier-output", resolved>>, <<"verifier-report", verdict>>}
         IN  /\ exits' = [exits EXCEPT !.verifier = resolved]
             /\ Emit([Fact("VERIFICATION_FINISHED", "verifier", v.status)
                        EXCEPT !.passed = v.passed, !.refs = refs])
             /\ host' = [host EXCEPT !.pc = "finish", !.verifier = verdict,
                                     !.verdict = {Len(log) + 1}, !.refs = @ \cup refs]
    /\ UNCHANGED <<evidence, call, callCount, observed, recordLock, closeouts, spec, alive,
                   server, prompt, heard, files, final>>

(* subprocess.run(timeout=930) raises, and nothing catches it.             *)
VerifierHangs ==
    /\ At("verifying")
    /\ GoTo("raised")
    /\ UNCHANGED <<proxyVars, spec, alive, server, prompt, heard, files, final, exits>>

Verdict == IF host.verifier = None THEN "ERROR" ELSE host.verifier

Score == VerdictEvent(Verdict).score

ValidRun == host.harness = "COMPLETED" /\ Verdict \in {"PASSED", "FAILED"}

Finish ==
    /\ At("finish")
    /\ Emit([Fact("EPISODE_FINISHED", "episode", "SUCCEEDED") EXCEPT !.terminal =
               [task |-> CASE Verdict = "PASSED" -> "SUCCESS"
                           [] Verdict = "FAILED" -> "FAILURE"
                           [] OTHER -> "UNKNOWN",
                validity |-> IF ValidRun THEN "VALID" ELSE "INFRA_INVALID",
                verifier |-> Verdict, score |-> Score, evidence |-> host.verdict]])
    /\ GoTo("artifacts")
    /\ UNCHANGED <<evidence, call, callCount, observed, recordLock, closeouts, spec, alive,
                   server, prompt, heard, files, final, exits>>

-----------------------------------------------------------------------------
(* Artifacts.                                                              *)

(* A history in which a prompt need only repeat the one before it, without *)
(* the answer that was given.                                              *)
ContiguousPrompts(rows) ==
    /\ rows # <<>>
    /\ \A i \in 1..(Len(rows) - 1) :
         /\ Len(prompt[rows[i].call]) <= Len(prompt[rows[i + 1].call])
         /\ SubSeq(prompt[rows[i + 1].call], 1, Len(prompt[rows[i].call]))
              = prompt[rows[i].call]

(* build_per_call_segments: every prompt continues the one before it, or   *)
(* the episode is not trainable.                                           *)
Contiguous(rows) ==
    /\ rows # <<>>
    /\ \A i \in 1..(Len(rows) - 1) :
         LET soFar == Append(prompt[rows[i].call], rows[i].call)
         IN  /\ Len(soFar) <= Len(prompt[rows[i + 1].call])
             /\ SubSeq(prompt[rows[i + 1].call], 1, Len(soFar)) = soFar

(* _training_sequence_from_evidence.                                       *)
TrainingSequence(rows) == [i \in DOMAIN rows |-> rows[i].call]

PolicyTraces(rows) ==
    IF ValidRun /\ host.usable /\ Score # None
    THEN [i \in DOMAIN rows |-> [call |-> rows[i].call, reward |-> Score]]
    ELSE <<>>

ReportCaps == IF host.verifier = None THEN {} ELSE {"VERIFIER_EVIDENCE"}

ProducerArtifact ==
    [identity |-> Identity,
     status |-> IF ValidRun THEN "COMPLETED" ELSE host.harness,
     caps |-> {"RAW_HARNESS_TRACE", "HARNESS_EVENTS"} \cup ReportCaps
              \cup (IF host.usable THEN {"TOKEN_IDS", "BEHAVIOR_LOGPROBS", "POLICY_VERSION"}
                    ELSE {}),
     traces |-> <<>>, training |-> None]

PolicyArtifact(rows) ==
    LET traces == PolicyTraces(rows)
    IN  [identity |-> Identity,
         status |-> IF traces # <<>> THEN "COMPLETED" ELSE "INFRA_INVALID",
         caps |-> ReportCaps \cup (IF traces # <<>>
                                   THEN {"TOKEN_IDS", "ACTION_MASK", "BEHAVIOR_LOGPROBS",
                                         "POLICY_VERSION"}
                                   ELSE {}),
         traces |-> traces,
         training |-> IF traces # <<>> THEN TrainingSequence(rows) ELSE None]

(* The builder raises on a history it cannot join.                         *)
RefuseHistory ==
    /\ At("artifacts")
    /\ PolicyTraces(host.rows) # <<>> /\ ~Contiguous(host.rows)
    /\ GoTo("raised")
    /\ UNCHANGED <<proxyVars, spec, alive, server, prompt, heard, files, final, exits>>

WriteArtifacts ==
    /\ At("artifacts")
    /\ PolicyTraces(host.rows) # <<>> => Contiguous(host.rows)
    /\ files' = files \cup {"producer-artifact", "policy-artifact"}
    /\ host' = [host EXCEPT !.pc = "pinned", !.policy = PolicyArtifact(host.rows)]
    /\ UNCHANGED <<proxyVars, spec, alive, server, prompt, heard, final, exits>>

(* A pinned round policy must be the one the identity names.               *)
CheckPinned ==
    /\ At("pinned")
    /\ IF spec.pinned \in {None, Identity.policy}
       THEN /\ files' = files \cup {"artifact-refs"}
            /\ GoTo("read events")
       ELSE GoTo("raised") /\ UNCHANGED files
    /\ UNCHANGED <<proxyVars, spec, alive, server, prompt, heard, final, exits>>

-----------------------------------------------------------------------------
(* finalize_local_run and the decisions written after it.                  *)

ReadEvents ==
    /\ At("read events")
    /\ host' = [host EXCEPT !.pc = "finalize", !.events = log]
    /\ UNCHANGED <<proxyVars, spec, alive, server, prompt, heard, files, final, exits>>

(* A line another thread has only partly written.                          *)
TornRead ==
    /\ \/ /\ At("rows") \/ At("finalize") \/ At("assemble") \/ At("gate")
          /\ WritingEvidence # {}
       \/ /\ At("read events")
          /\ WritingLog # {}
    /\ GoTo("raised")
    /\ UNCHANGED <<proxyVars, spec, alive, server, prompt, heard, files, final, exits>>

(* The third read, and the bundle over both artifacts.                     *)
Finalize ==
    LET ep == Assemble(host.events, host.refs)
        artifacts == <<ProducerArtifact, host.policy>>
        report == IF host.verifier = None THEN None ELSE <<"verifier-report", host.verifier>>
    IN  /\ At("finalize")
        /\ IF \/ AssemblyFails(host.events)
              \/ host.verifier # None /\ ep.outcome.verifier # host.verifier
              \/ BundleRefused(Identity, Identity, artifacts, report)
           THEN GoTo("raised") /\ UNCHANGED final
           ELSE /\ final' = ExecutionBundle(Identity, ep, artifacts,
                                            {evidence[i].call : i \in DOMAIN evidence}, report)
                /\ GoTo("write")
        /\ UNCHANGED <<proxyVars, spec, alive, server, prompt, heard, files, exits>>

(* Nobody reads these files while they are written.                        *)
WriteDecisions ==
    /\ At("write")
    /\ files' = files \cup {"episode", "execution-bundle", "sft-eligibility",
                            "on-policy-rl-eligibility", "summary"}
    /\ GoTo("assemble")
    /\ UNCHANGED <<proxyVars, spec, alive, server, prompt, heard, final, exits>>

OnPolicyVerdict ==
    CertifyFor("ON_POLICY_RL", final.episode, Identity, final, host.policy, Identity.policy)

-----------------------------------------------------------------------------
(* The training loop and the gate.                                         *)

(* NativeTokenTransport.error, set by the first failed call for good.      *)
TransportFailed == \E c \in Calls : call[c].answer = "error"

(* _assemble, the fourth read: every row must carry native evidence and    *)
(* the history must be contiguous.  run() then refuses a transport that    *)
(* failed and a run without a verdict before it leaves the sequence.       *)
AssembleSequence ==
    /\ At("assemble")
    /\ IF /\ AllModelCallsUsable(evidence) /\ Contiguous(evidence)
          /\ ~TransportFailed
          /\ Verdict \in {"PASSED", "FAILED"}
       THEN /\ host' = [host EXCEPT !.pc = "gate", !.admitted = TrainingSequence(evidence)]
            /\ files' = files \cup {"admitted-sequence"}
       ELSE GoTo("raised") /\ UNCHANGED files
    /\ UNCHANGED <<proxyVars, spec, alive, server, prompt, heard, final, exits>>

(* The fifth read: fresh certification, and one token sequence in the      *)
(* artifact, in the admitted file and in the evidence.                     *)
GateAccepts ==
    /\ Verdict \in {"PASSED", "FAILED"}
    /\ OnPolicyVerdict = "ELIGIBLE"
    /\ AllModelCallsUsable(evidence) /\ Contiguous(evidence)
    /\ host.policy.training = TrainingSequence(evidence)
    /\ host.admitted = TrainingSequence(evidence)

Gate ==
    /\ At("gate")
    /\ host' = [host EXCEPT !.pc = "gated", !.gate = GateAccepts]
    /\ UNCHANGED <<proxyVars, spec, alive, server, prompt, heard, files, final, exits>>

Serve(c) == ServeCall(c) /\ UNCHANGED hostVars

HostStep ==
    \/ Setup
    \/ StartServer
    \/ RefuseIsolation
    \/ SpawnPi
    \/ CloseServer
    \/ ReadRows
    \/ EndSandbox
    \/ ReplayEvent
    \/ SkipVerifier
    \/ StartVerifier
    \/ RecordVerdict
    \/ VerifierHangs
    \/ Finish
    \/ RefuseHistory
    \/ WriteArtifacts
    \/ CheckPinned
    \/ ReadEvents
    \/ Finalize
    \/ WriteDecisions
    \/ AssembleSequence
    \/ Gate

Next ==
    \/ HostStep
    \/ RefuseRoot
    \/ PiExits
    \/ PiTimesOut
    \/ PiRaises
    \/ TornRead
    \/ \E c \in Calls : PiCalls(c) \/ PiHears(c) \/ Serve(c)

(* Both child processes run under a timeout, so the verifier's step ends   *)
(* one way or the other; the host's own steps do not block.  Nothing is    *)
(* assumed of the serving threads.                                         *)
Fairness ==
    /\ WF_vars(HostStep)
    /\ WF_vars(PiTimesOut)

Spec == Init /\ [][Next]_vars /\ Fairness

-----------------------------------------------------------------------------
(* Properties.                                                             *)

(* What training consumes is the whole conversation Pi had, although the   *)
(* evidence file is read five times while late threads write: in a gated   *)
(* episode every request on record was answered with native evidence, the  *)
(* trained turns are exactly those requests in the order Pi made them, and *)
(* the reward is what the verifier found.                                  *)
TrainedIsWhole ==
    host.gate = TRUE =>
      /\ CallSpan(Head(host.policy.training)) \in Spans(OfType(final.episode.events, "MODEL_RESPONSE"))
      /\ \A c \in Calls :
           CallSpan(c) \in Spans(OfType(final.episode.events, "MODEL_REQUEST"))
             => \E i \in DOMAIN host.policy.training : host.policy.training[i] = c
      /\ \A i \in DOMAIN host.policy.training :
           /\ call[host.policy.training[i]].answer = "native"
           /\ prompt[host.policy.training[i]] = SubSeq(host.policy.training, 1, i - 1)
      /\ \A i \in DOMAIN host.policy.traces :
           host.policy.traces[i].reward = IF exits.verifier = TRUE THEN 1 ELSE 0

(* No verdict is invented: an episode is fit for evaluation, preference or *)
(* SFT only if Pi itself ended with 0 and the verifier reached a verdict,  *)
(* fit for SFT only if that verdict was a pass; and the state of every     *)
(* reader stays well-typed.                                                *)
PiVerdictEarned ==
    /\ ProxyTypeOK
    /\ files \subseteq JsonFiles
    /\ final # None =>
         /\ EvaluationVerdict(final.episode) = "ELIGIBLE" \/ PreferenceEligible(final.episode)
              => exits.pi = "zero" /\ exits.verifier \in BOOLEAN
         /\ SftEligible(final.episode) => exits.pi = "zero" /\ exits.verifier = TRUE

(* An execution ends with its server closed and Pi gone: a Pi or a         *)
(* verifier that never returns and an answer that never comes cannot hold  *)
(* it.                                                                     *)
PiRunEnds ==
    <>[]((At("gated") \/ At("raised")) /\ server # "up" /\ ~alive)
=============================================================================
