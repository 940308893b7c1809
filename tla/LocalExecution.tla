--------------------------- MODULE LocalExecution ---------------------------
(***************************************************************************)
(* LocalExecutionOrchestrator.run (src/orchestration/local_execution.py):  *)
(* one harness in a container, its verifier in a second one of the same    *)
(* name, the proxy both talk through, and finalize_local_run               *)
(* (src/assembly/local_run_finalizer.py), which reads back what the        *)
(* serving threads are possibly still writing.  Containers are started by  *)
(* DockerLocalLauncher (src/launchers/local_docker.py); Docker itself and  *)
(* the programs inside the containers are the environment.                 *)
(*                                                                         *)
(* An artifact is named by its content: <<kind, content>> is the id        *)
(* ArtifactStore.put derives, which leaves the creation time out although  *)
(* the reference itself carries it.  Two captures of equal output          *)
(* therefore share an id and differ as references.                         *)
(***************************************************************************)
EXTENDS ModelProxy, EpisodeCertification, LocalOutcomes, Functions

CONSTANTS
    Outputs,     \* contents a process may print
    MaxPosts     \* bound on events the harness posts to the ingress

ASSUME LocalAssumption ==
    /\ MaxPosts \in Nat
    /\ None \notin {"COMPLETED", "FAILED", "INFRA_INVALID", "TIMEOUT", "PASSED", "ERROR",
                    "zero", "other", "nowhere"}
    /\ \A c \in Calls : CallSpan(c) # "nowhere"

VARIABLES
    orch,     \* the locals of run(): pc, role being launched, file to write, ...
    running,  \* roles whose container is running
    server,   \* the proxy's HTTP server: "absent", "up", "closed"
    stage,    \* what the pool's stage observer last accepted
    files,    \* JSON files of the output directory
    final,    \* LocalRunFinalization, None until finalize_local_run returns
    posts,    \* events posted by the harness
    exits,    \* history: how each container really ended
    quiet     \* history: was every recorded call answered when the log was read?

orchVars == <<orch, running, server, stage, files, final, posts, exits, quiet>>
vars == <<proxyVars, orchVars>>

Roles == {"harness", "verifier"}
ExitCodes == {"zero", "docker", "other"}       \* 0; 125 to 127; any other
Statuses == {"COMPLETED", "FAILED", "INFRA_INVALID", "TIMEOUT"}
JsonFiles == {"execution-run-manifest", "launch-plan", "producer-artifact",
              "artifact-refs", "episode", "execution-bundle", "finalization"}

Init ==
    /\ ProxyInit
    /\ orch = [pc |-> "start", role |-> "harness", file |-> "producer-artifact",
               harness |-> None, verifier |-> None, out |-> {}, refs |-> {},
               verdict |-> {}, events |-> <<>>, evidence |-> <<>>]
    /\ running = {}
    /\ server = "absent"
    /\ stage = "INIT"
    /\ files = {}
    /\ final = None
    /\ posts = 0
    /\ exits = [r \in Roles |-> None]
    /\ quiet = FALSE

At(pc) == orch.pc = pc
AtRole(pc, role) == orch.pc = pc /\ orch.role = role
GoTo(pc) == orch' = [orch EXCEPT !.pc = pc]

(* run() raises: the finally clause still closes the server.               *)
Raise == GoTo("raising")

-----------------------------------------------------------------------------
(* Preparation.                                                            *)

(* _claim_output_directory: a directory with anything in it is refused     *)
(* before the server exists.                                               *)
RefuseOutputDir ==
    /\ At("start")
    /\ GoTo("raised")
    /\ UNCHANGED <<proxyVars, running, server, stage, files, final, posts, exits, quiet>>

Prepare ==
    /\ At("start")
    /\ server' = "up"
    /\ files' = files \cup {"execution-run-manifest", "launch-plan"}
    /\ Emit(Fact("SANDBOX_STARTED", "sandbox", "STARTED"))
    /\ GoTo("launch")
    /\ UNCHANGED <<evidence, call, callCount, observed, recordLock, closeouts, running,
                   stage, final, posts, exits, quiet>>

-----------------------------------------------------------------------------
(* DockerLocalLauncher.run, for either role.                               *)

(* Docker's own exit codes, taken for the program's.                       *)
StatusWithoutDocker(code) == IF code = "zero" THEN "COMPLETED" ELSE "FAILED"

StatusOf(code) ==
    CASE code = "zero" -> "COMPLETED"
      [] code = "docker" -> "INFRA_INVALID"
      [] OTHER -> "FAILED"

(* _capture_outputs: an empty stream is not stored.                        *)
OutputRefs(text) == IF text = None THEN {} ELSE {<<"process-stdout", text>>}

Launched(role, status, refs) ==
    orch' = [orch EXCEPT !.pc = "after", ![role] = status, !.out = refs]

(* The runtime probe fails, or the docker process does not start.          *)
LaunchFails(role) ==
    /\ AtRole("launch", role)
    /\ Launched(role, "INFRA_INVALID", {})
    /\ UNCHANGED <<proxyVars, running, server, stage, files, final, posts, exits, quiet>>

Launch(role) ==
    /\ AtRole("launch", role)
    /\ running' = running \cup {role}
    /\ GoTo("in")
    /\ UNCHANGED <<proxyVars, server, stage, files, final, posts, exits, quiet>>

ContainerExits(role) ==
    /\ AtRole("in", role)
    /\ running' = running \ {role}
    /\ \E code \in ExitCodes, text \in Outputs \cup {None} :
         /\ exits' = [exits EXCEPT ![role] = code]
         /\ Launched(role, StatusOf(code), OutputRefs(text))
    /\ UNCHANGED <<proxyVars, server, stage, files, final, posts, quiet>>

(* TimeoutExpired: docker rm --force, whose failure is only an issue of    *)
(* the artifact; the container then lives on.                              *)
TimesOut(role) ==
    /\ AtRole("in", role)
    /\ running' \in {running, running \ {role}}
    /\ exits' = [exits EXCEPT ![role] = "timeout"]
    /\ Launched(role, "TIMEOUT", {})
    /\ UNCHANGED <<proxyVars, server, stage, files, final, posts, quiet>>

(* Any other exception, such as output that is not text: cleanup, raise.   *)
LaunchRaises(role) ==
    /\ AtRole("in", role)
    /\ running' \in {running, running \ {role}}
    /\ Raise
    /\ UNCHANGED <<proxyVars, server, stage, files, final, posts, exits, quiet>>

(* A container whose cleanup failed ends by itself.                        *)
LeakedEnds(role) ==
    /\ role \in running /\ ~AtRole("in", role)
    /\ running' = running \ {role}
    /\ UNCHANGED <<proxyVars, orch, server, stage, files, final, posts, exits, quiet>>

-----------------------------------------------------------------------------
(* After the harness.                                                      *)

(* stage_observer("POSTRUN"), the workspace diff, the references and the   *)
(* SANDBOX_FINISHED event.                                                 *)
PostRun ==
    LET refs == orch.out \cup {<<"workspace-diff", "diff">>}
    IN  /\ AtRole("after", "harness")
        /\ stage' = IF HasObserver THEN "POSTRUN" ELSE stage
        /\ orch' = [orch EXCEPT !.pc = "verify", !.out = {}, !.refs = refs]
        /\ Emit([Fact("SANDBOX_FINISHED", "sandbox", EventStatus(orch.harness))
                   EXCEPT !.refs = refs])
        /\ UNCHANGED <<evidence, call, callCount, observed, recordLock, closeouts, running,
                       server, files, final, posts, exits, quiet>>

SkipVerifier ==
    /\ At("verify")
    /\ orch.harness \in Unverifiable
    /\ GoTo("finish")
    /\ UNCHANGED <<proxyVars, running, server, stage, files, final, posts, exits, quiet>>

StartVerifier ==
    /\ At("verify")
    /\ orch.harness \notin Unverifiable
    /\ Emit(Fact("VERIFICATION_STARTED", "verifier", "STARTED"))
    /\ orch' = [orch EXCEPT !.pc = "launch", !.role = "verifier"]
    /\ UNCHANGED <<evidence, call, callCount, observed, recordLock, closeouts, running,
                   server, stage, files, final, posts, exits, quiet>>

(* _index_refs: an id already indexed belongs to a reference created at    *)
(* another time, which is a conflict.                                      *)
ConflictingRef(refs) == refs \cap orch.refs # {}

RecordVerdict ==
    LET o == VerifierOutcome(orch.verifier)
        refs == orch.out \cup {<<"verifier-report", o.verdict>>}
    IN  /\ AtRole("after", "verifier")
        /\ ~ConflictingRef(orch.out)
        /\ Emit([Fact("VERIFICATION_FINISHED", "verifier", o.status)
                   EXCEPT !.passed = o.passed, !.refs = refs])
        /\ orch' = [orch EXCEPT !.pc = "finish", !.out = {}, !.refs = @ \cup refs,
                                !.verdict = {Len(log) + 1}]
        /\ UNCHANGED <<evidence, call, callCount, observed, recordLock, closeouts, running,
                       server, stage, files, final, posts, exits, quiet>>

RefuseOutput ==
    /\ AtRole("after", "verifier")
    /\ ConflictingRef(orch.out)
    /\ Raise
    /\ UNCHANGED <<proxyVars, running, server, stage, files, final, posts, exits, quiet>>

VerifierVerdict ==
    IF orch.verifier = None THEN "NOT_RUN" ELSE VerifierOutcome(orch.verifier).verdict

(* recorder.finish.                                                        *)
Finish ==
    LET o == TerminalOutcome(orch.harness, VerifierVerdict)
    IN  /\ At("finish")
        /\ Emit([Fact("EPISODE_FINISHED", "episode", "SUCCEEDED") EXCEPT !.terminal =
                   [task |-> o.task, validity |-> o.validity, verifier |-> VerifierVerdict,
                    score |-> IF orch.verifier = None THEN None
                              ELSE VerifierOutcome(orch.verifier).score,
                    evidence |-> orch.verdict]])
        /\ GoTo("write")
        /\ UNCHANGED <<evidence, call, callCount, observed, recordLock, closeouts, running,
                       server, stage, files, final, posts, exits, quiet>>

-----------------------------------------------------------------------------
(* Finalization.                                                           *)

(* What run() does after each file it writes.                              *)
AfterFile(file) ==
    CASE file = "producer-artifact" -> [pc |-> "write", file |-> "artifact-refs"]
      [] file = "artifact-refs" -> [pc |-> "read events", file |-> "episode"]
      [] file = "episode" -> [pc |-> "write", file |-> "execution-bundle"]
      [] file = "execution-bundle" -> [pc |-> "write", file |-> "finalization"]
      [] OTHER -> [pc |-> "returning", file |-> file]

(* _write_json: a temporary file, fsync and an atomic rename.              *)
WriteJson ==
    /\ At("write")
    /\ files' = files \cup {orch.file}
    /\ orch' = [orch EXCEPT !.pc = AfterFile(orch.file).pc, !.file = AfterFile(orch.file).file]
    /\ UNCHANGED <<proxyVars, running, server, stage, final, posts, exits, quiet>>

(* The first read of finalize_local_run: the whole event log.              *)
ReadEvents ==
    /\ At("read events")
    /\ orch' = [orch EXCEPT !.pc = "read evidence", !.events = log]
    /\ quiet' = \A c \in Calls : call[c].pc \notin {"sent", "answered", "evidenced", "raised"}
    /\ UNCHANGED <<proxyVars, running, server, stage, files, final, posts, exits>>

(* The second: the evidence log.                                           *)
ReadEvidence ==
    /\ At("read evidence")
    /\ orch' = [orch EXCEPT !.pc = "assemble", !.evidence = evidence]
    /\ UNCHANGED <<proxyVars, running, server, stage, files, final, posts, exits, quiet>>

(* Either read may see a line another thread has only partly written:      *)
(* a malformed record, which finalization refuses.                         *)
TornRead ==
    /\ \/ /\ At("read events")
          /\ WritingLog # {} \/ "harness" \in running
       \/ /\ At("read evidence")
          /\ WritingEvidence # {}
    /\ Raise
    /\ UNCHANGED <<proxyVars, running, server, stage, files, final, posts, exits, quiet>>

(* The rest of finalize_local_run: the verifier report must agree with the *)
(* outcome the events declare; the bundle binds the episode to the         *)
(* evidence and the artifacts.                                             *)
ReportDisagrees(ep) ==
    orch.verifier # None /\ ep.outcome.verifier # VerifierOutcome(orch.verifier).verdict

AssembleRun ==
    LET ep == Assemble(orch.events, orch.refs)
    IN  /\ At("assemble")
        /\ IF AssemblyFails(orch.events) \/ ReportDisagrees(ep)
           THEN Raise /\ UNCHANGED final
           ELSE /\ final' = [episode |-> ep, sources |-> {x.call : x \in Range(orch.evidence)}]
                /\ GoTo("write")
        /\ UNCHANGED <<proxyVars, running, server, stage, files, posts, exits, quiet>>

(* Without the finally, a run that raises leaves its server listening.     *)
CloseServerOnReturn ==
    /\ At("returning") \/ At("raising")
    /\ server' = IF At("returning") THEN "closed" ELSE server
    /\ GoTo(IF At("returning") THEN "returned" ELSE "raised")
    /\ UNCHANGED <<proxyVars, running, stage, files, final, posts, exits, quiet>>

(* finally: server.close().  The serving threads are not waited for.       *)
CloseServer ==
    /\ At("returning") \/ At("raising")
    /\ server' = "closed"
    /\ GoTo(IF At("returning") THEN "returned" ELSE "raised")
    /\ UNCHANGED <<proxyVars, running, stage, files, final, posts, exits, quiet>>

-----------------------------------------------------------------------------
(* The harness and the threads that serve it.                              *)

CanPost == "harness" \in running /\ server = "up"

HarnessCalls(c) ==
    /\ CanPost
    /\ PostCall(c)
    /\ UNCHANGED orchVars

(* What a harness may try to post: tool events, well formed or not, and    *)
(* events that are not its to state.                                       *)
Tool(type) == Fact(type, "tool", "SUCCEEDED")

HarnessFacts ==
    {Tool("TOOL_CALL"), Tool("TOOL_RESULT"),
     [Tool("TOOL_RESULT") EXCEPT !.refs = {<<"unknown", "x">>}],
     [Tool("TOOL_RESULT") EXCEPT !.parent = "nowhere"],
     [Fact("VERIFICATION_FINISHED", "verifier", "SUCCEEDED") EXCEPT !.passed = TRUE],
     [Fact("EPISODE_FINISHED", "episode", "SUCCEEDED") EXCEPT !.terminal =
        [task |-> "SUCCESS", validity |-> "VALID", verifier |-> "PASSED", score |-> 1,
         evidence |-> {}]]}

HarnessPosts ==
    /\ CanPost
    /\ posts < MaxPosts
    /\ posts' = posts + 1
    /\ \E fact \in HarnessFacts : IngressEmit(fact)
    /\ UNCHANGED <<orch, running, server, stage, files, final, exits, quiet>>

(* on_first_model_request: the pool refuses RUN once it has seen POSTRUN,  *)
(* and the exception ends the thread after the call was counted.           *)
NotifyFirst(c) ==
    /\ call[c].pc = "first"
    /\ IF stage = "POSTRUN"
       THEN MoveTo(c, "refused") /\ UNCHANGED stage
       ELSE MoveTo(c, "counted") /\ stage' = "RUN"
    /\ UNCHANGED <<log, nextSeq, evidence, callCount, observed, recordLock, closeouts, orch,
                   running, server, files, final, posts, exits, quiet>>

Serve(c) == ServeCall(c) /\ UNCHANGED orchVars

OrchestratorStep ==
    \/ Prepare
    \/ PostRun
    \/ SkipVerifier
    \/ StartVerifier
    \/ RecordVerdict
    \/ RefuseOutput
    \/ Finish
    \/ WriteJson
    \/ ReadEvents
    \/ ReadEvidence
    \/ AssembleRun
    \/ CloseServer
    \/ \E r \in Roles : Launch(r)

Next ==
    \/ OrchestratorStep
    \/ RefuseOutputDir
    \/ TornRead
    \/ \E r \in Roles : \/ LaunchFails(r)
                        \/ ContainerExits(r)
                        \/ TimesOut(r)
                        \/ LaunchRaises(r)
                        \/ LeakedEnds(r)
    \/ \E c \in Calls : HarnessCalls(c) \/ NotifyFirst(c) \/ Serve(c)
    \/ HarnessPosts

(* run() is one thread on a straight line whose only waits are             *)
(* subprocess.run with a timeout: it steps on, or its wait times out.  No  *)
(* progress is assumed of containers or serving threads.                   *)
Fairness == WF_vars(OrchestratorStep \/ \E r \in Roles : TimesOut(r))

Spec == Init /\ [][Next]_vars /\ Fairness

-----------------------------------------------------------------------------
(* Properties.                                                             *)

(* The type invariant of the run and of its capture layer.                 *)
TypeOK ==
    /\ ProxyTypeOK
    /\ orch.pc \in {"start", "launch", "in", "after", "verify", "finish", "write",
                    "read events", "read evidence", "assemble", "returning", "raising",
                    "returned", "raised"}
    /\ orch.role \in Roles
    /\ {orch.harness, orch.verifier} \subseteq Statuses \cup {None}
    /\ orch.file \in JsonFiles
    /\ running \subseteq Roles
    /\ server \in {"absent", "up", "closed"}
    /\ stage \in {"INIT", "RUN", "POSTRUN"}
    /\ files \subseteq JsonFiles
    /\ posts \in 0..MaxPosts
    /\ exits \in [Roles -> ExitCodes \cup {"timeout", None}]
    /\ quiet \in BOOLEAN

(* What the world did in this run, as opposed to what was recorded of it:  *)
(* both containers ended by themselves with a verdict, every model call on *)
(* record had its answer, and the harness posted nothing malformed.        *)
Sound ==
    /\ exits.harness \in {"zero", "other"}
    /\ exits.verifier \in {"zero", "other"}
    /\ quiet
    /\ \A e \in Range(orch.events) :
         e.span = "tool" => /\ e.parent = None /\ e.refs = {}
                            /\ e.type = "TOOL_CALL" =>
                                 \E f \in Range(orch.events) : f.type = "TOOL_RESULT"

(* The chain from the containers to a consumer's decision neither invents  *)
(* nor loses a verdict: a finalized episode is ELIGIBLE for evaluation     *)
(* exactly when the run was sound, and fit for SFT only if the verifier    *)
(* really exited with 0, whatever the harness posted and however late its  *)
(* calls were answered.                                                    *)
VerdictEarned ==
    final # None =>
      /\ EvaluationVerdict(final.episode) = "ELIGIBLE" <=> Sound
      /\ PreferenceEligible(final.episode) => Sound
      /\ SftEligible(final.episode) => Sound /\ exits.verifier = "zero"

(* Every response of a finalized episode is backed by evidence its bundle  *)
(* binds, although both logs grow while they are read: responses are       *)
(* written after their evidence and read before it.                        *)
EvidenceBacksResponses ==
    final # None => Answered(final.episode.events) \subseteq final.sources

(* Concurrent writers, late threads and a leaked harness never make an     *)
(* episode CORRUPT: one terminal event, no sequence number twice.          *)
NeverCorrupt ==
    final # None => HarnessAnalysisVerdict(final.episode) = "ELIGIBLE"

(* What finalization makes of two logs that are still being written is a   *)
(* whole episode with its evidence.                                        *)
CaptureSound == EvidenceBacksResponses /\ NeverCorrupt

(* The verifier never runs beside a live harness: they share the container *)
(* name and the workspace, and a harness whose cleanup failed still writes *)
(* to it.                                                                  *)
SoleContainer == Cardinality(running) <= 1

(* finalization.json is the commit point: whenever it exists, a crash      *)
(* included, so do the files whose checksums it states.                    *)
FinalizationLast == "finalization" \in files => files = JsonFiles

(* The transaction keeps its order: one container at a time, the commit    *)
(* point last.                                                             *)
TransactionSound == TypeOK /\ SoleContainer /\ FinalizationLast

(* Every run ends, and never with its server still listening: a harness    *)
(* that hangs, a verifier that hangs or an answer that never comes cannot  *)
(* hold it.                                                                *)
ExecutionEnds == <>[](orch.pc \in {"returned", "raised"} /\ server # "up")
=============================================================================
