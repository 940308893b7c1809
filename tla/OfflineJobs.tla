---------------------------- MODULE OfflineJobs ----------------------------
(***************************************************************************)
(* The parts of the data plane that are functions of what they are given,  *)
(* each run on one input: a job is taken up, and its result is judged.     *)
(* Beside them the two machines that run on their own: the native token    *)
(* transport (NativeTokens) and the supervisor of the learning loop        *)
(* (LearningLoop).  A behaviour is one job or one of the two machines.     *)
(***************************************************************************)
EXTENDS TrainingRounds, PiAdapter, NativeTokens, SftDatasets, ResponseReplay,
        RecoveryPolicy, ProcessCleanup, LearningLoop, DocumentJobs,
        WorkspaceEvidence

VARIABLE job   \* [kind, input, out]; out is None until the job has run

offlineVars == <<nativeVars, loopVars, job>>

-----------------------------------------------------------------------------
(* Protocols of Pi of up to four lines, and what the caller declares.      *)

AssistantLine(stop, calls, time, usage) ==
    [type |-> "assistant", stop |-> stop, calls |-> calls, time |-> time, usage |-> usage]
ToolEndLine(id, error, text) ==
    [type |-> "tool_end", id |-> id, error |-> error, text |-> text]

ProtocolLines ==
    {AssistantLine("toolUse", <<1>>, 5, TRUE), AssistantLine("toolUse", <<1, 2>>, None, FALSE),
     AssistantLine("error", <<>>, 1, FALSE), AssistantLine("stop", <<>>, 3, TRUE),
     [type |-> "result", id |-> 1, time |-> 2],
     ToolEndLine(1, FALSE, "ok"), ToolEndLine(1, TRUE, "ENOENT"), ToolEndLine(2, FALSE, "ok"),
     [type |-> "agent_end", retry |-> FALSE], [type |-> "agent_end", retry |-> TRUE],
     [type |-> "junk"]}

Declarations ==
    {[task |-> "SUCCESS", validity |-> "VALID", verifier |-> "PASSED", score |-> 1],
     [task |-> "FAILURE", validity |-> "VALID", verifier |-> "FAILED", score |-> 0],
     [task |-> "UNKNOWN", validity |-> "VALID", verifier |-> "NOT_RUN", score |-> None]}

AdapterInputs ==
    [lines : UNION {[1..n -> ProtocolLines] : n \in 0..4}, declared : Declarations]

AdapterJob(input) ==
    LET read == ReadPiNdjson(input.lines)
        converted == Convert(read.records, read.issues, input.declared)
    IN  [events |-> converted.events, caps |-> converted.caps, issues |-> converted.issues,
         failed |-> SemanticBackendFailure(converted),
         settled |-> ProtocolSettled(read.records),
         episode |-> Assemble(converted.events, {})]

-----------------------------------------------------------------------------
JobStart(kind, inputs) ==
    \E input \in inputs : job = [kind |-> kind, input |-> input, out |-> None]

Init ==
    /\ NativeInit
    /\ LoopInit
    /\ \/ JobStart("native", {None})
       \/ JobStart("loop", {None})
       \/ JobStart("admission", AdmissionInputs)
       \/ JobStart("dataset", DatasetInputs)
       \/ JobStart("adapter", AdapterInputs)
       \/ JobStart("replay", ReplayInputs)
       \/ JobStart("recovery", RecoveryInputs)
       \/ JobStart("cleanup", CleanupInputs)
       \/ JobStart("round", RoundInputs)
       \/ JobStart("documents", DocumentInputs)
       \/ JobStart("fixture", FixtureInputs)
       \/ JobStart("workspace", WorkspaceInputs)

JobEnds(kind, result) ==
    /\ job.kind = kind /\ job.out = None
    /\ job' = [job EXCEPT !.out = result]
    /\ UNCHANGED <<nativeVars, loopVars>>

RunAdmission == JobEnds("admission", Admission(job.input))
RunDataset == JobEnds("dataset", DatasetJob(job.input))
RunAdapter == JobEnds("adapter", AdapterJob(job.input))
RunReplay == JobEnds("replay", ReplayJob(job.input))
RunRecovery == JobEnds("recovery", Decide(job.input))
RunCleanup == JobEnds("cleanup", CleanupJob(job.input))
RunRound == JobEnds("round", RoundJob(job.input))
RunDocumentJob == JobEnds("documents", DocumentJob(job.input))
RunFixture == JobEnds("fixture", FixtureJob(job.input))
RunWorkspace == JobEnds("workspace", WorkspaceJob(job.input))

RunNative ==
    /\ job.kind = "native"
    /\ \E r \in Requests : NativeStep(r)
    /\ UNCHANGED <<loopVars, job>>

RunLoop ==
    /\ job.kind = "loop"
    /\ LoopStep
    /\ UNCHANGED <<nativeVars, job>>

Next ==
    \/ RunAdmission
    \/ RunDataset
    \/ RunAdapter
    \/ RunReplay
    \/ RunRecovery
    \/ RunCleanup
    \/ RunRound
    \/ RunDocumentJob
    \/ RunFixture
    \/ RunWorkspace
    \/ RunNative
    \/ RunLoop

Spec == Init /\ [][Next]_offlineVars

Done(kind) == job.kind = kind /\ job.out # None

-----------------------------------------------------------------------------
(* What reaches a trainer was earned: every admitted pair of episode and   *)
(* reward is one the verifier found and certification let through, a       *)
(* manifest written by hand included, and no task of the batch is trained  *)
(* on and tested on; a certified batch is the whole round, every group of  *)
(* one task with both rewards in it.                                       *)
AdmissionSound ==
    Done("admission") =>
      LET input == job.input
          found == {<<e, input.rewards[e]>> : e \in Episodes}
          certified == {c \in {Certified(input)[e] : e \in Episodes} :
                          /\ c.decision.verdict = "ELIGIBLE"
                          /\ c.decision.profile = "ON_POLICY_RL"
                          /\ c.decision.artifact.status = "COMPLETED"}
          earned == {<<c.identity.episode, c.decision.artifact.reward>> : c \in certified}
          pairs(S) == {<<s.episode, s.reward>> : s \in S}
          InGroup(g) == {e \in Episodes : GroupOf(e) = g}
      IN  /\ \A S \in {job.out.verl, job.out.slime} \ {None} :
               /\ pairs(S) \subseteq earned
               /\ \A c, d \in certified :
                    c.identity.task = d.identity.task => c.split = d.split
          /\ job.out.certified =>
               /\ pairs(job.out.verl) = found
               /\ \A g \in {"g1", "g2"} :
                    /\ {input.rewards[e] : e \in InGroup(g)} = {0, 1}
                    /\ Cardinality({Certified(input)[e].identity.task : e \in InGroup(g)}) = 1

(* The adapted trace tells Pi's story: whatever times and lines Pi states, *)
(* events are strictly ordered in time, a result hangs under the turn that *)
(* asked for it, the episode is complete exactly when every call was       *)
(* answered, it may be evaluated exactly when the declared verdict is one, *)
(* and a run the process runner calls settled is no backend failure.       *)
AdaptedTraceSound ==
    Done("adapter") =>
      LET E == job.out.events
          calls(i) == {j \in 1..(i - 1) : E[j].type = "TOOL_CALL" /\ E[j].span = E[i].span}
          answers(i) == {j \in 1..(i - 1) : E[j].type = "TOOL_RESULT" /\ E[j].span = E[i].span}
          open(i) == {j \in calls(i) : \A k \in answers(i) : k < j}
          unanswered == {i \in DOMAIN E : /\ E[i].type = "TOOL_CALL"
                                          /\ \A j \in DOMAIN E : E[j].type = "TOOL_RESULT"
                                               => E[j].span # E[i].span}
      IN  /\ \A i \in 2..Len(E) : E[i - 1].time < E[i].time
          /\ \A i \in DOMAIN E : E[i].type = "TOOL_RESULT" =>
               E[i].parent = IF open(i) = {} THEN None ELSE E[Max(open(i))].parent
          /\ (job.out.episode.integrity = "COMPLETE") <=> (unanswered = {})
          /\ (EvaluationVerdict(job.out.episode) = "ELIGIBLE") <=>
               /\ unanswered = {} /\ ~job.out.failed
               /\ job.input.declared.verifier \in {"PASSED", "FAILED"}
          /\ job.out.settled => ~job.out.failed
          /\ job.out.failed => job.out.episode.outcome.validity # "VALID"

(* The file a path names, for a process in the workspace.                  *)
FileNamed(p) ==
    NormParts(IF p.form = "rel" THEN AbsPath(WorkspaceRoot \o p.parts) ELSE ExpandUser(p))

OutsideWorkspace(path) ==
    path.form # "rel" /\ ~IsPrefix(WorkspaceRoot, FileNamed(path))

ActionsBacked(events, actions) ==
    /\ {actions[i].id : i \in DOMAIN actions}
         = {e.id : e \in {x \in Range(events) : x.type = "call" /\ x.id # None}}
    /\ \A i, j \in DOMAIN actions : i # j => actions[i].id # actions[j].id
    /\ \A i \in DOMAIN actions :
         /\ \A n \in actions[i].evidence : events[n].id = actions[i].id
         /\ actions[i].status = "SUCCEEDED" =>
              \E n \in actions[i].evidence : /\ events[n].type = "result"
                                             /\ events[n].status = "SUCCEEDED"

EachCallAnswered(messages, steps) ==
    LET asks == {<<i, k>> \in (DOMAIN messages) \X (1..2) :
                   messages[i].role = "assistant" /\ k \in DOMAIN messages[i].calls}
        id(x) == messages[x[1]].calls[x[2]]
        replies == {j \in DOMAIN messages : messages[j].role = "tool"}
    IN  /\ messages # <<>>
        /\ \A x, y \in asks : x # y => id(x) # id(y)
        /\ {id(x) : x \in asks} = steps
        /\ {messages[j].id : j \in replies} \subseteq steps
        /\ \A x \in asks :
             \E j \in replies :
               /\ {k \in replies : messages[k].id = id(x)} = {j}
               /\ x[1] < j /\ (x[1] + 1)..j \subseteq replies

CommandNeutral(x) ==
    LET left == ArgumentMarkers(x.expected.arg)
    IN  /\ "root" \in left => Cardinality(RootsIn(x.raw.value.pieces, WorkspaceRoot)) > 1
        /\ "host" \in left => "ws" \in left /\ x.lossy

(* Neutral actions still say what was done: a normalised path names the    *)
(* same file, and is marked lossy when that file lies outside; a command   *)
(* that is not lossy refers to nothing outside.  Every call id is one      *)
(* action, backed by events of that id alone, and succeeded only if its    *)
(* result says so; every action is an example, a duplicate or a counted    *)
(* leak.  No path or pattern of an example is a host path; a command of    *)
(* one still names the workspace only if the call named it more than once  *)
(* (only the first occurrence is rewritten), and something outside only    *)
(* beside it, marked lossy.  A chat is accepted exactly when each call is  *)
(* answered once, before the next decision.                                *)
DatasetSound ==
    Done("dataset") =>
      LET input == job.input
          out == job.out
      IN  CASE input.what = "path" ->
                 /\ FileNamed(input.value) = FileNamed(out.value)
                 /\ OutsideWorkspace(input.value) => out.lossy
                 /\ ~out.lossy => out.value.form = "rel"
            [] input.what = "command" ->
                 ~out.lossy => "outside" \notin Range(out.value)
            [] input.what = "events" ->
                 /\ ActionsBacked(input.value, out.actions)
                 /\ out.dataset # None =>
                      /\ Cardinality(out.dataset.examples) + out.dataset.duplicates
                           + out.dataset.leaks = 2 * Len(out.actions)
                      /\ \A x \in out.dataset.examples :
                           IF x.expected.arg.key = "command" THEN CommandNeutral(x)
                           ELSE ArgumentMarkers(x.expected.arg) = {}
            [] input.what = "chat" ->
                 out = EachCallAnswered(input.value, input.steps)
            [] OTHER ->
                 \A i \in DOMAIN out : out[i] \in Range(input.value)

StreamFaithful(response, frames) ==
    LET said == SelectSeq(response.calls, LAMBDA c : c # "scalar")
    IN  IF response.calls = None THEN frames = <<[what |-> "text"]>>
        ELSE /\ Len(frames) = 2 * Len(said)
             /\ \A n \in DOMAIN said :
                  /\ frames[2 * n - 1].what = "declare" /\ frames[2 * n].what = "arguments"
                  /\ frames[2 * n - 1].call = said[n] /\ frames[2 * n].call = said[n]
                  /\ frames[2 * n - 1].index = frames[2 * n].index
             /\ \A m, n \in DOMAIN said : m < n => frames[2 * m].index < frames[2 * n].index

(* The calls the proxy replays are those the engine made:                  *)
(* log-probabilities are recorded only beside as many token ids, a parse   *)
(* of the engine that holds a call is never replaced, and the stream       *)
(* carries each call once, in order, declared before its arguments under   *)
(* an index of its own.  Text is replayed only for an answer without a     *)
(* list of calls: beside one, the empty list too, it is not in the stream. *)
ReplayFaithful ==
    Done("replay") =>
      /\ job.out.native.response = job.input
      /\ job.input.calls \notin {None, <<>>} => job.out.http.response = job.input
      /\ \A way \in {"native", "http"} :
           LET served == job.out[way]
           IN  /\ served.evidence.probs # None => served.evidence.ids = served.evidence.probs
               /\ served.evidence.ids # None => served.evidence.ids > 0
               /\ served.stream # None => StreamFaithful(served.response, served.stream)

RecoveryBounded(input, decision) ==
    /\ decision.action = "DISCOVER" =>
         /\ input.cache = None
         /\ decision.before = input.budget /\ decision.after = input.budget - 1
    /\ decision.after # None => decision.after \in 0..input.budget
    /\ decision.action = "READ" =>
         /\ Cardinality(decision.selected) = 1
         /\ \A p \in decision.selected : IsPrefix(FileNamed(input.scope), FileNamed(p))

CleanupAccounted(processes, out) ==
    LET distinct == \A i, j \in DOMAIN processes :
                       i # j => processes[i].label # processes[j].label
    IN  distinct =>
          \A i \in DOMAIN processes :
            i \in out.survivors =>
              out.outcomes[processes[i].label] \in {"terminate-failed", "kill-failed"}

(* What answers a failure is bounded and accounted for.  Whatever a        *)
(* discovery returned, a file is read only when it is the one candidate    *)
(* under the scope; a scope with a cached discovery is not searched again, *)
(* a search costs one unit of a budget that is never overdrawn, and no     *)
(* decision gives budget back.  Of processes registered under labels of    *)
(* their own, one that outlives the clean-up is reported as a failure.     *)
FailuresContained ==
    /\ Done("recovery") => RecoveryBounded(job.input, job.out)
    /\ Done("cleanup") => CleanupAccounted(job.input, job.out)

VerifiedRight(input, out) ==
    \A i \in DOMAIN out.attempts :
      LET a == input.attempts[i]
          all == DOMAIN a.program
      IN  ~a.crashed =>
            /\ out.attempts[i].passed <=> /\ input.task.shape = "stdin"
                                          /\ \A c \in all : a.program[c]
            /\ \A j \in DOMAIN out.attempts :
                 /\ ~input.attempts[j].crashed
                 /\ {c \in all : a.program[c]} \subseteq
                      {c \in DOMAIN input.attempts[j].program : input.attempts[j].program[c]}
                 => out.attempts[i].reward <= out.attempts[j].reward

StageTrained(input, out) ==
    LET returns == out.update.returns
        usable == {e \in DOMAIN input.episodes :
                     /\ input.episodes[e].contiguous
                     /\ input.episodes[e].verdict \in {"PASSED", "FAILED"}}
    IN  /\ out.update.saved => \A r \in DOMAIN returns : returns[r] \in {0, None, Killed}
        /\ returns[1] = 0 => out.update.saved /\ \A r \in DOMAIN returns : returns[r] = 0
        /\ (\E r \in DOMAIN returns : returns[r] = None) =>
             \E r \in DOMAIN returns : returns[r] \in {12, Killed}
        /\ out.update.trained # {} =>
             /\ {x.episode : x \in out.update.trained} = usable
             /\ {input.episodes[e].verdict : e \in usable} = {"PASSED", "FAILED"}

HeldOut(input, out) ==
    LET all == out.train \o out.eval
    IN  /\ \A i, j \in DOMAIN all : i # j => all[i] # all[j]
        /\ Len(out.train) <= input.train /\ Len(out.eval) <= input.eval

(* In a workspace of its own, a task counts as passed only if the policy   *)
(* that is named got every case right, and the verifier ran on it.         *)
EvaluatedRight(input, out) ==
    LET known == SelectSeq(input.tasks, LAMBDA t : t \in HoldoutTasks)
        policy == IF input.adapter = None THEN "base" ELSE input.adapter
        right(t) == \A c \in DOMAIN input.programs[policy][t] : input.programs[policy][t][c]
        ran(t) == \E i \in DOMAIN input.tasks : input.tasks[i] = t /\ ~input.crashed[i]
    IN  /\ [i \in DOMAIN out.results |-> out.results[i].task] = known
        /\ out.passed <= Len(known)
        /\ input.present /\ input.stale = None =>
             \A i \in DOMAIN out.results :
               out.results[i].passed => right(out.results[i].task) /\ ran(out.results[i].task)

(* A round whose verifiers ran trains on what they measured.  Of programs  *)
(* whose verifier ran to its end, one passes exactly when it is right on   *)
(* every case, and one that passes more of them is never rewarded less     *)
(* (what a verifier that died leaves to be read is not judged here); the   *)
(* trainer takes a step exactly when the admitted rewards differ.  A       *)
(* checkpoint of stage E is saved only where no rank refused the update,   *)
(* rank 0 passes only with every other rank, a rank waits for ever only    *)
(* for one that returned early or died, and an update was trained on both  *)
(* verdicts.  Tasks of the curriculum are trained on or held out, never    *)
(* both.  A policy is promoted only over a comparable run it improves on.  *)
(* An evaluation in a fresh workspace, with the adapter it names present,  *)
(* counts only what that policy got right.                                 *)
RoundsSound ==
    Done("round") =>
      LET input == job.input
          out == job.out
      IN  CASE input.what = "apps" ->
                 /\ VerifiedRight(input, out)
                 /\ out.steps # {} <=> /\ out.admitted \notin {None, {}}
                                       /\ Cardinality({t.reward : t \in out.admitted}) > 1
                 /\ out.learnable = {t.group : t \in out.steps}
            [] input.what = "stage" -> StageTrained(input, out)
            [] input.what = "curriculum" -> HeldOut(input, out)
            [] input.what = "evaluation" -> EvaluatedRight(input, out)
            [] input.what = "holdout" ->
                 out = "ACCEPT" => /\ input.fault = "none"
                                   /\ input.candidate = "PASSED" /\ input.baseline # "PASSED"

(* Documents bind what their checks cover.  One that is accepted reads     *)
(* back as it is written and shares its checksum only with documents that  *)
(* say the same (Alike: numbers as floats, sets, defaults, what is         *)
(* redacted, and a text taken for the array of its characters), and has a  *)
(* checksum unless its contract is one of Unguarded.  The plan and         *)
(* manifest of a run hold no secret and differ when the specification does *)
(* outside the fields of Unbound; what a run wrote is finalized with the   *)
(* verifier's verdict, and one whose files were altered is refused or gets *)
(* another record; an evidence log that took a row opens again with it.  A *)
(* golden fixture is what was staged; one that is altered verifies only    *)
(* with its readme or its source's description changed, or relabelled from *)
(* a coding type to calculator_success; half written it does not verify.   *)
(* Evidence of a workspace that calls itself complete is exact.            *)
DocumentsBind ==
    /\ Done("documents") => JobBinds(job.input, job.out)
    /\ Done("fixture") => FixtureBinds(job.input, job.out)
    /\ Done("workspace") => ChangesReported(job.input, job.out)
=============================================================================
