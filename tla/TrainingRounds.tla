--------------------------- MODULE TrainingRounds ---------------------------
(***************************************************************************)
(* The training rounds the scripts run: APPS rollouts with their verifier  *)
(* (scripts/run_apps_rl_rollout.py, verify_apps.py), the trainer's         *)
(* advantages (train_grpo_lora.py), the multi-GPU update of stage E        *)
(* (stage_e_assemble.py, stage_e_grpo_update.py), the choice of tasks      *)
(* (select_curriculum_rl_tasks.py) and the comparison of two policies      *)
(* (evaluate_apps_holdout.py, build_policy_holdout_report.py).             *)
(*                                                                         *)
(* A program is what it does with each test case of its task.  Rewards     *)
(* count in sixtieths, so that partial rewards of up to three tested cases *)
(* are whole numbers.  Generated text and token values are left out.       *)
(***************************************************************************)
EXTENDS TrainingAdmission, RlCertification, SequencesExt

CONSTANTS EvalCap,   \* cases run although one failed (10 in the code)
          MaxCases   \* bound: test cases of a task

ASSUME EvalCapAssumption == EvalCap \in Nat \ {0} /\ MaxCases \in Nat

-----------------------------------------------------------------------------
(* verify_apps.py.                                                         *)

Passing(program, n) == {i \in 1..n : program[i]}

(* The case after which the loop stops: the last one, or the first at or   *)
(* past the cap with a failure behind it.                                  *)
TestedCases(program) ==
    LET n == Len(program)
    IN  Min({n} \cup {i \in 1..n : /\ i >= Min({n, EvalCap})
                                   /\ \E j \in 1..i : ~program[j]})

UnreadableTask == [resolved |-> FALSE, passed |-> 0, tested |-> None]

(* A verifier that is content with the cases up to its cap.                *)
VerifyAppsCapped(task, program) ==
    LET tested == Min({Len(program), EvalCap})
    IN  IF task.shape # "stdin" THEN UnreadableTask
        ELSE [resolved |-> Cardinality(Passing(program, tested)) = tested,
              passed |-> Cardinality(Passing(program, tested)), tested |-> tested]

(* A task that is call-based or whose cases do not pair up is not run.  A  *)
(* task without cases is resolved by any program.                          *)
VerifyApps(task, program) ==
    LET tested == TestedCases(program)
    IN  IF task.shape # "stdin" THEN UnreadableTask
        ELSE [resolved |-> /\ tested = Len(program)
                           /\ Cardinality(Passing(program, tested)) = tested,
              passed |-> Cardinality(Passing(program, tested)), tested |-> tested]

-----------------------------------------------------------------------------
(* One attempt of run_apps_rollouts.  The workspace may be that of an      *)
(* earlier run; the verifier's exit code is not looked at, so when it died *)
(* the report it should have replaced is read.                             *)

ReportRead(task, attempt) ==
    IF attempt.crashed THEN attempt.stale ELSE VerifyApps(task, attempt.program)

FullReward == 60

RewardOf(report) ==
    CASE report = None -> 0
      [] report.resolved -> FullReward
      [] report.passed > 0 -> 12 + (36 * report.passed) \div report.tested
      [] OTHER -> 0

RolloutEvent(id, type, span, status, passed, terminal) ==
    [id |-> id, seq |-> id - 1, type |-> type, span |-> span, parent |-> None,
     status |-> status, passed |-> passed, refs |-> {}, terminal |-> terminal]

(* make_events_for_rollout: a verdict is stated whether or not the         *)
(* verifier ran.                                                           *)
RolloutEvents(passed, reward) ==
    <<RolloutEvent(1, "MODEL_REQUEST", "model", "STARTED", None, None),
      RolloutEvent(2, "MODEL_RESPONSE", "model", "SUCCEEDED", None, None),
      RolloutEvent(3, "VERIFICATION_STARTED", "eval", "STARTED", None, None),
      RolloutEvent(4, "VERIFICATION_FINISHED", "eval",
                   IF passed THEN "SUCCEEDED" ELSE "FAILED", passed, None),
      RolloutEvent(5, "EPISODE_FINISHED", "episode", "SUCCEEDED", None,
                   [task |-> IF passed THEN "SUCCESS" ELSE "FAILURE", validity |-> "VALID",
                    verifier |-> IF passed THEN "PASSED" ELSE "FAILED", score |-> reward,
                    evidence |-> {4}])>>

RolloutIdentity(task, n) ==
    [run |-> "run", task |-> task.name, episode |-> <<task.name, n>>, attempt |-> n,
     group |-> task.name, policy |-> "p"]

(* The producer artifact, with one trace.                                  *)
RolloutArtifact(id, reward) ==
    [identity |-> id, status |-> "COMPLETED", caps |-> RequiredForTraining,
     reward |-> reward, sequence |-> None,
     traces |-> <<[ids |-> 1, mask |-> 1, probs |-> 1, trainable |-> TRUE, finite |-> TRUE,
                   reward |-> reward]>>]

RolloutBundle(id, episode, artifact, report) ==
    LET bundle == ExecutionBundle(id, episode, <<artifact>>, {}, report)
    IN  [x \in DOMAIN bundle \cup {"content"} |->
           IF x = "content" THEN episode ELSE bundle[x]]

(* The attempt as certify_for leaves it.  The report's checksum is bound   *)
(* even when there is no report: it is that of an empty object.            *)
CertifiedAttempt(id, report, episode, artifact, bundle) ==
    [identity |-> id, split |-> "TRAIN", role |-> "TRAJECTORY", artifact |-> artifact,
     passed |-> report # None /\ report.resolved, reward |-> RewardOf(report),
     decision |-> [profile |-> "ON_POLICY_RL", episode |-> id.episode, content |-> episode,
                   bundle |-> bundle, artifact |-> artifact,
                   verdict |-> CertifyFor("ON_POLICY_RL", episode, id, bundle, artifact, "p")]]

AttemptBundled(id, report, episode, artifact) ==
    CertifiedAttempt(id, report, episode, artifact,
                     RolloutBundle(id, episode, artifact, <<report>>))

AttemptReported(id, report) ==
    AttemptBundled(id, report,
                   Assemble(RolloutEvents(report # None /\ report.resolved, RewardOf(report)), {}),
                   RolloutArtifact(id, RewardOf(report)))

AppsAttempt(task, n, attempt) ==
    AttemptReported(RolloutIdentity(task, n), ReportRead(task, attempt))

(* The eligible attempts as a manifest, admitted for Slime.                *)
AppsBatch(attempts) ==
    LET eligible == SelectSeq(attempts, LAMBDA c : c.decision.verdict = "ELIGIBLE")
        members == [i \in DOMAIN eligible |-> CompiledMember(eligible[i])]
        manifest == [purpose |-> "ON_POLICY_RL", members |-> members]
        stores == [decisions |-> {attempts[i].decision : i \in DOMAIN attempts},
                   bundles |-> {attempts[i].decision.bundle : i \in DOMAIN attempts},
                   artifacts |-> {attempts[i].artifact : i \in DOMAIN attempts}]
    IN  IF \/ \E i \in DOMAIN eligible : CompileRefused("ON_POLICY_RL", eligible[i])
           \/ ManifestRefused("ON_POLICY_RL", members)
        THEN None
        ELSE AdmitForSlime(manifest, stores, Min({2, Len(attempts)}))

-----------------------------------------------------------------------------
(* compute_group_advantages of train_grpo_lora.py: the advantage of a      *)
(* trace has the sign of n * reward - sum, n the traces of its group.      *)
Advantage(traces, t) ==
    LET group == {u \in traces : u.group = t.group}
        total == MapThenSumSet(LAMBDA u : u.reward, group)
    IN  CASE Cardinality(group) * t.reward > total -> 1
          [] Cardinality(group) * t.reward < total -> -1
          [] OTHER -> 0

(* _verify_admission: an empty batch ends the trainer, and so does none.   *)
AdmissionUnusable(traces) == traces \in {None, {}}

(* run_grpo_preflight: the groups with something to learn from.            *)
Preflight(traces) ==
    {g \in {t.group : t \in traces} : \E t \in traces : t.group = g /\ Advantage(traces, t) # 0}

(* The trainer's steps: a trace without advantage is passed over.          *)
TrainGrpo(traces) == {t \in traces : Advantage(traces, t) # 0}

AppsTrained(attempts, admitted) ==
    [attempts |-> attempts, admitted |-> admitted,
     learnable |-> IF AdmissionUnusable(admitted) THEN {} ELSE Preflight(admitted),
     steps |-> IF AdmissionUnusable(admitted) THEN {} ELSE TrainGrpo(admitted)]

AppsAdmitted(attempts) == AppsTrained(attempts, AppsBatch(attempts))

AppsRound(input) ==
    AppsAdmitted([n \in DOMAIN input.attempts |->
                    AppsAttempt(input.task, n, input.attempts[n])])

-----------------------------------------------------------------------------
(* Stage E.  An episode that cannot be assembled, or whose verifier did    *)
(* not come to a verdict, is an entry with an error.                       *)

AssembledEntry(e, x) ==
    [episode |-> e, error |-> ~x.contiguous \/ x.verdict \notin {"PASSED", "FAILED"},
     reward |-> IF x.verdict = "PASSED" THEN 1 ELSE 0]

AssembleRound(episodes, minimum) ==
    LET entries == {AssembledEntry(e, episodes[e]) : e \in DOMAIN episodes}
        usable == {x \in entries : ~x.error}
        batch == {[episode |-> x.episode, group |-> "g", policy |-> "p", reward |-> x.reward] :
                    x \in usable}
    IN  [usable |-> usable,
         certified |-> ~CertifyBatchRefused(batch, "p", minimum,
                                            [e \in DOMAIN episodes |-> "task"])]

UpdateRefused(usable) ==
    CASE Cardinality(usable) < 2 -> 10
      [] NoRewardVariance(usable) -> 11
      [] OTHER -> None

(* stage_e_grpo_update on every rank.  The certificate is not read.  A     *)
(* rank whose own shard did not change returns before the collectives of   *)
(* the checkpoint, where the others wait for it and do not return (None).  *)
(* Rank 0, the first here, saves before the last barrier: a rank that dies *)
(* in between leaves the checkpoint, and the others at the barrier.        *)
Killed == -9

GrpoUpdate(round, changed, dying) ==
    LET refused == UpdateRefused(round.usable)
        idle == {r \in DOMAIN changed : ~changed[r]}
    IN  [returns |-> [r \in DOMAIN changed |->
                        CASE refused # None -> refused
                          [] r \in idle -> 12
                          [] idle # {} -> None
                          [] r \in dying -> Killed
                          [] dying # {} -> None
                          [] OTHER -> 0],
         saved |-> refused = None /\ idle = {},
         trained |-> IF refused = None THEN round.usable ELSE {}]

StageRound(input) ==
    LET round == AssembleRound(input.episodes, input.minimum)
    IN  [round |-> round, update |-> GrpoUpdate(round, input.changed, input.dying)]

-----------------------------------------------------------------------------
(* select_curriculum_tasks, of shuffled pools of tasks <<difficulty, n>>.  *)

Taken(seq, n) == SubSeq(seq, 1, Min({n, Len(seq)}))
Dropped(seq, n) == SubSeq(seq, n + 1, Len(seq))
Without(seq, S) == SelectSeq(seq, LAMBDA t : t \notin S)
Tasks(seq) == {seq[i] : i \in DOMAIN seq}

Available(pool, train) == Without(pool, Tasks(train))

SelectCurriculum(pools, train, eval) ==
    LET intro == (train * 35) \div 100
        hard == (train * 10) \div 100
        middle == train - intro - hard
        first == Taken(pools.intro, intro) \o Taken(pools.middle, middle)
                 \o Taken(pools.hard, hard)
        filled == first \o Taken(Without(Dropped(pools.middle, middle), Tasks(first)),
                                 train - Len(first))
        easy == (eval * 40) \div 100
        free(d) == Available(pools[d], filled)
        held == Taken(free("intro"), easy) \o Taken(free("middle"), eval - easy)
    IN  [train |-> filled,
         eval |-> held \o Taken(Without(Dropped(free("middle"), eval - easy), Tasks(held)),
                                eval - Len(held))]

-----------------------------------------------------------------------------
HoldoutTasks == {"t", "u"}   \* the tasks of the manifest

(* evaluate_apps: one greedy program per task, in a workspace that the tag *)
(* of the evaluation names and that may have been used before.  A task the *)
(* manifest lacks is passed over; an adapter that is not there leaves the  *)
(* base model, under the adapter's name; the verifier's exit code is not   *)
(* looked at.                                                              *)

EvaluatedPolicy(adapter, present) ==
    IF adapter # None /\ present THEN adapter ELSE "base"

EvaluateTask(s, i, input) ==
    LET name == input.tasks[i]
        program == input.programs[EvaluatedPolicy(input.adapter, input.present)][name]
        read == ReportRead([name |-> name, shape |-> "stdin"],
                           [program |-> program, crashed |-> input.crashed[i],
                            stale |-> s.left[name]])
    IN  IF name \notin DOMAIN s.left THEN s
        ELSE [left |-> [s.left EXCEPT ![name] = read],
              results |-> Append(s.results, [task |-> name,
                                             passed |-> read # None /\ read.resolved])]

EvaluateApps(input) ==
    LET start == [left |-> [t \in HoldoutTasks |-> input.stale], results |-> <<>>]
        end == FoldLeft(LAMBDA s, i : EvaluateTask(s, i, input), start,
                        [i \in DOMAIN input.tasks |-> i])
    IN  [adapter |-> input.adapter, results |-> end.results,
         passed |-> Len(SelectSeq(end.results, LAMBDA r : r.passed))]

-----------------------------------------------------------------------------
(* Comparing two policies: finalized runs that may be compared, and the    *)
(* decision of build_policy_holdout_report.                                *)

RunRefused(r) ==
    \/ r.identity # r.bundle.identity \/ r.episode.id # r.identity.episode
    \/ r.bundle.episode # r.episode \/ r.summary # r.bundle
    \/ r.episode.integrity # "COMPLETE" \/ r.episode.validity # "VALID"
    \/ r.calls = <<>>
    \/ \E i \in DOMAIN r.calls : ~r.calls[i].usable \/ r.calls[i].revision # r.revision

Incomparable(a, b) ==
    \/ a.identity.task # b.identity.task
    \/ a.settings # b.settings

HoldoutDecision(baseline, candidate) ==
    IF candidate /\ ~baseline THEN "ACCEPT" ELSE "REJECT"

CompareRuns(baseline, candidate) ==
    IF RunRefused(baseline) \/ RunRefused(candidate) \/ Incomparable(baseline, candidate)
    THEN None
    ELSE HoldoutDecision(baseline.episode.verifier = "PASSED",
                         candidate.episode.verifier = "PASSED")

-----------------------------------------------------------------------------
(* Inputs.                                                                 *)

AppsInputs ==
    UNION {
      LET task(shape) == [name |-> "t", shape |-> shape]
          all == [i \in 1..n |-> TRUE]
          attempts == [program : [1..n -> BOOLEAN], crashed : BOOLEAN,
                       stale : {None, VerifyApps(task("stdin"), all)}]
      IN  [what : {"apps"}, task : {task("stdin")},
           attempts : [1..2 -> {a \in attempts : a.stale = None \/ a.crashed}]]
          \cup [what : {"apps"}, task : {task("call"), task("malformed")},
                attempts : [1..1 -> {a \in attempts : ~a.crashed}]] : n \in 0..MaxCases}

StageInputs ==
    [what : {"stage"}, minimum : {2, 3}, changed : [1..2 -> BOOLEAN], dying : SUBSET {1, 2},
     episodes : [1..3 -> [contiguous : BOOLEAN, verdict : {"PASSED", "FAILED", "ERROR"}]]]

CurriculumInputs ==
    [what : {"curriculum"}, train : {0, 1, 3, 10}, eval : {0, 2, 5},
     sizes : [intro : {0, 2, 5}, middle : {0, 3, 9}, hard : {0, 2}]]

PoolsOf(sizes) == [d \in {"intro", "middle", "hard"} |-> [i \in 1..sizes[d] |-> <<d, i>>]]

HoldoutFaults == {"none", "task", "settings", "revision", "bundle", "invalid", "no calls"}

(* A finalized run of the holdout task, with at most one thing wrong.      *)
HoldoutRun(verifier, fault) ==
    LET id == [episode |-> "e", task |-> IF fault = "task" THEN "other" ELSE "t"]
        episode == [id |-> "e", integrity |-> "COMPLETE", verifier |-> verifier,
                    validity |-> IF fault = "invalid" THEN "INFRA_INVALID" ELSE "VALID"]
        bundle == [identity |-> id, episode |-> episode]
    IN  [identity |-> id, episode |-> episode, revision |-> "r",
         settings |-> IF fault = "settings" THEN "other" ELSE "s",
         bundle |-> bundle, summary |-> IF fault = "bundle" THEN None ELSE bundle,
         calls |-> IF fault = "no calls" THEN <<>>
                   ELSE <<[usable |-> TRUE, revision |-> IF fault = "revision" THEN "q" ELSE "r"]>>]

HoldoutInputs ==
    [what : {"holdout"}, fault : HoldoutFaults, baseline : {"PASSED", "FAILED", "ERROR"},
     candidate : {"PASSED", "FAILED", "ERROR"}]

EvaluationInputs ==
    LET one == [i \in 1..1 |-> TRUE]
    IN  {x \in [what : {"evaluation"}, adapter : {None, "a"}, present : BOOLEAN,
                tasks : UNION {[1..n -> HoldoutTasks \cup {"missing"}] : n \in 0..2},
                programs : [{"a", "base"} -> [HoldoutTasks -> [1..1 -> BOOLEAN]]],
                crashed : [1..2 -> BOOLEAN],
                stale : {None, VerifyApps([name |-> "t", shape |-> "stdin"], one)}] :
           x.adapter = None => x.present}

RoundInputs == EvaluationInputs \cup AppsInputs \cup StageInputs \cup CurriculumInputs \cup HoldoutInputs

RoundJob(input) ==
    CASE input.what = "apps" -> AppsRound(input)
      [] input.what = "stage" -> StageRound(input)
      [] input.what = "curriculum" ->
           SelectCurriculum(PoolsOf(input.sizes), input.train, input.eval)
      [] input.what = "holdout" ->
           CompareRuns(HoldoutRun(input.baseline, "none"),
                       HoldoutRun(input.candidate, input.fault))
      [] input.what = "evaluation" -> EvaluateApps(input)
=============================================================================
