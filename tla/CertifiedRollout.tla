-------------------------- MODULE CertifiedRollout --------------------------
(***************************************************************************)
(* The gate between rollout and optimizer: CertifiedVerlAgentLoopManager   *)
(* (src/integrations/verl/verl_manager.py) with its redraw loop            *)
(* (resampling.py) and its batch gate (manager.py), the episodes it fans   *)
(* out to (PiAgentLoop.run in pi_loop.py, each a task of another process)  *)
(* and the engine-step check every model call passes (NativeTokenTransport *)
(* in native_transport.py).  The trainer, the serving engine and the       *)
(* fan-out itself belong to verl and are modelled from how this code uses  *)
(* them.                                                                   *)
(*                                                                         *)
(* An episode directory is named by its path <<session, generation,        *)
(* attempt, batch position>>.  ep[path] is both the task that writes the   *)
(* directory and the evidence in it; a task of an abandoned attempt keeps  *)
(* running and writing.  Weights and policies are named by the training    *)
(* step that produced them (policy_generation "P<step>" and the digest of  *)
(* that step's checkpoint).  Tokens, masks and log-probabilities are the   *)
(* flag "intact": does a returned row still equal the sequence on disk?    *)
(***************************************************************************)
EXTENDS Integers, FiniteSets

CONSTANTS
    BatchSize,        \* rows of a prompt batch
    GroupOf,          \* row -> uid of the dataset row it was expanded from
    MinimumGroupSize,
    MaxAttempts,      \* max_attempts
    MaxRequests,      \* max_model_requests_per_episode
    MaxStep,          \* bound on training steps
    MaxSessions,      \* bound on starts of the training process
    MaxDuplicates,    \* bound on repeated dispatches
    MaxStragglers,    \* bound on live episodes of abandoned attempts
    MaxLate,          \* bound on directories a serving thread writes late
    EngineReports,    \* does the engine state the step whose weights it serves?
    SyncMayLag,       \* may a weight sync leave the engine at the old step?
    FrameworkFaults,  \* may the framework change the rows it returns?
    None

Positions == 1..BatchSize

ASSUME RolloutAssumption ==
    /\ BatchSize \in Nat \ {0}
    /\ MinimumGroupSize \in Nat /\ MinimumGroupSize >= 2
    /\ MaxAttempts \in Nat \ {0}
    /\ MaxRequests \in Nat \ {0}
    /\ MaxSessions \in Nat \ {0}
    /\ {MaxStep, MaxDuplicates, MaxStragglers, MaxLate} \subseteq Nat
    /\ {EngineReports, SyncMayLag, FrameworkFaults} \subseteq BOOLEAN
    /\ None \notin Nat

VARIABLES
    trainer,    \* [pc, step]: the fit loop and global_steps
    engine,     \* the step whose weights the engine serves
    checkpoints,\* steps with a checkpoint on disk
    mgr,        \* [pc, session, gen, attempt, policy, step]: the manager
    ep,         \* path -> episode, for every dispatched episode
    duplicates, \* paths dispatched a second time, second dispatch not yet run
    dups,       \* repeated dispatches so far
    rejected,   \* rejected-attempt<n>.json: <<session, gen, attempt>>
    certified,  \* certified-batch-attempt<n>.json
    batch,      \* the rows generate_sequences returned
    consumed,   \* history: what each optimizer step was computed from
    late        \* directories whose model-evidence.jsonl grew after run() returned

vars == <<trainer, engine, checkpoints, mgr, ep, duplicates, dups, rejected,
          certified, batch, consumed, late>>

Path(s, g, a, p) == <<s, g, a, p>>

Paths == (1..MaxSessions) \X (0..MaxStep) \X (0..(MaxAttempts - 1)) \X Positions

(* generation_root and the attempt directory of the manager's current call *)
EpisodeDir(a, p) == Path(mgr.session, mgr.gen, a, p)

CurrentDirs == {EpisodeDir(mgr.attempt, p) : p \in Positions}

Steps == 0..MaxStep

Rows == [ep : Positions, intact : BOOLEAN]

Episodes ==
    [pc : {"dispatched", "running", "admitted", "raised"},
     policy : Steps, expected : Steps,        \* the manager's stamps
     calls : 0..MaxRequests,
     steps : SUBSET Steps,                    \* history: weights that served the calls
     confirmed : Steps \cup {None},           \* transport.global_steps
     verifier : {None, "PASSED", "FAILED"}]

TypeOK ==
    /\ trainer \in [pc : {"ready", "waiting", "update", "sync", "stopped"},
                    step : 1..(MaxStep + 1)]
    /\ engine \in Steps
    /\ checkpoints \subseteq Steps
    /\ mgr \in [pc : {"idle", "rollout"}, session : 1..MaxSessions, gen : -1..MaxStep,
                attempt : 0..(MaxAttempts - 1), policy : Steps, step : Steps]
    /\ DOMAIN ep \subseteq Paths
    /\ \A k \in DOMAIN ep : ep[k] \in Episodes
    /\ duplicates \subseteq DOMAIN ep
    /\ dups \in 0..MaxDuplicates
    /\ \A r \in rejected : \E k \in Paths : r = <<k[1], k[2], k[3]>>
    /\ \A c \in certified : c.dirs \subseteq DOMAIN ep
    /\ \A i \in DOMAIN batch : batch[i] \in Rows
    /\ \A c \in consumed : \A i \in DOMAIN c.rows : c.rows[i] \in Rows
    /\ late \subseteq Paths

Init ==
    /\ trainer = [pc |-> "ready", step |-> 1]
    /\ engine = 0
    /\ checkpoints = {}
    /\ mgr = [pc |-> "idle", session |-> 1, gen |-> -1, attempt |-> 0, policy |-> 0,
              step |-> 0]
    /\ ep = [k \in {} |-> None]
    /\ duplicates = {}
    /\ dups = 0
    /\ rejected = {}
    /\ certified = {}
    /\ batch = [i \in {} |-> None]
    /\ consumed = {}
    /\ late = {}

-----------------------------------------------------------------------------
(* The manager: generate_sequences and the redraw loop.                    *)

(* generate_sequences raises: the fit loop dies with it.                   *)
Abort ==
    /\ mgr' = [mgr EXCEPT !.pc = "idle"]
    /\ trainer' = [trainer EXCEPT !.pc = "stopped"]

(* _stamp_attempt, then the framework sends every row to a worker.         *)
Dispatched(m) ==
    LET dirs == {Path(m.session, m.gen, m.attempt, p) : p \in Positions}
    IN  [k \in DOMAIN ep \cup dirs |->
            IF k \in dirs
            THEN [pc |-> "dispatched", policy |-> m.policy, expected |-> m.step,
                  calls |-> 0, steps |-> {}, confirmed |-> None, verifier |-> None]
            ELSE ep[k]]

(* The policy of the call: the initial one before the first update, then   *)
(* the one whose checkpoint the preceding step wrote.                      *)
PolicyFor(s) == IF s = 0 THEN mgr.policy ELSE s

CheckpointPresent(s) == s = 0 \/ s \in checkpoints

(* The head of generate_sequences: a generation directory of its own, the  *)
(* policy that the trainer's step implies, and the first attempt.  A       *)
(* missing checkpoint or an existing directory raises.                     *)
GenerateSequences ==
    LET s == trainer.step - 1
        m == [mgr EXCEPT !.pc = "rollout", !.gen = @ + 1, !.attempt = 0,
                         !.policy = PolicyFor(s), !.step = s]
        exists == \E k \in DOMAIN ep : k[1] = m.session /\ k[2] = m.gen
    IN  /\ trainer.pc = "ready"
        /\ trainer.step <= MaxStep
        /\ IF CheckpointPresent(s) /\ ~exists
           THEN /\ mgr' = m
                /\ ep' = Dispatched(m)
                /\ trainer' = [trainer EXCEPT !.pc = "waiting"]
           ELSE /\ mgr' = [mgr EXCEPT !.gen = m.gen]
                /\ trainer' = [trainer EXCEPT !.pc = "stopped"]
                /\ UNCHANGED ep
        /\ UNCHANGED <<engine, checkpoints, duplicates, dups, rejected, certified, batch,
                       consumed, late>>

(* A redraw loop without its on_retry callback.                            *)
RecordNothing == UNCHANGED rejected

(* _record_rejection                                                       *)
RecordRejection ==
    rejected' = rejected \cup {<<mgr.session, mgr.gen, mgr.attempt>>}

(* A loop that never counts.                                               *)
RedrawForever == RecordRejection /\ ep' = Dispatched(mgr) /\ UNCHANGED <<mgr, trainer>>

(* One more turn of the loop of certify_with_resampling, or its end: the   *)
(* attempt is recorded as refused and the next one is stamped and sent.    *)
Redraw ==
    LET m == [mgr EXCEPT !.attempt = @ + 1]
    IN  /\ RecordRejection
        /\ IF mgr.attempt + 1 < MaxAttempts
           THEN mgr' = m /\ ep' = Dispatched(m) /\ UNCHANGED trainer
           ELSE Abort /\ UNCHANGED ep

Live == {k \in DOMAIN ep : ep[k].pc \in {"dispatched", "running"}}

(* _generate_attempt: the first exception of any episode, or of the        *)
(* framework itself, ends the attempt; its other episodes keep running.    *)
AttemptRaises ==
    /\ mgr.pc = "rollout"
    /\ Cardinality(Live) <= MaxStragglers
    /\ Redraw
    /\ UNCHANGED <<engine, checkpoints, duplicates, dups, certified, batch, consumed, late>>

(* super().generate_sequences returned: every episode of the attempt did.  *)
AttemptReturned ==
    /\ mgr.pc = "rollout"
    /\ \A k \in CurrentDirs : ep[k].pc = "admitted"

(* _certify_from_evidence on one directory: both files are there, the      *)
(* verifier gave a verdict, certification against the round policy, done   *)
(* afresh, admits it, and the sequence assembled anew from                 *)
(* model-evidence.jsonl is the admitted one: any row written since breaks  *)
(* it, a failed call's as well.                                            *)
EvidenceHolds(k) ==
    /\ ep[k].pc = "admitted"
    /\ ep[k].verifier \in {"PASSED", "FAILED"}
    /\ ep[k].policy = mgr.policy
    /\ k \notin late

Group(g) == {k \in CurrentDirs : GroupOf[k[4]] = g}

Groups == {GroupOf[p] : p \in Positions}

GroupsLargeEnough == \A g \in Groups : Cardinality(Group(g)) >= MinimumGroupSize

(* The variance test over the whole batch, as in admission.py.             *)
FlatBatch == Cardinality({ep[k].verifier : k \in CurrentDirs}) < 2

(* certify_batch: a group whose rewards are all equal has no signal.       *)
Degenerate == \E g \in Groups : Cardinality({ep[k].verifier : k \in Group(g)}) < 2

Certifiable == (\A k \in CurrentDirs : EvidenceHolds(k)) /\ GroupsLargeEnough

(* A check that stops at the number of rows.                               *)
CardinalityOnly(rows) == Cardinality(DOMAIN rows) = BatchSize

(* _verify_returned_batch: as many rows as prompts, no episode twice, each *)
(* in the group of its prompt and equal to its sequence on disk, and no    *)
(* directory of the attempt left over.                                     *)
BatchVerified(rows) ==
    /\ Cardinality(DOMAIN rows) = BatchSize
    /\ \A i, j \in DOMAIN rows : rows[i].ep = rows[j].ep => i = j
    /\ \A i \in DOMAIN rows : GroupOf[rows[i].ep] = GroupOf[i] /\ rows[i].intact
    /\ Cardinality({k \in CurrentDirs : ep[k].pc # "dispatched"}) = Cardinality(DOMAIN rows)

Faithful == [i \in Positions |-> [ep |-> i, intact |-> TRUE]]

Shortened == [i \in 1..(BatchSize - 1) |-> Faithful[i]]

Replaced(i, r) == [Faithful EXCEPT ![i] = r]

Exchanged(i, j) == [Faithful EXCEPT ![i].ep = j, ![j].ep = i]

(* What the framework hands back: the rows it was given, or, if it is not  *)
(* to be trusted, with one of them lost or replaced, or two exchanged.     *)
Returned ==
    {Faithful} \cup
    IF ~FrameworkFaults THEN {} ELSE
        {Shortened}
        \cup {Replaced(i, r) : i \in Positions, r \in Rows}
        \cup {Exchanged(i, j) : i, j \in Positions}

GateRedraws ==
    /\ AttemptReturned
    /\ Certifiable
    /\ Degenerate
    /\ Redraw
    /\ UNCHANGED <<engine, checkpoints, duplicates, dups, certified, batch, consumed, late>>

GateAborts(rows) ==
    /\ AttemptReturned
    /\ ~Certifiable \/ (~Degenerate /\ ~BatchVerified(rows))
    /\ Abort
    /\ UNCHANGED <<engine, checkpoints, ep, duplicates, dups, rejected, certified, batch,
                   consumed, late>>

(* _gate_attempt passes: _record_certificate, and the batch is returned.   *)
GateCertifies(rows) ==
    /\ AttemptReturned
    /\ Certifiable
    /\ ~Degenerate
    /\ BatchVerified(rows)
    /\ certified' = certified \cup
          {[session |-> mgr.session, gen |-> mgr.gen, attempt |-> mgr.attempt,
            policy |-> mgr.policy, dirs |-> CurrentDirs]}
    /\ batch' = rows
    /\ mgr' = [mgr EXCEPT !.pc = "idle"]
    /\ trainer' = [trainer EXCEPT !.pc = "update"]
    /\ UNCHANGED <<engine, checkpoints, ep, duplicates, dups, rejected, consumed, late>>

-----------------------------------------------------------------------------
(* One episode: PiAgentLoop.run.                                           *)

SetEpisode(k, e) == ep' = [ep EXCEPT ![k] = e]

EpisodeFrame == UNCHANGED <<trainer, engine, checkpoints, mgr, dups, rejected, certified,
                            batch, consumed, late>>

(* The workspace and the episode root are created exclusively.             *)
StartEpisode(k) ==
    /\ ep[k].pc = "dispatched"
    /\ SetEpisode(k, [ep[k] EXCEPT !.pc = "running"])
    /\ EpisodeFrame /\ UNCHANGED duplicates

(* Directories made with exist_ok=True: a second dispatch starts over in   *)
(* the first one's directory.                                              *)
StartOver(k) ==
    /\ k \in duplicates
    /\ ep[k].pc # "dispatched"
    /\ SetEpisode(k, [ep[k] EXCEPT !.pc = "running", !.verifier = None])
    /\ duplicates' = duplicates \ {k}
    /\ EpisodeFrame

(* The second dispatch of a row finds the directories and raises.          *)
RefuseDuplicate(k) ==
    /\ k \in duplicates
    /\ ep[k].pc # "dispatched"
    /\ duplicates' = duplicates \ {k}
    /\ EpisodeFrame /\ UNCHANGED ep

(* A transport that compares steps only within the episode.                *)
StepConstant(k, reported) == ep[k].confirmed \in {None, reported}

(* NativeTokenTransport.generate: a stated step must be the stamped one    *)
(* and must not change within the episode; an unstated one is let through. *)
StepAccepted(k, reported) ==
    \/ reported = None
    \/ ep[k].confirmed \in {None, reported} /\ reported = ep[k].expected

Reported == IF EngineReports THEN engine ELSE None

ModelCall(k) ==
    /\ ep[k].pc = "running"
    /\ ep[k].calls < MaxRequests
    /\ StepAccepted(k, Reported)
    /\ SetEpisode(k, [ep[k] EXCEPT !.calls = @ + 1, !.steps = @ \cup {engine},
                                   !.confirmed = IF Reported = None THEN @ ELSE Reported])
    /\ EpisodeFrame /\ UNCHANGED duplicates

(* The transport and its counters go with the task.                        *)
Ended(e, pc) == [e EXCEPT !.pc = pc, !.calls = 0, !.confirmed = None]

(* Nothing reads the directory of an episode that raised: what it holds is *)
(* dropped.                                                                *)
Raised(e) == [Ended(e, "raised") EXCEPT !.steps = {}, !.verifier = None]

(* run() raises: the transport recorded an error (a refused step, an       *)
(* abort, a timeout), the execution failed, or the verifier gave no        *)
(* verdict, for which no reward is invented.                               *)
EpisodeRaises(k) ==
    /\ ep[k].pc = "running"
    /\ SetEpisode(k, Raised(ep[k]))
    /\ EpisodeFrame /\ UNCHANGED duplicates

(* The execution leaves its summary with the verifier's verdict, which     *)
(* takes one usable model call at least; admitted-sequence.json is written *)
(* and run() returns.                                                      *)
FinishEpisode(k, verdict) ==
    /\ ep[k].pc = "running"
    /\ ep[k].calls > 0
    /\ SetEpisode(k, [Ended(ep[k], "admitted") EXCEPT !.verifier = verdict])
    /\ EpisodeFrame /\ UNCHANGED duplicates

(* The proxy's serving threads are daemons that close() does not join: one *)
(* that was waiting for the engine writes its row after run() returned, as *)
(* long as the process lives.  It writes nothing else there.               *)
LateRow(k) ==
    /\ ep[k].pc = "admitted"
    /\ k[1] = mgr.session
    /\ k \notin late
    /\ Cardinality(late) < MaxLate
    /\ late' = late \cup {k}
    /\ UNCHANGED <<trainer, engine, checkpoints, mgr, ep, duplicates, dups, rejected,
                   certified, batch, consumed>>

EpisodeStep(k) ==
    \/ StartEpisode(k)
    \/ ModelCall(k)
    \/ EpisodeRaises(k)
    \/ \E v \in {"PASSED", "FAILED"} : FinishEpisode(k, v)

(* The framework dispatches a row of the current attempt a second time.    *)
DispatchAgain(k) ==
    /\ mgr.pc = "rollout"
    /\ k \in CurrentDirs
    /\ dups < MaxDuplicates
    /\ duplicates' = duplicates \cup {k}
    /\ dups' = dups + 1
    /\ UNCHANGED <<trainer, engine, checkpoints, mgr, ep, rejected, certified, batch,
                   consumed, late>>

-----------------------------------------------------------------------------
(* The trainer (external): update, checkpoint, weight sync, restart.       *)

TrainerUpdates(saved) ==
    /\ trainer.pc = "update"
    /\ consumed' = consumed \cup
          {[step |-> trainer.step, session |-> mgr.session, gen |-> mgr.gen,
            attempt |-> mgr.attempt, rows |-> batch]}
    /\ checkpoints' = IF saved THEN checkpoints \cup {trainer.step} ELSE checkpoints
    /\ trainer' = [trainer EXCEPT !.pc = "sync"]
    /\ UNCHANGED <<engine, mgr, ep, duplicates, dups, rejected, certified, batch, late>>

TrainerSyncs(synced) ==
    /\ trainer.pc = "sync"
    /\ synced \/ SyncMayLag
    /\ engine' = IF synced THEN trainer.step ELSE engine
    /\ trainer' = [pc |-> "ready", step |-> trainer.step + 1]
    /\ UNCHANGED <<checkpoints, mgr, ep, duplicates, dups, rejected, certified, batch,
                   consumed, late>>

Latest == CHOOSE s \in checkpoints \cup {0} : \A t \in checkpoints : t <= s

(* The training process dies and is started again: its workers die with    *)
(* it, it resumes from the newest checkpoint and opens a new session.      *)
(* Nothing reads what the old session left without a certificate.          *)
Restart ==
    /\ mgr.session < MaxSessions
    /\ mgr' = [pc |-> "idle", session |-> mgr.session + 1, gen |-> -1, attempt |-> 0,
               policy |-> 0, step |-> 0]
    /\ trainer' = [pc |-> "ready", step |-> Latest + 1]
    /\ engine' = Latest
    /\ ep' = [k \in DOMAIN ep |->
                 IF \E c \in certified : k \in c.dirs THEN ep[k] ELSE Raised(ep[k])]
    /\ late' = {k \in late : \E c \in certified : k \in c.dirs}
    /\ duplicates' = {}
    /\ UNCHANGED <<checkpoints, dups, rejected, certified, batch, consumed>>

Manager ==
    \/ GenerateSequences
    \/ GateRedraws
    \/ AttemptReturned /\ \E rows \in Returned : GateAborts(rows) \/ GateCertifies(rows)

Next ==
    \/ Manager
    \/ AttemptRaises
    \/ \E k \in DOMAIN ep :
          EpisodeStep(k) \/ LateRow(k) \/ RefuseDuplicate(k) \/ DispatchAgain(k)
    \/ \E b \in BOOLEAN : TrainerUpdates(b) \/ TrainerSyncs(b)
    \/ Restart

Spec == Init /\ [][Next]_vars

(* Every episode ends: model calls and the agent have timeouts.  Nothing   *)
(* obliges the trainer to go on or the framework to fail.                  *)
FairSpec ==
    /\ Spec
    /\ WF_vars(Manager)
    /\ \A k \in Paths : WF_vars(k \in DOMAIN ep /\ EpisodeStep(k))
    /\ WF_vars(mgr.pc = "rollout" /\ (\E k \in CurrentDirs : ep[k].pc = "raised") /\ AttemptRaises)

-----------------------------------------------------------------------------
(* Properties.                                                             *)

DirOf(c, i) == Path(c.session, c.gen, c.attempt, c.rows[i].ep)

(* Every model call of every sequence the optimizer was given at step n    *)
(* was served with the weights step n - 1 produced, although episodes of   *)
(* refused attempts outlive weight syncs and a sync may be missed: the     *)
(* stamps, the check on every call and the directories keep stale tokens   *)
(* out.                                                                    *)
OnPolicy ==
    (EngineReports \/ ~SyncMayLag) =>
        \A c \in consumed : \A i \in DOMAIN c.rows :
            LET e == ep[DirOf(c, i)]
            IN  e.steps = {c.step - 1} /\ e.policy = c.step - 1

(* What the optimizer consumed is what was certified: the rows are in      *)
(* one-to-one correspondence with the certified directories of the same    *)
(* call and attempt, unchanged, each in the group of its prompt.           *)
TrainsCertified ==
    /\ TypeOK
    /\ \A c \in consumed :
        \E d \in certified :
            /\ d.session = c.session /\ d.gen = c.gen /\ d.attempt = c.attempt
            /\ d.policy = c.step - 1
            /\ {DirOf(c, i) : i \in DOMAIN c.rows} = d.dirs
            /\ Cardinality(DOMAIN c.rows) = Cardinality(d.dirs)
            /\ \A i \in DOMAIN c.rows : c.rows[i].intact /\ GroupOf[c.rows[i].ep] = GroupOf[i]

(* GRPO has a signal in every group it was given: at least the minimum     *)
(* number of episodes, and both outcomes among them.                       *)
GroupSignal ==
    \A c \in consumed : \A g \in Groups :
        LET rows == {i \in DOMAIN c.rows : GroupOf[i] = g}
        IN  /\ Cardinality(rows) >= MinimumGroupSize
            /\ {ep[DirOf(c, i)].verifier : i \in rows} = {"PASSED", "FAILED"}

(* A redraw cannot look like a first try: a call has one certificate at    *)
(* most, every attempt before it left its rejection, and no attempt is     *)
(* both rejected and certified.                                            *)
RedrawsAudited ==
    \A c \in certified :
        /\ \A d \in certified : c.session = d.session /\ c.gen = d.gen => c = d
        /\ {r[3] : r \in {q \in rejected : q[1] = c.session /\ q[2] = c.gen}}
              = 0..(c.attempt - 1)

(* What a certificate rests on is final: no straggler, second dispatch,    *)
(* later call, late serving thread or restarted process changes the        *)
(* admitted sequence, the verdict or the stamps in a directory it names.   *)
(* The captured evidence beside them may still grow, since serving threads *)
(* are not joined, but no certificate is given over evidence that has      *)
(* grown past its sequence.                                                *)
CertifiedEvidenceFrozen ==
    [][/\ \A c \in certified : \A k \in c.dirs : ep'[k] = ep[k]
       /\ \A c \in certified' \ certified : c.dirs \cap late = {}]_vars

(* Every call of generate_sequences returns a batch or raises, whatever    *)
(* its episodes do.                                                        *)
CallEnds == mgr.pc = "rollout" ~> mgr.pc = "idle"
=============================================================================
