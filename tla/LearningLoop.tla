---------------------------- MODULE LearningLoop ----------------------------
(***************************************************************************)
(* scripts/watch_learning_loop.py: the supervisor that runs the stages of  *)
(* a learning loop one after the other, and is started again after it was  *)
(* killed, after a stage failed or was refused by its gate, or when an     *)
(* artifact it waits for has arrived.                                      *)
(*                                                                         *)
(* A stage is done when its completion artifact exists; the artifact of a  *)
(* gated stage must also hold the required fields ("good").  A stage       *)
(* without a command waits for somebody else's artifact.  The command of a *)
(* supervisor that is killed lives on: it is the shell's child.            *)
(***************************************************************************)
EXTENDS Basics, FiniteSetsExt

CONSTANTS Stages,       \* how many stages the configuration lists
          Gated,        \* those with required_json
          Unattended,   \* those with a command
          MaxStarts,    \* bound: how often the supervisor is started
          MaxEdits      \* bound: artifacts replaced or removed from outside

LogEntries ==
    [name : 1..Stages,
     status : {"COMPLETED", "REJECTED", "WAITING", "RUNNING", "FAILED"}]

(* The state file: the entries of the stages, and the status of the loop.  *)
LoopStates == [log : Seq(LogEntries), status : {None, "COMPLETED", "REJECTED"}]

ASSUME StagesAssumption ==
    /\ Stages \in Nat \ {0}
    /\ Gated \subseteq 1..Stages /\ Unattended \subseteq 1..Stages
    /\ None \notin LoopStates /\ None \notin {"COMPLETED", "REJECTED"}

VARIABLES sup,       \* the supervisor: where it is, its stage and its state
          file,      \* the state file, None before the first write
          arts,      \* the completion artifacts: None, "good" or "bad"
          commands,  \* the commands alive: [stage, mine]
          past       \* history: starts, edits, stages run again when done

loopVars == <<sup, file, arts, commands, past>>

FreshState == [log |-> <<>>, status |-> None]

LoopInit ==
    /\ sup = [pc |-> "down", stage |-> 1, state |-> FreshState]
    /\ file = None
    /\ arts = [s \in 1..Stages |-> None]
    /\ commands = {}
    /\ past = [starts |-> 0, edits |-> 0, redone |-> {}]

(* The newest entry of a stage; an earlier one may have failed.            *)
FirstEntry(log, s) ==
    LET entries == {i \in DOMAIN log : log[i].name = s}
    IN  IF entries = {} THEN 0 ELSE Min(entries)

LatestEntry(log, s) ==
    LET entries == {i \in DOMAIN log : log[i].name = s}
    IN  IF entries = {} THEN 0 ELSE Max(entries)

StatusOfStage(log, s) ==
    IF LatestEntry(log, s) = 0 THEN None ELSE log[LatestEntry(log, s)].status

(* Completed, and not refused by its gate since.                           *)
CompletedUnrefused(log, s) ==
    \E i \in DOMAIN log :
      /\ log[i] = [name |-> s, status |-> "COMPLETED"]
      /\ \A j \in (i + 1)..Len(log) : log[j] # [name |-> s, status |-> "REJECTED"]

Entered(log, s, status) == Append(log, [name |-> s, status |-> status])

(* An entry that is brought up to date in place.                           *)
Marked(log, n, status) == [log EXCEPT ![n].status = status]

(* _write: a temporary file, then a rename.                                *)
WriteState(state) == file' = state

(* required_json_error.                                                    *)
GateError(s) == s \in Gated /\ arts[s] = "bad"

StartSupervisor ==
    /\ sup.pc = "down"
    /\ past.starts < MaxStarts
    /\ sup' = [pc |-> "visit", stage |-> 1, state |-> IF file = None THEN FreshState ELSE file]
    /\ past' = [past EXCEPT !.starts = @ + 1]
    /\ UNCHANGED <<file, arts, commands>>

Visiting == sup.pc = "visit" /\ sup.stage <= Stages

ExitWith(state) ==
    /\ WriteState(state)
    /\ sup' = [sup EXCEPT !.pc = "down", !.state = state]

(* The artifact is there and its gate refuses it.                          *)
RejectStage ==
    LET s == sup.stage
        log == sup.state.log
    IN  /\ Visiting /\ arts[s] # None /\ GateError(s)
        /\ ExitWith([log |-> IF StatusOfStage(log, s) = "REJECTED" THEN log
                             ELSE Entered(log, s, "REJECTED"),
                     status |-> "REJECTED"])
        /\ UNCHANGED <<arts, commands, past>>

(* The artifact is there: the stage is done, whoever produced it.          *)
ObserveStage ==
    LET s == sup.stage
        log == sup.state.log
        state == [log |-> Entered(log, s, "COMPLETED"), status |-> None]
    IN  /\ Visiting /\ arts[s] # None /\ ~GateError(s)
        /\ IF StatusOfStage(log, s) = "COMPLETED"
           THEN sup' = [sup EXCEPT !.stage = @ + 1] /\ UNCHANGED file
           ELSE /\ WriteState(state)
                /\ sup' = [sup EXCEPT !.stage = @ + 1, !.state = state]
        /\ UNCHANGED <<arts, commands, past>>

(* A completed stage has lost its artifact.                                *)
ArtifactVanished ==
    /\ Visiting /\ arts[sup.stage] = None
    /\ StatusOfStage(sup.state.log, sup.stage) = "COMPLETED"
    /\ ExitWith(sup.state)
    /\ UNCHANGED <<arts, commands, past>>

AwaitArtifact ==
    LET s == sup.stage
        log == sup.state.log
        at == LatestEntry(log, s)
    IN  /\ Visiting /\ arts[s] = None /\ s \notin Unattended
        /\ StatusOfStage(log, s) # "COMPLETED"
        /\ ExitWith([sup.state EXCEPT
                       !.log = IF at = 0 THEN Entered(log, s, "WAITING")
                               ELSE Marked(log, at, "WAITING")])
        /\ UNCHANGED <<arts, commands, past>>

(* RUNNING is on file before the command starts.                           *)
RunStage ==
    LET s == sup.stage
        state == [sup.state EXCEPT !.log = Entered(@, s, "RUNNING")]
    IN  /\ Visiting /\ arts[s] = None /\ s \in Unattended
        /\ StatusOfStage(sup.state.log, s) # "COMPLETED"
        /\ WriteState(state)
        /\ sup' = [sup EXCEPT !.pc = "wait", !.state = state]
        /\ commands' = commands \cup {[stage |-> s, mine |-> past.starts]}
        /\ past' = [past EXCEPT !.redone =
                      IF file # None /\ CompletedUnrefused(file.log, s)
                      THEN @ \cup {s} ELSE @]
        /\ UNCHANGED arts

(* A command writes its artifact, or none, and ends.                       *)
CommandWrites(c, content) ==
    /\ c \in commands /\ arts[c.stage] # content
    /\ arts' = [arts EXCEPT ![c.stage] = content]
    /\ UNCHANGED <<sup, file, commands, past>>

OrphanEnds(c) ==
    /\ c \in commands
    /\ ~(sup.pc = "wait" /\ c.mine = past.starts)
    /\ commands' = commands \ {c}
    /\ UNCHANGED <<sup, file, arts, past>>

(* subprocess.run returns: the gate is left to the next start.             *)
CommandReturns(zero) ==
    LET s == sup.stage
        done == zero /\ arts[s] # None
        state == [sup.state EXCEPT
                    !.log = Marked(@, Len(@), IF done THEN "COMPLETED" ELSE "FAILED")]
    IN  /\ sup.pc = "wait"
        /\ commands' = commands \ {[stage |-> s, mine |-> past.starts]}
        /\ WriteState(state)
        /\ sup' = [sup EXCEPT !.pc = IF done THEN "visit" ELSE "down",
                              !.stage = IF done THEN @ + 1 ELSE @, !.state = state]
        /\ UNCHANGED <<arts, past>>

LoopCompletes ==
    /\ sup.pc = "visit" /\ sup.stage > Stages
    /\ ExitWith([sup.state EXCEPT !.status = "COMPLETED"])
    /\ UNCHANGED <<arts, commands, past>>

-----------------------------------------------------------------------------
(* The world around it.                                                    *)

SupervisorKilled ==
    /\ sup.pc # "down"
    /\ sup' = [sup EXCEPT !.pc = "down"]
    /\ UNCHANGED <<file, arts, commands, past>>

ArtifactEdited(s, content) ==
    /\ past.edits < MaxEdits /\ content # arts[s]
    /\ arts' = [arts EXCEPT ![s] = content]
    /\ past' = [past EXCEPT !.edits = @ + 1]
    /\ UNCHANGED <<sup, file, commands>>

LoopStep ==
    \/ StartSupervisor
    \/ RejectStage
    \/ ObserveStage
    \/ ArtifactVanished
    \/ AwaitArtifact
    \/ RunStage
    \/ \E c \in commands : \E content \in {"good", "bad"} : CommandWrites(c, content)
    \/ \E c \in commands : OrphanEnds(c)
    \/ \E zero \in BOOLEAN : CommandReturns(zero)
    \/ LoopCompletes
    \/ SupervisorKilled
    \/ \E s \in 1..Stages : \E content \in {None, "good", "bad"} : ArtifactEdited(s, content)

LoopSpec == LoopInit /\ [][LoopStep]_loopVars

-----------------------------------------------------------------------------
(* The loop is safe to restart: however it was stopped, a stage that is on *)
(* file as completed is never run again unless its gate refused it since;  *)
(* a stage runs only after every earlier one was completed; and the file   *)
(* says COMPLETED of the loop only when it says so of every stage.         *)
LoopRestartSafe ==
    /\ past.redone = {}
    /\ sup.pc = "wait" => \A s \in 1..(sup.stage - 1) :
                            StatusOfStage(sup.state.log, s) = "COMPLETED"
    /\ file # None /\ file.status = "COMPLETED" =>
         \A s \in 1..Stages : StatusOfStage(file.log, s) = "COMPLETED"
=============================================================================
