-------------------------- MODULE EpisodeAssembly --------------------------
(***************************************************************************)
(* EpisodeAssembler.assemble (src/assembly/episode_assembler.py) for the   *)
(* events of one episode: what the raw log of a run says, as an episode    *)
(* with an integrity state and an outcome.  No variables: the modules that *)
(* run an execution apply these operators to the log they read.            *)
(*                                                                         *)
(* An event is a record [id, type, span, parent, seq, status, passed,      *)
(* refs, terminal].  Checksums are the values themselves; timestamps,      *)
(* which only break ties between equal sequence numbers, are left to the   *)
(* event id.  terminal is the declaration an EPISODE_FINISHED event        *)
(* carries, None in every other event.                                     *)
(***************************************************************************)
EXTENDS Basics, FiniteSetsExt

OpenClose == {<<"MODEL_REQUEST", "MODEL_RESPONSE">>,
              <<"TOOL_CALL", "TOOL_RESULT">>,
              <<"SANDBOX_STARTED", "SANDBOX_FINISHED">>,
              <<"VERIFICATION_STARTED", "VERIFICATION_FINISHED">>}

(* The first arrival of every event id.                                    *)
Accepted(raw) ==
    {raw[i] : i \in {j \in DOMAIN raw : \A k \in 1..(j - 1) : raw[k].id # raw[j].id}}

(* One id, two contents: quarantined, and the episode is CORRUPT.          *)
ConflictingEventId(raw) ==
    \E i, j \in DOMAIN raw : raw[i].id = raw[j].id /\ raw[i] # raw[j]

OfType(E, t) == {e \in E : e.type = t}

Spans(E) == {e.span : e \in E}

SequenceCollisions(E) == \E e, f \in E : e # f /\ e.seq = f.seq

SequenceGaps(E) == (0..Max({e.seq : e \in E})) \ {e.seq : e \in E}

OrphanSpans(E) ==
    Spans({e \in E : e.parent # None /\ e.parent \notin Spans(E)})

MissingExpectedTypes(E) ==
    {p[2] : p \in {q \in OpenClose :
                     Spans(OfType(E, q[1])) \ Spans(OfType(E, q[2])) # {}}}
    \cup (IF OfType(E, "EPISODE_FINISHED") = {} THEN {"EPISODE_FINISHED"} ELSE {})

RequestedArtifacts(E) == UNION {e.refs : e \in E}

MissingArtifacts(E, index) == RequestedArtifacts(E) \ index

IntegrityState(raw, index) ==
    LET E == Accepted(raw)
    IN  CASE \/ ConflictingEventId(raw)
             \/ SequenceCollisions(E)
             \/ Cardinality(OfType(E, "EPISODE_FINISHED")) > 1 -> "CORRUPT"
          [] \/ SequenceGaps(E) # {}
             \/ OrphanSpans(E) # {}
             \/ MissingExpectedTypes(E) # {}
             \/ MissingArtifacts(E, index) # {} -> "PARTIAL"
          [] OTHER -> "COMPLETE"

(* The assembler's order: by sequence number, then by id.                  *)
Precedes(e, f) == e.seq < f.seq \/ (e.seq = f.seq /\ e.id < f.id)

Latest(E) == CHOOSE e \in E : \A f \in E \ {e} : Precedes(f, e)

(* _derive_terminal on the last EPISODE_FINISHED event; the producers of   *)
(* this code always declare a well-formed outcome.                         *)
DeriveTerminal(E) ==
    LET terminals == OfType(E, "EPISODE_FINISHED")
        last == Latest(terminals)
    IN  IF terminals = {}
        THEN [task |-> "UNKNOWN", validity |-> "UNKNOWN", verifier |-> "UNKNOWN",
              score |-> None, evidence |-> {}, observable |-> FALSE]
        ELSE [task |-> last.terminal.task, validity |-> last.terminal.validity,
              verifier |-> last.terminal.verifier, score |-> last.terminal.score,
              evidence |-> IF last.terminal.evidence = {} THEN {last.id}
                           ELSE last.terminal.evidence,
              observable |-> TRUE]

(* AgentEpisode refuses an outcome that cites an event it does not have.   *)
OutcomeDangling(E) == ~(DeriveTerminal(E).evidence \subseteq {e.id : e \in E})

(* Anything quarantined, or no episode at all: finalize_local_run raises.  *)
AssemblyFails(raw) ==
    \/ raw = <<>>
    \/ ConflictingEventId(raw)
    \/ OutcomeDangling(Accepted(raw))

Assemble(raw, index) ==
    LET E == Accepted(raw)
    IN  [events |-> E, integrity |-> IntegrityState(raw, index),
         outcome |-> DeriveTerminal(E),
         artifacts |-> RequestedArtifacts(E) \cap index]
=============================================================================
