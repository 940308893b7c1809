------------------------------ MODULE EventLog ------------------------------
(***************************************************************************)
(* What the event store promises its producers, without files, locks,      *)
(* batches or processes: a write-once map from event ids to events.  The   *)
(* first content stored under an id is its content forever; presenting the *)
(* same content again is acknowledged as a duplicate, presenting other     *)
(* content is quarantined against the stored one.                          *)
(***************************************************************************)
CONSTANTS
    EventIds,  \* TraceEvent.event_id
    Event,     \* the events a producer can present: records with a field id
    None       \* "no event stored under this id"

VARIABLES
    log,         \* id -> the event stored under it, or None
    acked,       \* events some producer was told are stored
    quarantine   \* pairs [event, existing] recorded as conflicts

vars == <<log, acked, quarantine>>

Init ==
    /\ log = [i \in EventIds |-> None]
    /\ acked = {}
    /\ quarantine = {}

(* An event is stored under an id that holds nothing yet.                  *)
Store(e) ==
    /\ log[e.id] = None
    /\ log' = [log EXCEPT ![e.id] = e]
    /\ UNCHANGED <<acked, quarantine>>

(* A producer learns that its events are stored: only stored events are    *)
(* ever acknowledged, whether freshly appended or already there.           *)
Acknowledge ==
    /\ acked \subseteq acked'
    /\ \A e \in acked' \ acked : log[e.id] = e
    /\ UNCHANGED <<log, quarantine>>

(* Conflicting contents are recorded against what the log holds.           *)
Quarantine ==
    /\ quarantine \subseteq quarantine'
    /\ \A q \in quarantine' \ quarantine :
          /\ q.event.id = q.existing.id
          /\ log[q.event.id] = q.existing
          /\ q.event # q.existing
    /\ UNCHANGED <<log, acked>>

Next ==
    \/ \E e \in Event : Store(e)
    \/ Acknowledge
    \/ Quarantine

Spec == Init /\ [][Next]_vars
=============================================================================
