----------------------- MODULE PartitionedEventStore -----------------------
(***************************************************************************)
(* PartitionedEventStore (src/storage/event_store.py) on top of            *)
(* EventWriter and EventJsonlReader (src/capture/event_writer.py): several *)
(* processes share one directory of append-only JSONL partitions, each     *)
(* operation runs under one exclusive flock, and a process may crash, or a *)
(* write may fail, at any point of an operation.                           *)
(*                                                                         *)
(* A raw-events.jsonl file is modelled by the events its reader returns    *)
(* (raw), by whether it holds lines the reader reports as malformed (junk) *)
(* and by how its last line ends (tail).  The checksum of an event is the  *)
(* event itself: it covers every field, run and episode included, so a     *)
(* checksum comparison is an equality of events.                           *)
(***************************************************************************)
EXTENDS Naturals, Sequences, FiniteSets

CONSTANTS
    Procs,          \* processes holding a PartitionedEventStore on the root
    EventIds,       \* TraceEvent.event_id
    Partitions,     \* run/episode directories, numbered in path order
    Bodies,         \* everything else an event says
    Batches,        \* the batches clients submit: sequences of events
    MaxFaults,      \* bound on crashes and failed writes
    TearAtNewline,  \* may a write stop between the JSON and its newline?
    None

ASSUME StoreAssumption ==
    /\ Partitions \subseteq Nat
    /\ MaxFaults \in Nat
    /\ TearAtNewline \in BOOLEAN
    /\ None \notin Procs
    /\ None \notin [id : EventIds, part : Partitions, body : Bodies]
    /\ Batches \subseteq Seq([id : EventIds, part : Partitions, body : Bodies])

Event == [id : EventIds, part : Partitions, body : Bodies]
Conflict == [event : Event, existing : Event]

VARIABLES
    raw,         \* partition -> events read from raw-events.jsonl, in order
    tail,        \* partition -> how its last line ends
    junk,        \* partition -> does it hold a malformed terminated line?
    manifest,    \* partition -> events listed by partition-manifest.json
    compacted,   \* partition -> events of compacted-events.jsonl (their order
                 \* is the total order (sequence, timestamp, event_id))
    compaction,  \* partition -> what compaction-manifest.json describes
    quarantine,  \* entries of quarantine.jsonl
    alive,       \* processes whose constructor has returned
    index,       \* process -> its _event_index
    lock,        \* holder of .ingestion.lock
    pc,          \* where the holder is in its operation
    op,          \* the holder's local variables
    faults,      \* crashes and failed writes so far
    acked        \* history: events some ingest() reported as stored

disk   == <<raw, tail, junk, manifest, compacted, compaction, quarantine>>
memory == <<alive, index, lock, pc, op>>
vars   == <<disk, memory, faults, acked>>

(* "torn": the last line is a proper prefix of an event's JSON.            *)
(* "unterminated": it is a whole JSON document without its newline, which  *)
(* the reader accepts.  "merged": it started as an unterminated event and  *)
(* more bytes were appended to the same line.                              *)
Tails == {"closed", "torn", "unterminated", "merged"}

NoOp == [batch |-> <<>>, todo |-> {}, conflicts |-> {}, at |-> 0, parts |-> {}]

TypeOK ==
    /\ raw \in [Partitions -> Seq(Event)]
    /\ tail \in [Partitions -> Tails]
    /\ junk \in [Partitions -> BOOLEAN]
    /\ manifest \in [Partitions -> Seq(Event) \cup {None}]
    /\ compacted \in [Partitions -> SUBSET Event]
    /\ compaction \in [Partitions -> [raw : Seq(Event), compacted : SUBSET Event] \cup {None}]
    /\ quarantine \subseteq Conflict
    /\ alive \subseteq Procs
    /\ index \in [Procs -> [EventIds -> Event \cup {None}]]
    /\ lock \in Procs \cup {None}
    /\ pc \in {"idle", "append", "writing", "manifest", "quarantine", "return",
               "compacted", "recover"}
    /\ op \in [batch : Seq(Event), todo : SUBSET Nat, conflicts : SUBSET Conflict,
               at : Nat, parts : SUBSET Partitions]
    /\ faults \in Nat
    /\ acked \subseteq Event

Init ==
    /\ raw = [q \in Partitions |-> <<>>]
    /\ tail = [q \in Partitions |-> "closed"]
    /\ junk = [q \in Partitions |-> FALSE]
    /\ manifest = [q \in Partitions |-> None]
    /\ compacted = [q \in Partitions |-> {}]
    /\ compaction = [q \in Partitions |-> None]
    /\ quarantine = {}
    /\ alive = {}
    /\ index = [p \in Procs |-> [i \in EventIds |-> None]]
    /\ lock = None
    /\ pc = "idle"
    /\ op = NoOp
    /\ faults = 0
    /\ acked = {}
-----------------------------------------------------------------------------
(* EventJsonlReader.read *)

EventsOf(s) == {s[k] : k \in DOMAIN s}

(* The reader parses lines one by one: JsonlReadResult.issues is not empty *)
(* when some line, terminated or not, is not an event.                     *)
Malformed(q) == junk[q] \/ tail[q] \in {"torn", "merged"}

RawExists(q) == raw[q] # <<>> \/ Malformed(q)

Readable(Q) == UNION {EventsOf(raw[q]) : q \in Q}

Conflicting(Q) == \E e, f \in Readable(Q) : e.id = f.id /\ e # f

IndexOf(Q) ==
    [i \in EventIds |-> IF \E e \in Readable(Q) : e.id = i
                        THEN CHOOSE e \in Readable(Q) : e.id = i
                        ELSE None]

(* _refresh_index (and _load_existing_index): forget everything, re-read   *)
(* every partition.  Without allow_malformed it raises on the first        *)
(* malformed partition or conflicting id.                                  *)
RefreshRaises == Conflicting(Partitions) \/ \E q \in Partitions : Malformed(q)

(* Fault variant: ingest() trusts the index it built last time.            *)
CachedIndex(p) == index[p]

RefreshedIndex(p) == IndexOf(Partitions)
-----------------------------------------------------------------------------
(* Opening and losing a process *)

(* PartitionedEventStore.__init__: no lock is taken, so the constructor    *)
(* also sees the partial line of a write in progress, and raises on it.    *)
Open(p) ==
    /\ p \notin alive
    /\ ~RefreshRaises
    /\ alive' = alive \cup {p}
    /\ index' = [index EXCEPT ![p] = RefreshedIndex(p)]
    /\ UNCHANGED <<disk, lock, pc, op, faults, acked>>

Release ==
    /\ lock' = None
    /\ pc' = "idle"
    /\ op' = NoOp

(* The kernel drops the flock of a dead process; files stay as they are.   *)
Crash(p) ==
    /\ p \in alive
    /\ faults < MaxFaults
    /\ faults' = faults + 1
    /\ alive' = alive \ {p}
    /\ index' = [index EXCEPT ![p] = [i \in EventIds |-> None]]
    /\ IF lock = p THEN Release ELSE UNCHANGED <<lock, pc, op>>
    /\ UNCHANGED <<disk, acked>>

(* An OSError in the middle of an operation (disk full, failed fsync): the *)
(* exception leaves through the lock's __exit__, what was written stays.   *)
FailWrite ==
    /\ lock # None
    /\ faults < MaxFaults
    /\ faults' = faults + 1
    /\ Release
    /\ UNCHANGED <<disk, alive, index, acked>>
-----------------------------------------------------------------------------
(* ingest *)

(* The decision for each position of the batch.  The first content under   *)
(* an id wins: the indexed one, else its first occurrence in the batch     *)
(* (pending); an equal later one is a duplicate, another is quarantined.   *)
FirstAt(ix, b, k) == ix[b[k].id] = None /\ \A j \in 1..(k - 1) : b[j].id # b[k].id

Winner(ix, b, k) ==
    IF ix[b[k].id] # None THEN ix[b[k].id]
    ELSE b[CHOOSE j \in DOMAIN b : b[j].id = b[k].id /\ FirstAt(ix, b, j)]

(* Fault variant: no pending map, only the index is consulted.             *)
ToAppendWithoutPending(ix, b) == {k \in DOMAIN b : ix[b[k].id] = None}

ToAppend(ix, b) == {k \in DOMAIN b : FirstAt(ix, b, k)}

(* Fault variant: conflicts inside a batch pass for duplicates.            *)
ConflictsWithIndexOnly(ix, b) ==
    {[event |-> b[k], existing |-> ix[b[k].id]] :
        k \in {j \in DOMAIN b : ix[b[j].id] \notin {b[j], None}}}

ConflictsIn(ix, b) ==
    {[event |-> b[k], existing |-> Winner(ix, b, k)] :
        k \in {j \in DOMAIN b : b[j] # Winner(ix, b, j)}}

(* Fault variant: conflicts are written before the events they lost to.    *)
QuarantineFirst(p, b) ==
    LET ix == RefreshedIndex(p) IN
    /\ p \in alive /\ lock = None
    /\ ~RefreshRaises
    /\ lock' = p
    /\ index' = [index EXCEPT ![p] = ix]
    /\ op' = [NoOp EXCEPT !.batch = b, !.todo = ToAppend(ix, b),
                          !.conflicts = ConflictsIn(ix, b)]
    /\ quarantine' = quarantine \cup ConflictsIn(ix, b)
    /\ pc' = IF ToAppend(ix, b) = {} THEN "quarantine" ELSE "append"
    /\ UNCHANGED <<raw, tail, junk, manifest, compacted, compaction, alive, faults, acked>>

BeginIngest(p, b) ==
    LET ix == RefreshedIndex(p) IN
    /\ p \in alive /\ lock = None
    /\ ~RefreshRaises
    /\ lock' = p
    /\ index' = [index EXCEPT ![p] = ix]
    /\ op' = [NoOp EXCEPT !.batch = b, !.todo = ToAppend(ix, b),
                          !.conflicts = ConflictsIn(ix, b)]
    /\ pc' = IF ToAppend(ix, b) = {} THEN "quarantine" ELSE "append"
    /\ UNCHANGED <<disk, alive, faults, acked>>

(* ingest on a store with a malformed partition: _refresh_index raises     *)
(* after clearing the index and re-reading the partitions before it.       *)
IngestRefused(p) ==
    /\ p \in alive /\ lock = None
    /\ RefreshRaises
    /\ index' = [index EXCEPT ![p] =
                    IndexOf({q \in Partitions : \A r \in Partitions : r <= q => ~Malformed(r)})]
    /\ UNCHANGED <<disk, alive, lock, pc, op, faults, acked>>

(* grouped, sorted by partition, batch order inside a partition.           *)
Precedes(b, j, k) == b[j].part < b[k].part \/ (b[j].part = b[k].part /\ j <= k)

(* Fault variant: the file is opened for writing, not for append.          *)
TruncatingStart ==
    /\ pc = "append"
    /\ \E k \in op.todo :
          LET q == op.batch[k].part IN
          /\ \A j \in op.todo : Precedes(op.batch, k, j)
          /\ op' = [op EXCEPT !.at = k]
          /\ raw' = [raw EXCEPT ![q] = <<>>]
          /\ tail' = [tail EXCEPT ![q] = "torn"]
    /\ pc' = "writing"
    /\ UNCHANGED <<junk, manifest, compacted, compaction, quarantine, alive, index,
                   lock, faults, acked>>

(* EventWriter.append opens the file for append and starts writing: a line *)
(* left without its newline is continued by the new event's bytes.         *)
AppendStart ==
    /\ pc = "append"
    /\ \E k \in op.todo :
          LET q == op.batch[k].part IN
          /\ \A j \in op.todo : Precedes(op.batch, k, j)
          /\ op' = [op EXCEPT !.at = k]
          /\ IF tail[q] = "unterminated"
             THEN /\ raw' = [raw EXCEPT ![q] = SubSeq(@, 1, Len(@) - 1)]
                  /\ tail' = [tail EXCEPT ![q] = "merged"]
             ELSE /\ tail' = [tail EXCEPT ![q] = "torn"]
                  /\ UNCHANGED raw
    /\ pc' = "writing"
    /\ UNCHANGED <<junk, manifest, compacted, compaction, quarantine, alive, index,
                   lock, faults, acked>>

(* All of the JSON is in the file, the newline is not.                     *)
AppendUnterminated ==
    LET e == op.batch[op.at] IN
    /\ TearAtNewline
    /\ pc = "writing"
    /\ tail[e.part] = "torn"
    /\ raw' = [raw EXCEPT ![e.part] = Append(@, e)]
    /\ tail' = [tail EXCEPT ![e.part] = "unterminated"]
    /\ UNCHANGED <<junk, manifest, compacted, compaction, quarantine, memory,
                   faults, acked>>

(* The group append_many() has written: none of its ids is indexed yet.    *)
Group(q) == {op.batch[k] : k \in {j \in ToAppend(index[lock], op.batch) : op.batch[j].part = q}}

(* The newline is written and the line fsynced.  When that completes the   *)
(* group of its partition, ingest() indexes the group and goes on to the   *)
(* manifest.                                                               *)
AppendDone ==
    LET e == op.batch[op.at]
        rest == op.todo \ {op.at}
        more == \E k \in rest : op.batch[k].part = e.part
    IN
    /\ pc = "writing"
    /\ raw' = IF tail[e.part] = "torn" THEN [raw EXCEPT ![e.part] = Append(@, e)] ELSE raw
    /\ junk' = IF tail[e.part] = "merged" THEN [junk EXCEPT ![e.part] = TRUE] ELSE junk
    /\ tail' = [tail EXCEPT ![e.part] = "closed"]
    /\ index' = IF more THEN index
                ELSE [index EXCEPT ![lock] = [i \in EventIds |->
                        IF \E f \in Group(e.part) : f.id = i
                        THEN CHOOSE f \in Group(e.part) : f.id = i
                        ELSE @[i]]]
    /\ op' = [op EXCEPT !.todo = rest]
    /\ pc' = IF more THEN "append" ELSE "manifest"
    /\ UNCHANGED <<manifest, compacted, compaction, quarantine, alive, lock, faults, acked>>

(* Fault variant: the manifest lists the batch instead of the raw file.    *)
ManifestOfBatch ==
    /\ pc = "manifest"
    /\ manifest' = [manifest EXCEPT ![op.batch[op.at].part] = op.batch]
    /\ pc' = IF op.todo = {} THEN "quarantine" ELSE "append"
    /\ UNCHANGED <<raw, tail, junk, compacted, compaction, quarantine, alive, index,
                   lock, op, faults, acked>>

(* _write_partition_manifest: re-read the raw file, replace atomically.    *)
WriteManifest ==
    LET q == op.batch[op.at].part IN
    /\ pc = "manifest"
    /\ manifest' = [manifest EXCEPT ![q] = raw[q]]
    /\ pc' = IF op.todo = {} THEN "quarantine" ELSE "append"
    /\ UNCHANGED <<raw, tail, junk, compacted, compaction, quarantine, alive, index,
                   lock, op, faults, acked>>

(* _append_quarantine *)
WriteQuarantine ==
    /\ pc = "quarantine"
    /\ quarantine' = quarantine \cup op.conflicts
    /\ pc' = "return"
    /\ UNCHANGED <<raw, tail, junk, manifest, compacted, compaction, alive, index,
                   lock, op, faults, acked>>

(* Fault variant: the whole batch is reported as stored.                   *)
ReportAll ==
    /\ pc = "return"
    /\ acked' = acked \cup EventsOf(op.batch)
    /\ Release
    /\ UNCHANGED <<disk, alive, index, faults>>

(* The batch result: every event that is not quarantined is reported in    *)
(* appended_event_ids or duplicate_event_ids.                              *)
IngestReturns ==
    /\ pc = "return"
    /\ acked' = acked \cup (EventsOf(op.batch) \ {c.event : c \in op.conflicts})
    /\ Release
    /\ UNCHANGED <<disk, alive, index, faults>>
-----------------------------------------------------------------------------
(* compact_partition: derived view first, its manifest second, each with   *)
(* an atomic replace.  Later lines win when an id occurs twice.            *)
CompactedView(s) == {s[k] : k \in {j \in DOMAIN s : \A l \in DOMAIN s : l > j => s[l].id # s[j].id}}

BeginCompact(p, q) ==
    /\ p \in alive /\ lock = None
    /\ ~Malformed(q)
    /\ lock' = p
    /\ compacted' = [compacted EXCEPT ![q] = CompactedView(raw[q])]
    /\ op' = [NoOp EXCEPT !.parts = {q}]
    /\ pc' = "compacted"
    /\ UNCHANGED <<raw, tail, junk, manifest, compaction, quarantine, alive, index,
                   faults, acked>>

CompactionManifest ==
    /\ pc = "compacted"
    /\ compaction' = [q \in Partitions |->
                        IF q \in op.parts THEN [raw |-> raw[q], compacted |-> compacted[q]]
                        ELSE compaction[q]]
    /\ Release
    /\ UNCHANGED <<raw, tail, junk, manifest, compacted, quarantine, alive, index,
                   faults, acked>>
-----------------------------------------------------------------------------
(* recover: refresh the index tolerantly, then rebuild the manifest of     *)
(* every well-formed partition that has a raw file, in path order.         *)
BeginRecover(p) ==
    /\ p \in alive /\ lock = None
    /\ lock' = p
    /\ index' = [index EXCEPT ![p] = RefreshedIndex(p)]
    /\ op' = [NoOp EXCEPT !.parts = {q \in Partitions : RawExists(q)}]
    /\ pc' = "recover"
    /\ UNCHANGED <<disk, alive, faults, acked>>

(* Fault variant: recover() only writes manifests that are missing.        *)
RecoverMissing ==
    /\ pc = "recover"
    /\ \E q \in op.parts :
          /\ \A r \in op.parts : q <= r
          /\ manifest' = IF Malformed(q) \/ manifest[q] # None THEN manifest
                         ELSE [manifest EXCEPT ![q] = raw[q]]
          /\ op' = [op EXCEPT !.parts = @ \ {q}]
    /\ UNCHANGED <<raw, tail, junk, compacted, compaction, quarantine, alive, index,
                   lock, pc, faults, acked>>

RecoverPartition ==
    /\ pc = "recover"
    /\ \E q \in op.parts :
          /\ \A r \in op.parts : q <= r
          /\ manifest' = IF Malformed(q) THEN manifest ELSE [manifest EXCEPT ![q] = raw[q]]
          /\ op' = [op EXCEPT !.parts = @ \ {q}]
    /\ UNCHANGED <<raw, tail, junk, compacted, compaction, quarantine, alive, index,
                   lock, pc, faults, acked>>

(* Fault variant: recover() returns without unlocking.                     *)
RecoverKeepsLock ==
    /\ pc = "recover" /\ op.parts = {}
    /\ pc' = "idle"
    /\ op' = NoOp
    /\ UNCHANGED <<disk, alive, index, lock, faults, acked>>

RecoverReturns ==
    /\ pc = "recover" /\ op.parts = {}
    /\ Release
    /\ UNCHANGED <<disk, alive, index, faults, acked>>
-----------------------------------------------------------------------------
HolderStep ==
    \/ AppendStart \/ AppendUnterminated \/ AppendDone
    \/ WriteManifest \/ WriteQuarantine \/ IngestReturns
    \/ CompactionManifest
    \/ RecoverPartition \/ RecoverReturns

Next ==
    \/ \E p \in Procs : Open(p) \/ Crash(p) \/ IngestRefused(p) \/ BeginRecover(p)
    \/ \E p \in Procs, b \in Batches : BeginIngest(p, b)
    \/ \E p \in Procs, q \in Partitions : BeginCompact(p, q)
    \/ FailWrite
    \/ HolderStep

Spec == Init /\ [][Next]_vars

(* A process that holds the lock keeps running: nothing inside an          *)
(* operation waits for another process.                                    *)
FairSpec == Spec /\ WF_vars(HolderStep)

(* An operator who restarts the store whenever it can be opened and keeps  *)
(* calling recover().                                                      *)
RecoverySpec ==
    FairSpec /\ \A p \in Procs : WF_vars(Open(p)) /\ SF_vars(BeginRecover(p))
-----------------------------------------------------------------------------
(* Properties *)

(* No event id is ever readable from two places, whatever processes ingest *)
(* it, in whatever batches, and wherever they crash: the global            *)
(* idempotency ingest() builds from the lock and _refresh_index.           *)
GlobalIdempotency ==
    \A q, r \in Partitions : \A j \in DOMAIN raw[q], k \in DOMAIN raw[r] :
        raw[q][j].id = raw[r][k].id => q = r /\ j = k

(* An event that some ingest() reported as appended or as a duplicate is   *)
(* readable from its own partition ever after, through later crashes and   *)
(* through failed writes of others (README.md: what is written is kept).   *)
AckedStored == \A e \in acked : e \in EventsOf(raw[e.part])

(* Every quarantine entry names a stored event as the content it lost to:  *)
(* a batch that fails before its appends leaves no entry against an event  *)
(* that was never stored, and no event is both reported stored and         *)
(* quarantined.                                                            *)
QuarantineJustified ==
    /\ \A c \in quarantine : /\ c.existing \in EventsOf(raw[c.existing.part])
                             /\ c.event.id = c.existing.id
                             /\ c.event # c.existing
    /\ acked \cap {c.event : c \in quarantine} = {}

(* A partition manifest may lag behind the raw file after a crash but      *)
(* always lists a prefix of it, and the compacted view holds only events   *)
(* of the raw file: derived files never claim what raw cannot show.        *)
DerivedFromRaw ==
    \A q \in Partitions :
        /\ manifest[q] # None =>
              /\ Len(manifest[q]) <= Len(raw[q])
              /\ \A k \in DOMAIN manifest[q] : manifest[q][k] = raw[q][k]
        /\ compacted[q] \subseteq EventsOf(raw[q])

(* When recover() is about to return, the manifest of every well-formed    *)
(* partition equals its raw file, whatever crash left it stale.            *)
RecoverRebuilds ==
    pc = "recover" /\ op.parts = {} =>
        \A q \in Partitions : RawExists(q) /\ ~Malformed(q) => manifest[q] = raw[q]

(* Raw files only grow: a step never removes or changes an event that a    *)
(* reader could already see.                                               *)
AppendOnly ==
    [][\A q \in Partitions : /\ Len(raw[q]) <= Len(raw'[q])
                             /\ \A k \in DOMAIN raw[q] : raw'[q][k] = raw[q][k]]_vars

(* The write-once map the partitions amount to.                            *)
Log == INSTANCE EventLog WITH log <- IndexOf(Partitions)

(* The store implements the write-once event log: whatever processes do,   *)
(* and wherever they crash, ids are bound once, only bound contents are    *)
(* reported as stored and only other contents are quarantined.             *)
ImplementsEventLog == Log!Spec

(* No operation keeps the lock for ever, so no process is locked out.      *)
LockReleased == \A p \in Procs : lock = p ~> lock # p

(* The inductive invariant behind the safety properties, for writes that   *)
(* never stop between an event and its newline (~TearAtNewline).           *)
Stored == Readable(Partitions)

IngestPcs == {"append", "writing", "manifest", "quarantine", "return"}

(* Every file ends in whole lines or in one torn line.                     *)
LinesInv == \A q \in Partitions : tail[q] \in {"closed", "torn"} /\ ~junk[q]

InPlace == \A q \in Partitions : \A k \in DOMAIN raw[q] : raw[q][k].part = q

(* What a batch still has to append is new and has distinct ids; every     *)
(* event of it is in conflict, stored, or about to be stored.              *)
Classified(b, todo, conflicts) ==
    /\ todo \subseteq DOMAIN b
    /\ \A j, k \in todo : b[j].id = b[k].id => j = k
    /\ \A k \in todo : \A e \in Stored : e.id # b[k].id
    /\ \A k \in DOMAIN b :
          \/ \E c \in conflicts : c.event = b[k]
          \/ b[k] \in Stored
          \/ \E j \in todo : b[j] = b[k]
    /\ \A c \in conflicts :
          /\ c.event.id = c.existing.id
          /\ c.event # c.existing
          /\ c.existing \in Stored \/ \E j \in todo : b[j] = c.existing

BatchInv == Classified(op.batch, op.todo, op.conflicts)

HolderInv ==
    /\ pc = "idle" <=> lock = None
    /\ pc \in IngestPcs => BatchInv
    /\ pc = "writing" => op.at \in op.todo /\ tail[op.batch[op.at].part] = "torn"
    /\ pc = "manifest" => op.at \in DOMAIN op.batch
    /\ pc \in {"quarantine", "return"} => op.todo = {}

(* recover() has rebuilt every manifest it no longer has to visit.         *)
RecoverInv ==
    pc = "recover" => \A q \in Partitions \ op.parts :
        RawExists(q) /\ ~Malformed(q) => manifest[q] = raw[q]

(* The invariant every step of the store keeps: between any two steps of   *)
(* any process the files are whole but for one torn line, every event is   *)
(* in its own partition, the batch in progress is classified against what  *)
(* is stored now, and what was reported, quarantined or derived is right.  *)
StoreInv ==
    /\ TypeOK /\ LinesInv /\ InPlace /\ HolderInv /\ RecoverInv
    /\ GlobalIdempotency /\ AckedStored /\ QuarantineJustified /\ DerivedFromRaw

Stale(q) == RawExists(q) /\ ~Malformed(q) /\ manifest[q] # raw[q]

(* With an operator who keeps calling recover(), a manifest left stale by  *)
(* a crash is rebuilt (README.md: partition manifests can be rebuilt from  *)
(* the raw events), as long as no partition holds a malformed line: that   *)
(* one line keeps the constructor, and with it recover(), from returning.  *)
StaleManifestRebuiltUnlessTorn ==
    \A q \in Partitions : Stale(q) ~> (~Stale(q) \/ \E r \in Partitions : Malformed(r))
=============================================================================
