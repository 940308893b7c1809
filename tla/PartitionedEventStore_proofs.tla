-------------------- MODULE PartitionedEventStore_proofs --------------------
(***************************************************************************)
(* The safety of PartitionedEventStore for every set of processes, events, *)
(* partitions and batches and any number of crashes and failed writes,     *)
(* provided no write stops between an event and its newline.               *)
(***************************************************************************)
EXTENDS PartitionedEventStore, WellFoundedInduction, TLAPS

(* Appending one event to a sequence: length, old and new positions.       *)
LEMMA AppendFacts ==
    ASSUME NEW S, NEW s \in Seq(S), NEW e \in S
    PROVE  /\ Append(s, e) \in Seq(S)
           /\ Len(Append(s, e)) = Len(s) + 1
           /\ DOMAIN Append(s, e) = 1..(Len(s) + 1)
           /\ DOMAIN s = 1..Len(s)
           /\ Len(s) \in Nat
           /\ \A k \in 1..Len(s) : Append(s, e)[k] = s[k]
           /\ Append(s, e)[Len(s) + 1] = e
  OBVIOUS

(* The events of a file after one more line.                               *)
LEMMA EventsOfAppend ==
    ASSUME NEW S, NEW s \in Seq(S), NEW e \in S
    PROVE  EventsOf(Append(s, e)) = EventsOf(s) \cup {e}
  <1>1. EventsOf(Append(s, e)) \subseteq EventsOf(s) \cup {e}
    BY AppendFacts DEF EventsOf
  <1>2. EventsOf(s) \subseteq EventsOf(Append(s, e))
    <2>1. SUFFICES ASSUME NEW k \in DOMAIN s PROVE s[k] \in EventsOf(Append(s, e))
      BY DEF EventsOf
    <2>2. k \in DOMAIN Append(s, e) /\ Append(s, e)[k] = s[k]
      BY <2>1, AppendFacts
    <2>3. QED BY <2>2 DEF EventsOf
  <1>3. e \in EventsOf(Append(s, e))
    <2>1. Len(s) + 1 \in DOMAIN Append(s, e) /\ Append(s, e)[Len(s) + 1] = e
      BY AppendFacts
    <2>2. QED BY <2>1 DEF EventsOf
  <1>4. QED BY <1>1, <1>2, <1>3

(* Every event readable from a file is an event.                           *)
LEMMA StoredTyped == TypeOK => Stored \subseteq Event
  BY DEF TypeOK, Stored, Readable, EventsOf

(* With unique ids an id leads to one event, wherever it is read.          *)
LEMMA StoredUnique ==
    ASSUME GlobalIdempotency, NEW e \in Stored, NEW f \in Stored, e.id = f.id
    PROVE  e = f
  <1>1. PICK q \in Partitions : \E j \in DOMAIN raw[q] : e = raw[q][j]
    BY DEF Stored, Readable, EventsOf
  <1>2. PICK r \in Partitions : \E k \in DOMAIN raw[r] : f = raw[r][k]
    BY DEF Stored, Readable, EventsOf
  <1>3. QED BY <1>1, <1>2 DEF GlobalIdempotency

(* An event is stored exactly when its own partition holds it.             *)
LEMMA StoredInPlace ==
    ASSUME TypeOK, InPlace, NEW e \in Event
    PROVE  e \in Stored <=> e \in EventsOf(raw[e.part])
  <1>1. e.part \in Partitions
    BY DEF Event
  <1>2. ASSUME e \in Stored PROVE e \in EventsOf(raw[e.part])
    <2>1. PICK q \in Partitions : \E j \in DOMAIN raw[q] : e = raw[q][j]
      BY <1>2 DEF Stored, Readable, EventsOf
    <2>2. q = e.part
      BY <2>1 DEF InPlace
    <2>3. QED BY <2>1, <2>2 DEF EventsOf
  <1>3. ASSUME e \in EventsOf(raw[e.part]) PROVE e \in Stored
    BY <1>1, <1>3 DEF Stored, Readable
  <1>4. QED BY <1>2, <1>3

(* RefreshedIndex maps an id to the stored event, to None if there is none. *)
LEMMA IndexFacts ==
    ASSUME TypeOK, NEW p
    PROVE  /\ RefreshedIndex(p) \in [EventIds -> Event \cup {None}]
           /\ \A i \in EventIds :
                 /\ RefreshedIndex(p)[i] = None => \A e \in Stored : e.id # i
                 /\ RefreshedIndex(p)[i] # None =>
                       RefreshedIndex(p)[i] \in Stored /\ RefreshedIndex(p)[i].id = i
  <1>1. Stored \subseteq Event
    BY StoredTyped
  <1>2. ASSUME NEW i \in EventIds
        PROVE  /\ RefreshedIndex(p)[i] \in Event \cup {None}
               /\ RefreshedIndex(p)[i] = None => \A e \in Stored : e.id # i
               /\ RefreshedIndex(p)[i] # None =>
                       RefreshedIndex(p)[i] \in Stored /\ RefreshedIndex(p)[i].id = i
    <2>1. CASE \E e \in Stored : e.id = i
      <3>1. RefreshedIndex(p)[i] = CHOOSE e \in Stored : e.id = i
        BY <2>1 DEF RefreshedIndex, IndexOf, Stored
      <3>2. RefreshedIndex(p)[i] \in Stored /\ RefreshedIndex(p)[i].id = i
        BY <2>1, <3>1
      <3>3. QED BY <1>1, <3>2, StoreAssumption DEF Event
    <2>2. CASE ~ \E e \in Stored : e.id = i
      BY <2>2 DEF RefreshedIndex, IndexOf, Stored
    <2>3. QED BY <2>1, <2>2
  <1>3. RefreshedIndex(p) = [i \in EventIds |-> RefreshedIndex(p)[i]]
    BY DEF RefreshedIndex, IndexOf
  <1>4. QED BY <1>2, <1>3
(* The index of any set of partitions is an index.                         *)
LEMMA PartialIndexTyped ==
    ASSUME TypeOK, NEW Q \in SUBSET Partitions
    PROVE  IndexOf(Q) \in [EventIds -> Event \cup {None}]
  <1>1. Readable(Q) \subseteq Event
    BY DEF TypeOK, Readable, EventsOf
  <1>2. ASSUME NEW i \in EventIds, \E e \in Readable(Q) : e.id = i
        PROVE  (CHOOSE e \in Readable(Q) : e.id = i) \in Event
    BY <1>1, <1>2
  <1>3. QED BY <1>2 DEF IndexOf

-----------------------------------------------------------------------------
(* The classification of a batch against an index. *)

(* A nonempty set of naturals has a least element.                         *)
LEMMA LeastNatural ==
    ASSUME NEW T, T \subseteq Nat, T # {}
    PROVE  \E n \in T : \A m \in T : n <= m
  <1> DEFINE R == OpToRel(<, Nat)
  <1>1. \A x, y \in Nat : x < y => <<x, y>> \in R
    BY DEF OpToRel
  <1>2. IsWellFoundedOn(R, Nat)
    BY NatLessThanWellFounded
  <1> HIDE DEF R
  <1>3. PICK n \in T : \A m \in T : ~ (<<m, n>> \in R)
    BY <1>2, WFMin
  <1>4. ASSUME NEW m \in T PROVE n <= m
    <2>1. m \in Nat /\ n \in Nat /\ ~ (m < n)
      BY <1>1, <1>3, <1>4
    <2>2. QED BY <2>1
  <1>5. QED BY <1>4

(* The positions of a batch, and what stands there.                        *)
LEMMA BatchFacts ==
    ASSUME NEW b \in Seq(Event)
    PROVE  /\ DOMAIN b = 1..Len(b)
           /\ Len(b) \in Nat
           /\ \A j \in DOMAIN b : /\ b[j] \in Event
                                  /\ b[j].id \in EventIds
                                  /\ b[j].part \in Partitions
  <1>1. DOMAIN b = 1..Len(b) /\ Len(b) \in Nat
    OBVIOUS
  <1>2. \A j \in DOMAIN b : b[j] \in Event
    BY <1>1
  <1>3. \A e \in Event : e.id \in EventIds /\ e.part \in Partitions
    BY DEF Event
  <1>4. QED BY <1>1, <1>2, <1>3

(* The content that wins an id is stored already, or is the first one of   *)
(* the batch and will be appended.                                         *)
LEMMA WinnerFacts ==
    ASSUME TypeOK, NEW p, NEW b \in Seq(Event), NEW k \in DOMAIN b
    PROVE  LET ix == RefreshedIndex(p)  w == Winner(ix, b, k)
           IN  /\ w \in Event
               /\ w.id = b[k].id
               /\ w \in Stored \/ \E j \in ToAppend(ix, b) : b[j] = w
  <1> DEFINE ix == RefreshedIndex(p)
  <1>0. /\ DOMAIN b = 1..Len(b)
        /\ Len(b) \in Nat
        /\ \A j \in DOMAIN b : b[j] \in Event /\ b[j].id \in EventIds
    BY BatchFacts
  <1>1. CASE ix[b[k].id] # None
    <2>1. ix[b[k].id] \in Stored /\ ix[b[k].id].id = b[k].id
      BY <1>0, <1>1, IndexFacts
    <2>2. Winner(ix, b, k) = ix[b[k].id]
      BY <1>1 DEF Winner
    <2>3. QED BY <2>1, <2>2, StoredTyped
  <1>2. CASE ix[b[k].id] = None
    <2> DEFINE Same == {j \in DOMAIN b : b[j].id = b[k].id}
    <2>1. Same \subseteq Nat /\ Same # {}
      BY <1>0
    <2>2. PICK n \in Same : \A m \in Same : n <= m
      BY <2>1, LeastNatural
    <2>3. FirstAt(ix, b, n)
      <3>1. ASSUME NEW j \in 1..(n - 1), b[j].id = b[n].id PROVE FALSE
        <4>1. j \in Same
          BY <1>0, <2>2, <3>1
        <4>2. QED BY <1>0, <2>2, <3>1, <4>1
      <3>2. QED BY <1>2, <2>2, <3>1 DEF FirstAt
    <2> DEFINE First == CHOOSE j \in DOMAIN b : b[j].id = b[k].id /\ FirstAt(ix, b, j)
    <2>4. First \in DOMAIN b /\ b[First].id = b[k].id /\ FirstAt(ix, b, First)
      BY <2>2, <2>3
    <2>5. Winner(ix, b, k) = b[First]
      BY <1>2 DEF Winner
    <2>6. First \in ToAppend(ix, b)
      BY <2>4 DEF ToAppend
    <2>7. QED BY <1>0, <2>4, <2>5, <2>6
  <1>3. QED BY <1>1, <1>2

(* What BeginIngest computes from a fresh index classifies the batch.      *)
LEMMA ClassifyFacts ==
    ASSUME TypeOK, NEW p, NEW b \in Seq(Event)
    PROVE  LET ix == RefreshedIndex(p)
           IN  /\ ToAppend(ix, b) \subseteq Nat
               /\ ConflictsIn(ix, b) \subseteq Conflict
               /\ Classified(b, ToAppend(ix, b), ConflictsIn(ix, b))
  <1> DEFINE ix == RefreshedIndex(p)
             T == ToAppend(ix, b)
             C == ConflictsIn(ix, b)
  <1>0. /\ DOMAIN b = 1..Len(b)
        /\ Len(b) \in Nat
        /\ \A j \in DOMAIN b : b[j] \in Event /\ b[j].id \in EventIds
    BY BatchFacts
  <1>1. T \subseteq DOMAIN b /\ T \subseteq Nat
    BY <1>0 DEF ToAppend
  <1>2. \A j, k \in T : b[j].id = b[k].id => j = k
    <2>1. ASSUME NEW j \in T, NEW k \in T, b[j].id = b[k].id, j < k PROVE FALSE
      <3>1. j \in 1..(k - 1)
        BY <1>0, <1>1, <2>1
      <3>2. FirstAt(ix, b, k)
        BY DEF ToAppend
      <3>3. QED BY <2>1, <3>1, <3>2 DEF FirstAt
    <2>2. \A j, k \in T : b[j].id = b[k].id => ~(j < k) /\ ~(k < j)
      BY <2>1
    <2>3. QED BY <1>1, <2>2
  <1>3. \A k \in T : \A e \in Stored : e.id # b[k].id
    BY <1>0, IndexFacts DEF ToAppend, FirstAt
  <1>4. ASSUME NEW k \in DOMAIN b
        PROVE  \/ \E c \in C : c.event = b[k]
               \/ b[k] \in Stored
               \/ \E j \in T : b[j] = b[k]
    <2>1. CASE b[k] = Winner(ix, b, k)
      BY <2>1, WinnerFacts
    <2>2. CASE b[k] # Winner(ix, b, k)
      <3>1. [event |-> b[k], existing |-> Winner(ix, b, k)] \in C
        BY <2>2 DEF ConflictsIn
      <3>2. QED BY <3>1
    <2>3. QED BY <2>1, <2>2
  <1>5. ASSUME NEW c \in C
        PROVE  /\ c \in Conflict
               /\ c.event.id = c.existing.id
               /\ c.event # c.existing
               /\ c.existing \in Stored \/ \E j \in T : b[j] = c.existing
    <2>1. PICK k \in DOMAIN b : /\ c = [event |-> b[k], existing |-> Winner(ix, b, k)]
                               /\ b[k] # Winner(ix, b, k)
      BY DEF ConflictsIn
    <2>2. Winner(ix, b, k) \in Event /\ Winner(ix, b, k).id = b[k].id
      BY WinnerFacts
    <2>3. Winner(ix, b, k) \in Stored \/ \E j \in T : b[j] = Winner(ix, b, k)
      BY WinnerFacts
    <2>4. QED BY <1>0, <2>1, <2>2, <2>3 DEF Conflict
  <1>6. Classified(b, T, C)
    <2> HIDE DEF T, C
    <2>1. QED BY <1>1, <1>2, <1>3, <1>4, <1>5 DEF Classified
  <1>7. QED BY <1>1, <1>5, <1>6
-----------------------------------------------------------------------------
(* Parts of the invariant that a step leaves alone. *)

(* A step that leaves the raw files alone stores nothing.                  *)
LEMMA RawFrame ==
    ASSUME raw' = raw
    PROVE  /\ Stored' = Stored
           /\ InPlace => InPlace'
           /\ GlobalIdempotency => GlobalIdempotency'
  BY DEF Stored, Readable, EventsOf, InPlace, GlobalIdempotency

(* Nor does it disturb what was reported or quarantined before.            *)
LEMMA LedgerFrame ==
    ASSUME UNCHANGED <<raw, acked, quarantine>>, AckedStored, QuarantineJustified
    PROVE  AckedStored' /\ QuarantineJustified'
  BY DEF AckedStored, QuarantineJustified, EventsOf

(* Derived files are right as long as neither they nor raw files change.   *)
LEMMA DerivedFrame ==
    ASSUME UNCHANGED <<raw, manifest, compacted>>, DerivedFromRaw
    PROVE  DerivedFromRaw'
  BY DEF DerivedFromRaw, EventsOf

(* The empty operation has the type of an operation.                        *)
LEMMA NoOpTyped ==
    NoOp \in [batch : Seq(Event), todo : SUBSET Nat, conflicts : SUBSET Conflict,
              at : Nat, parts : SUBSET Partitions]
  <1>1. <<>> \in Seq(Event)
    OBVIOUS
  <1>2. QED BY <1>1 DEF NoOp

(* After Release nobody holds the lock and no operation is under way.      *)
LEMMA ReleaseFacts ==
    ASSUME Release
    PROVE  HolderInv' /\ RecoverInv'
  BY DEF Release, HolderInv, RecoverInv, IngestPcs

(* An empty store satisfies the invariant.                                  *)
LEMMA InitStoreInv == Init => StoreInv
  <1> SUFFICES ASSUME Init PROVE StoreInv
    OBVIOUS
  <1>1. TypeOK
    <2>1. \A q \in Partitions : raw[q] \in Seq(Event)
      BY DEF Init
    <2>2. op \in [batch : Seq(Event), todo : SUBSET Nat, conflicts : SUBSET Conflict,
                  at : Nat, parts : SUBSET Partitions]
      BY NoOpTyped DEF Init
    <2>3. QED BY <2>1, <2>2 DEF Init, TypeOK, Tails
  <1>2. \A q \in Partitions : DOMAIN raw[q] = {}
    BY DEF Init
  <1>3. InPlace /\ GlobalIdempotency
    BY <1>2 DEF InPlace, GlobalIdempotency
  <1>4. LinesInv /\ HolderInv /\ RecoverInv
    BY DEF Init, LinesInv, HolderInv, RecoverInv, IngestPcs
  <1>5. AckedStored /\ QuarantineJustified /\ DerivedFromRaw
    BY DEF Init, AckedStored, QuarantineJustified, DerivedFromRaw
  <1>6. QED BY <1>1, <1>3, <1>4, <1>5 DEF StoreInv
-----------------------------------------------------------------------------
(* One lemma per action: it preserves the invariant. *)

(* The constructor only reads files: it disturbs an index, no more.         *)
LEMMA OpenInv ==
    ASSUME StoreInv, NEW p \in Procs, Open(p)
    PROVE  StoreInv'
  <1>1. TypeOK'
    BY IndexFacts DEF StoreInv, TypeOK, Open, disk
  <1>2. UNCHANGED <<raw, tail, junk, manifest, compacted, acked, quarantine, lock, pc, op>>
    BY DEF Open, disk
  <1>3. LinesInv' /\ HolderInv' /\ RecoverInv'
    BY <1>2, RawFrame DEF StoreInv, LinesInv, HolderInv, BatchInv, Classified, RecoverInv, RawExists,
                           Malformed
  <1>4. QED BY <1>1, <1>2, <1>3, RawFrame, LedgerFrame, DerivedFrame DEF StoreInv

(* A crash keeps the files and drops the lock with the operation.           *)
LEMMA CrashInv ==
    ASSUME StoreInv, NEW p \in Procs, Crash(p)
    PROVE  StoreInv'
  <1>1. TypeOK'
    BY NoOpTyped DEF StoreInv, TypeOK, Crash, Release, disk
  <1>2. UNCHANGED <<raw, tail, junk, manifest, compacted, acked, quarantine>>
    BY DEF Crash, disk
  <1>3. LinesInv'
    BY <1>2 DEF StoreInv, LinesInv
  <1>4. HolderInv' /\ RecoverInv'
    <2>1. CASE lock = p
      BY <2>1, ReleaseFacts DEF Crash
    <2>2. CASE lock # p
      <3>1. UNCHANGED <<lock, pc, op>>
        BY <2>2 DEF Crash
      <3>2. QED BY <1>2, <3>1, RawFrame DEF StoreInv, HolderInv, BatchInv, Classified, RecoverInv,
                                            RawExists, Malformed
    <2>3. QED BY <2>1, <2>2
  <1>5. QED BY <1>1, <1>2, <1>3, <1>4, RawFrame, LedgerFrame, DerivedFrame DEF StoreInv

(* A failed write leaves through the lock with the files as they are.       *)
LEMMA FailWriteInv ==
    ASSUME StoreInv, FailWrite
    PROVE  StoreInv'
  <1>1. TypeOK'
    BY NoOpTyped DEF StoreInv, TypeOK, FailWrite, Release, disk
  <1>2. UNCHANGED <<raw, tail, junk, manifest, compacted, acked, quarantine>>
    BY DEF FailWrite, disk
  <1>3. LinesInv'
    BY <1>2 DEF StoreInv, LinesInv
  <1>4. HolderInv' /\ RecoverInv'
    BY ReleaseFacts DEF FailWrite
  <1>5. QED BY <1>1, <1>2, <1>3, <1>4, RawFrame, LedgerFrame, DerivedFrame DEF StoreInv

(* ingest() classifies its batch against what is stored at that moment.     *)
LEMMA BeginIngestInv ==
    ASSUME StoreInv, NEW p \in Procs, NEW b \in Batches, BeginIngest(p, b)
    PROVE  StoreInv'
  <1> DEFINE ix == RefreshedIndex(p)
             T == ToAppend(ix, b)
             C == ConflictsIn(ix, b)
  <1>0. b \in Seq(Event) /\ TypeOK
    BY StoreAssumption DEF Event, StoreInv
  <1>1. op' = [batch |-> b, todo |-> T, conflicts |-> C, at |-> 0, parts |-> {}]
    BY DEF BeginIngest, NoOp
  <1>2. T \subseteq Nat /\ C \subseteq Conflict
    BY <1>0, ClassifyFacts
  <1>3. TypeOK'
    <2>1. op' \in [batch : Seq(Event), todo : SUBSET Nat, conflicts : SUBSET Conflict,
                   at : Nat, parts : SUBSET Partitions]
      BY <1>0, <1>1, <1>2
    <2>2. index' \in [Procs -> [EventIds -> Event \cup {None}]]
      BY <1>0, IndexFacts DEF TypeOK, BeginIngest
    <2>3. QED BY <1>0, <2>1, <2>2 DEF TypeOK, BeginIngest, disk
  <1>4. UNCHANGED <<raw, tail, junk, manifest, compacted, acked, quarantine>>
    BY DEF BeginIngest, disk
  <1>5. Stored' = Stored
    BY <1>4, RawFrame
  <1>6. /\ op'.batch = b
        /\ op'.todo = T
        /\ op'.conflicts = C
    BY <1>1
  <1>7. BatchInv'
    <2>1. Classified(b, T, C)
      BY <1>0, ClassifyFacts
    <2> HIDE DEF T, C
    <2>2. QED BY <1>5, <1>6, <2>1 DEF BatchInv, Classified
  <1>8. HolderInv'
    <2>1. pc' \in {"quarantine", "append"} /\ (pc' = "quarantine" => T = {})
      BY DEF BeginIngest
    <2>2. lock' # None
      BY StoreAssumption DEF BeginIngest
    <2>3. QED BY <1>6, <1>7, <2>1, <2>2 DEF HolderInv
  <1>9. LinesInv' /\ RecoverInv'
    <2>1. pc' \in {"quarantine", "append"}
      BY DEF BeginIngest
    <2>2. QED BY <1>4, <2>1 DEF StoreInv, LinesInv, RecoverInv
  <1>10. QED BY <1>3, <1>4, <1>8, <1>9, RawFrame, LedgerFrame, DerivedFrame DEF StoreInv

(* ingest() that raises on a malformed partition changes its index only.    *)
LEMMA IngestRefusedInv ==
    ASSUME StoreInv, NEW p \in Procs, IngestRefused(p)
    PROVE  StoreInv'
  <1>1. UNCHANGED <<raw, tail, junk, manifest, compacted, compaction, acked, quarantine,
                    lock, pc, op, alive, faults>>
    BY DEF IngestRefused, disk
  <1>2. TypeOK'
    <2>1. \A Q \in SUBSET Partitions : IndexOf(Q) \in [EventIds -> Event \cup {None}]
      BY PartialIndexTyped DEF StoreInv
    <2>2. index' \in [Procs -> [EventIds -> Event \cup {None}]]
      BY <2>1 DEF IngestRefused, StoreInv, TypeOK
    <2>3. QED BY <1>1, <2>2 DEF StoreInv, TypeOK
  <1>3. LinesInv' /\ HolderInv' /\ RecoverInv'
    BY <1>1, RawFrame DEF StoreInv, LinesInv, HolderInv, BatchInv, Classified, RecoverInv, RawExists,
                           Malformed
  <1>4. QED BY <1>1, <1>2, <1>3, RawFrame, LedgerFrame, DerivedFrame DEF StoreInv

(* While the holder ingests, its batch position is typed.                  *)
LEMMA HolderFacts ==
    ASSUME StoreInv
    PROVE  /\ op.batch \in Seq(Event)
           /\ \A k \in op.todo : pc \in IngestPcs => k \in DOMAIN op.batch /\ k \in Nat
           /\ \A k \in DOMAIN op.batch : /\ op.batch[k] \in Event
                                         /\ op.batch[k].id \in EventIds
                                         /\ op.batch[k].part \in Partitions
  <1>1. op.batch \in Seq(Event) /\ op.todo \subseteq Nat
    BY DEF StoreInv, TypeOK
  <1>2. pc \in IngestPcs => op.todo \subseteq DOMAIN op.batch
    BY DEF StoreInv, HolderInv, BatchInv, Classified
  <1>3. QED BY <1>1, <1>2, BatchFacts

(* Starting a line tears the end of one file and changes no event.          *)
LEMMA AppendStartInv ==
    ASSUME StoreInv, AppendStart
    PROVE  StoreInv'
  <1>1. PICK k \in op.todo :
            LET q == op.batch[k].part IN
            /\ op' = [op EXCEPT !.at = k]
            /\ IF tail[q] = "unterminated"
               THEN /\ raw' = [raw EXCEPT ![q] = SubSeq(@, 1, Len(@) - 1)]
                    /\ tail' = [tail EXCEPT ![q] = "merged"]
               ELSE tail' = [tail EXCEPT ![q] = "torn"] /\ raw' = raw
    BY DEF AppendStart
  <1> DEFINE q == op.batch[k].part
  <1>2. k \in DOMAIN op.batch /\ k \in Nat /\ q \in Partitions
    BY HolderFacts DEF AppendStart, IngestPcs
  <1>3. /\ op' = [op EXCEPT !.at = k]
        /\ tail' = [tail EXCEPT ![q] = "torn"]
        /\ raw' = raw
    BY <1>1, <1>2 DEF StoreInv, LinesInv
  <1>4. UNCHANGED <<junk, manifest, compacted, compaction, quarantine, alive, index, lock,
                    faults, acked>> /\ pc = "append" /\ pc' = "writing"
    BY DEF AppendStart
  <1>5. TypeOK /\ TypeOK'
    BY <1>2, <1>3, <1>4 DEF StoreInv, TypeOK, Tails
  <1>6. LinesInv'
    BY <1>2, <1>3, <1>4 DEF StoreInv, LinesInv, TypeOK
  <1>7. /\ op'.batch = op.batch
        /\ op'.todo = op.todo
        /\ op'.conflicts = op.conflicts
        /\ op'.at = k
        /\ tail'[q] = "torn"
    BY <1>2, <1>3, <1>5 DEF TypeOK
  <1>8. HolderInv' /\ RecoverInv'
    BY <1>3, <1>4, <1>7, RawFrame DEF StoreInv, HolderInv, BatchInv, Classified, RecoverInv,
                                      IngestPcs
  <1>9. QED BY <1>3, <1>4, <1>5, <1>6, <1>8, RawFrame, LedgerFrame, DerivedFrame DEF StoreInv

(* What appending one new event to the file of its partition preserves.    *)
LEMMA AppendPreserves ==
    ASSUME StoreInv, NEW e \in Event, \A f \in Stored : f.id # e.id,
           raw' = [raw EXCEPT ![e.part] = Append(@, e)],
           UNCHANGED <<manifest, compacted, acked, quarantine>>
    PROVE  /\ raw' \in [Partitions -> Seq(Event)]
           /\ Stored' = Stored \cup {e}
           /\ InPlace' /\ GlobalIdempotency'
           /\ AckedStored' /\ QuarantineJustified' /\ DerivedFromRaw'
  <1> DEFINE n == Len(raw[e.part]) + 1
  <1>0. TypeOK /\ InPlace /\ GlobalIdempotency /\ e.part \in Partitions
    BY DEF StoreInv, Event
  <1>1. /\ raw \in [Partitions -> Seq(Event)]
        /\ raw'[e.part] = Append(raw[e.part], e)
        /\ \A q \in Partitions : q # e.part => raw'[q] = raw[q]
    BY <1>0 DEF TypeOK
  <1>2. \A q \in Partitions :
            /\ Len(raw[q]) \in Nat
            /\ DOMAIN raw[q] = 1..Len(raw[q])
            /\ DOMAIN raw[q] \subseteq DOMAIN raw'[q]
            /\ Len(raw[q]) <= Len(raw'[q])
            /\ \A k \in DOMAIN raw[q] : raw'[q][k] = raw[q][k]
            /\ \A k \in DOMAIN raw'[q] :
                  k \in DOMAIN raw[q] \/ (q = e.part /\ k = n /\ raw'[q][k] = e)
    <2>1. SUFFICES ASSUME NEW q \in Partitions
                   PROVE  /\ Len(raw[q]) \in Nat
                          /\ DOMAIN raw[q] = 1..Len(raw[q])
                          /\ DOMAIN raw[q] \subseteq DOMAIN raw'[q]
                          /\ Len(raw[q]) <= Len(raw'[q])
                          /\ \A k \in DOMAIN raw[q] : raw'[q][k] = raw[q][k]
                          /\ \A k \in DOMAIN raw'[q] :
                                k \in DOMAIN raw[q] \/ (q = e.part /\ k = n /\ raw'[q][k] = e)
      OBVIOUS
    <2>2. raw[q] \in Seq(Event)
      BY <1>1
    <2>3. CASE q = e.part
      BY <1>1, <2>2, <2>3, AppendFacts
    <2>4. CASE q # e.part
      BY <1>1, <2>2, <2>4
    <2>5. QED BY <2>3, <2>4
  <1>3. \A q \in Partitions : EventsOf(raw'[q]) = EventsOf(raw[q]) \cup
                                                  (IF q = e.part THEN {e} ELSE {})
    BY <1>0, <1>1, EventsOfAppend
  <1>4. Stored' = Stored \cup {e}
    <2>1. \A f : f \in Stored <=> \E q \in Partitions : f \in EventsOf(raw[q])
      BY DEF Stored, Readable
    <2>2. \A f : f \in Stored' <=> \E q \in Partitions : f \in EventsOf(raw'[q])
      BY DEF Stored, Readable, EventsOf
    <2>3. e \in Stored'
      BY <1>0, <1>3, <2>2
    <2>4. Stored \subseteq Stored'
      BY <1>3, <2>1, <2>2
    <2>5. Stored' \subseteq Stored \cup {e}
      BY <1>3, <2>1, <2>2
    <2>6. QED BY <2>3, <2>4, <2>5
  <1>5. raw' \in [Partitions -> Seq(Event)]
    BY <1>0, <1>1, AppendFacts
  <1>6. InPlace'
    BY <1>0, <1>2 DEF InPlace
  <1>7. GlobalIdempotency'
    <2>1. \A q \in Partitions : \A k \in DOMAIN raw[q] : raw[q][k].id # e.id
      BY DEF Stored, Readable, EventsOf
    <2>2. SUFFICES ASSUME NEW q \in Partitions, NEW r \in Partitions,
                          NEW j \in DOMAIN raw'[q], NEW k \in DOMAIN raw'[r],
                          raw'[q][j].id = raw'[r][k].id
                   PROVE  q = r /\ j = k
      BY DEF GlobalIdempotency
    <2>3. CASE j \in DOMAIN raw[q] /\ k \in DOMAIN raw[r]
      BY <1>0, <1>2, <2>2, <2>3 DEF GlobalIdempotency
    <2>4. CASE j \notin DOMAIN raw[q] /\ k \notin DOMAIN raw[r]
      BY <1>2, <2>4
    <2>5. CASE j \in DOMAIN raw[q] /\ k \notin DOMAIN raw[r]
      BY <1>2, <2>1, <2>2, <2>5
    <2>6. CASE j \notin DOMAIN raw[q] /\ k \in DOMAIN raw[r]
      BY <1>2, <2>1, <2>2, <2>6
    <2>7. QED BY <2>3, <2>4, <2>5, <2>6
  <1>8. \A f \in Event : f \in EventsOf(raw[f.part]) => f \in EventsOf(raw'[f.part])
    BY <1>3 DEF Event
  <1>9. AckedStored'
    BY <1>0, <1>8 DEF StoreInv, TypeOK, AckedStored
  <1>10. QuarantineJustified'
    <2>1. \A c \in quarantine : c.existing \in Event
      BY <1>0 DEF TypeOK, Conflict
    <2>2. QED BY <1>8, <2>1 DEF StoreInv, QuarantineJustified
  <1>11. DerivedFromRaw'
    <2>1. SUFFICES ASSUME NEW q \in Partitions
                   PROVE  /\ manifest[q] # None =>
                                /\ Len(manifest[q]) <= Len(raw'[q])
                                /\ \A k \in DOMAIN manifest[q] : manifest[q][k] = raw'[q][k]
                          /\ compacted[q] \subseteq EventsOf(raw'[q])
      BY DEF DerivedFromRaw
    <2>2. compacted[q] \subseteq EventsOf(raw'[q])
      BY <1>3 DEF StoreInv, DerivedFromRaw
    <2>3. ASSUME manifest[q] # None
          PROVE  /\ Len(manifest[q]) <= Len(raw'[q])
                 /\ \A k \in DOMAIN manifest[q] : manifest[q][k] = raw'[q][k]
      <3>1. /\ Len(manifest[q]) <= Len(raw[q])
            /\ \A k \in DOMAIN manifest[q] : manifest[q][k] = raw[q][k]
        BY <2>3 DEF StoreInv, DerivedFromRaw
      <3>2. manifest[q] \in Seq(Event)
        BY <1>0, <2>3 DEF TypeOK
      <3>3. /\ DOMAIN manifest[q] = 1..Len(manifest[q]) /\ Len(manifest[q]) \in Nat
            /\ raw'[q] \in Seq(Event) /\ Len(raw'[q]) \in Nat
        BY <1>5, <3>2
      <3>4. DOMAIN manifest[q] \subseteq DOMAIN raw[q]
        BY <1>2, <3>1, <3>3
      <3>5. QED BY <1>2, <3>1, <3>3, <3>4
    <2>4. QED BY <2>2, <2>3
  <1>12. QED BY <1>4, <1>5, <1>6, <1>7, <1>9, <1>10, <1>11

(* Ending a line stores one new event in its own partition.                 *)
LEMMA AppendDoneInv ==
    ASSUME StoreInv, AppendDone
    PROVE  StoreInv'
  <1> DEFINE e == op.batch[op.at]
             rest == op.todo \ {op.at}
  <1>0. TypeOK /\ InPlace /\ GlobalIdempotency /\ BatchInv /\ op.at \in op.todo
        /\ tail[e.part] = "torn" /\ pc = "writing"
    BY DEF StoreInv, AppendDone, HolderInv, IngestPcs
  <1>1. op.at \in DOMAIN op.batch /\ e \in Event /\ e.id \in EventIds /\ e.part \in Partitions
    BY <1>0, HolderFacts DEF IngestPcs
  <1>2. /\ raw' = [raw EXCEPT ![e.part] = Append(@, e)]
        /\ junk' = junk
        /\ tail' = [tail EXCEPT ![e.part] = "closed"]
        /\ op' = [op EXCEPT !.todo = rest]
        /\ pc' \in {"append", "manifest"}
        /\ UNCHANGED <<manifest, compacted, compaction, quarantine, alive, lock, faults, acked>>
    BY <1>0 DEF AppendDone
  <1>3. \A f \in Stored : f.id # e.id
    BY <1>0 DEF BatchInv, Classified
  <1>4. /\ raw' \in [Partitions -> Seq(Event)]
        /\ Stored' = Stored \cup {e}
        /\ InPlace' /\ GlobalIdempotency'
        /\ AckedStored' /\ QuarantineJustified' /\ DerivedFromRaw'
    <2> HIDE DEF e
    <2>1. QED BY <1>1, <1>2, <1>3, AppendPreserves
  <1>5. TypeOK'
    <2>1. lock \in Procs
      BY <1>0 DEF StoreInv, HolderInv, TypeOK
    <2>2. index' \in [Procs -> [EventIds -> Event \cup {None}]]
      <3>1. Group(e.part) \subseteq Event
        BY HolderFacts DEF Group, ToAppend
      <3>2. ASSUME NEW i \in EventIds, \E f \in Group(e.part) : f.id = i
            PROVE  (CHOOSE f \in Group(e.part) : f.id = i) \in Event
        BY <3>1, <3>2
      <3>3. QED BY <1>0, <2>1, <3>2 DEF TypeOK, AppendDone
    <2>3. op' \in [batch : Seq(Event), todo : SUBSET Nat, conflicts : SUBSET Conflict,
                   at : Nat, parts : SUBSET Partitions]
      BY <1>0, <1>2 DEF TypeOK
    <2>4. tail' \in [Partitions -> Tails] /\ pc' \in {"append", "manifest"}
      BY <1>0, <1>1, <1>2 DEF TypeOK, Tails
    <2>5. QED BY <1>0, <1>2, <1>4, <2>2, <2>3, <2>4 DEF TypeOK
  <1>6. LinesInv'
    BY <1>0, <1>1, <1>2 DEF StoreInv, LinesInv, TypeOK
  <1>7. op'.batch = op.batch /\ op'.todo = rest /\ op'.conflicts = op.conflicts
        /\ op'.at = op.at
    BY <1>0, <1>2 DEF TypeOK
  <1>8. BatchInv'
    <2>1. Classified(op.batch, op.todo, op.conflicts)
      BY <1>0 DEF BatchInv
    <2>2. \A k \in rest : k \in op.todo /\ op.batch[k].id # e.id
      BY <1>0, <2>1 DEF Classified
    <2>3. \A k \in rest : \A f \in Stored' : f.id # op.batch[k].id
      BY <1>4, <2>1, <2>2 DEF Classified
    <2>4. \A x : (\E j \in op.todo : op.batch[j] = x) =>
                 x \in Stored' \/ \E j \in rest : op.batch[j] = x
      BY <1>4
    <2>5. Stored \subseteq Stored'
      BY <1>4
    <2> HIDE DEF rest, e
    <2>6. ASSUME NEW k \in DOMAIN op.batch
          PROVE  \/ \E c \in op.conflicts : c.event = op.batch[k]
                 \/ op.batch[k] \in Stored'
                 \/ \E j \in rest : op.batch[j] = op.batch[k]
      BY <2>1, <2>4, <2>5 DEF Classified
    <2>7. ASSUME NEW c \in op.conflicts
          PROVE  /\ c.event.id = c.existing.id
                 /\ c.event # c.existing
                 /\ c.existing \in Stored' \/ \E j \in rest : op.batch[j] = c.existing
      BY <2>1, <2>4, <2>5 DEF Classified
    <2>8. /\ rest \subseteq DOMAIN op.batch
          /\ \A j, k \in rest : op.batch[j].id = op.batch[k].id => j = k
      BY <2>1, <2>2 DEF Classified
    <2>9. QED BY <1>7, <2>3, <2>6, <2>7, <2>8 DEF BatchInv, Classified
  <1>9. HolderInv'
    <2>1. pc' \in {"append", "manifest"} /\ lock' = lock /\ lock # None
      BY <1>0, <1>2 DEF StoreInv, HolderInv
    <2>2. QED BY <1>1, <1>7, <1>8, <2>1 DEF HolderInv
  <1>10. RecoverInv'
    BY <1>2 DEF RecoverInv
  <1>11. QED BY <1>4, <1>5, <1>6, <1>9, <1>10 DEF StoreInv

(* No write stops before its newline under the assumption.                  *)
LEMMA AppendUnterminatedInv ==
    ASSUME ~TearAtNewline, StoreInv, AppendUnterminated
    PROVE  StoreInv'
  BY DEF AppendUnterminated

(* A manifest equal to its raw file is right.                              *)
LEMMA ManifestWritten ==
    ASSUME TypeOK, DerivedFromRaw, NEW q \in Partitions, UNCHANGED <<raw, compacted>>,
           manifest' = [manifest EXCEPT ![q] = raw[q]]
    PROVE  DerivedFromRaw' /\ manifest' \in [Partitions -> Seq(Event) \cup {None}]
  <1>1. \A r \in Partitions : raw[r] \in Seq(Event) /\ Len(raw[r]) \in Nat
    BY DEF TypeOK
  <1>2. manifest'[q] = raw[q] /\ \A r \in Partitions : r # q => manifest'[r] = manifest[r]
    BY DEF TypeOK
  <1>3. manifest' \in [Partitions -> Seq(Event) \cup {None}]
    BY <1>1 DEF TypeOK
  <1>4. DerivedFromRaw'
    <2>1. SUFFICES ASSUME NEW r \in Partitions
                   PROVE  /\ manifest'[r] # None =>
                                /\ Len(manifest'[r]) <= Len(raw[r])
                                /\ \A k \in DOMAIN manifest'[r] : manifest'[r][k] = raw[r][k]
                          /\ compacted[r] \subseteq EventsOf(raw[r])
      BY DEF DerivedFromRaw, EventsOf
    <2>2. CASE r = q
      BY <1>1, <1>2, <2>2 DEF DerivedFromRaw
    <2>3. CASE r # q
      BY <1>2, <2>3 DEF DerivedFromRaw
    <2>4. QED BY <2>2, <2>3
  <1>5. QED BY <1>3, <1>4

(* The manifest ingest() writes lists the raw file.                         *)
LEMMA WriteManifestInv ==
    ASSUME StoreInv, WriteManifest
    PROVE  StoreInv'
  <1> DEFINE q == op.batch[op.at].part
  <1>1. pc = "manifest" /\ op.at \in DOMAIN op.batch
    BY DEF StoreInv, WriteManifest, HolderInv
  <1>2. q \in Partitions
    BY <1>1, HolderFacts
  <1>3. /\ manifest' = [manifest EXCEPT ![q] = raw[q]]
        /\ UNCHANGED <<raw, tail, junk, compacted, compaction, quarantine, alive, index,
                       lock, op, faults, acked>>
        /\ pc' = IF op.todo = {} THEN "quarantine" ELSE "append"
    BY DEF WriteManifest
  <1>4. DerivedFromRaw' /\ manifest' \in [Partitions -> Seq(Event) \cup {None}]
    BY <1>2, <1>3, ManifestWritten DEF StoreInv
  <1>5. TypeOK'
    BY <1>3, <1>4 DEF StoreInv, TypeOK
  <1>6. LinesInv' /\ RecoverInv'
    BY <1>3 DEF StoreInv, LinesInv, RecoverInv
  <1>7. HolderInv'
    BY <1>1, <1>3, RawFrame DEF StoreInv, HolderInv, BatchInv, Classified, IngestPcs
  <1>8. QED BY <1>3, <1>4, <1>5, <1>6, <1>7, RawFrame, LedgerFrame DEF StoreInv

(* Conflicts are recorded against events that are stored by then.           *)
LEMMA WriteQuarantineInv ==
    ASSUME StoreInv, WriteQuarantine
    PROVE  StoreInv'
  <1>0. /\ TypeOK /\ InPlace /\ GlobalIdempotency
        /\ Classified(op.batch, {}, op.conflicts) /\ op.todo = {}
    BY DEF StoreInv, WriteQuarantine, HolderInv, IngestPcs, BatchInv
  <1>1. /\ quarantine' = quarantine \cup op.conflicts
        /\ pc = "quarantine" /\ pc' = "return"
        /\ UNCHANGED <<raw, tail, junk, manifest, compacted, compaction, alive, index,
                       lock, op, faults, acked>>
    BY DEF WriteQuarantine
  <1>2. op.conflicts \subseteq Conflict
    BY <1>0 DEF TypeOK
  <1>3. TypeOK'
    BY <1>0, <1>1, <1>2 DEF TypeOK
  <1>4. \A c \in op.conflicts : /\ c.existing \in Stored
                                /\ c.event.id = c.existing.id
                                /\ c.event # c.existing
    BY <1>0 DEF Classified
  <1>5. QuarantineJustified'
    <2>1. \A c \in op.conflicts : c.existing \in EventsOf(raw[c.existing.part])
      BY <1>0, <1>2, <1>4, StoredInPlace DEF Conflict
    <2>2. \A x \in acked : x \in Stored
      BY <1>0, StoredInPlace DEF StoreInv, AckedStored, TypeOK
    <2>3. \A c \in op.conflicts : c.event \notin acked
      BY <1>0, <1>4, <2>2, StoredUnique
    <2>4. QED BY <1>1, <1>4, <2>1, <2>3 DEF StoreInv, QuarantineJustified, EventsOf
  <1>6. AckedStored'
    BY <1>1 DEF StoreInv, AckedStored, EventsOf
  <1>7. LinesInv' /\ RecoverInv'
    BY <1>1 DEF StoreInv, LinesInv, RecoverInv
  <1>8. HolderInv'
    BY <1>1, RawFrame DEF StoreInv, HolderInv, BatchInv, Classified, IngestPcs
  <1>9. QED BY <1>1, <1>3, <1>5, <1>6, <1>7, <1>8, RawFrame, DerivedFrame DEF StoreInv

(* What ingest() reports as stored is stored.                               *)
LEMMA IngestReturnsInv ==
    ASSUME StoreInv, IngestReturns
    PROVE  StoreInv'
  <1>0. /\ TypeOK /\ InPlace /\ GlobalIdempotency
        /\ Classified(op.batch, {}, op.conflicts)
    BY DEF StoreInv, IngestReturns, HolderInv, IngestPcs, BatchInv
  <1> DEFINE New == EventsOf(op.batch) \ {c.event : c \in op.conflicts}
  <1>1. /\ acked' = acked \cup New
        /\ UNCHANGED <<raw, tail, junk, manifest, compacted, compaction, quarantine, alive,
                       index, faults>>
        /\ Release
    BY DEF IngestReturns, disk
  <1>2. \A x \in New : x \in Stored
    BY <1>0 DEF Classified, EventsOf
  <1>3. Stored \subseteq Event
    BY <1>0, StoredTyped
  <1> HIDE DEF New
  <1>4. TypeOK'
    BY <1>0, <1>1, <1>2, <1>3, NoOpTyped DEF TypeOK, Release
  <1>5. AckedStored'
    <2>1. \A x \in New : x \in EventsOf(raw[x.part])
      BY <1>0, <1>2, <1>3, StoredInPlace
    <2>2. QED BY <1>1, <2>1 DEF StoreInv, AckedStored, EventsOf
  <1>6. QuarantineJustified'
    <2>1. \A c \in quarantine : /\ c.existing \in Stored
                                /\ c.event.id = c.existing.id
                                /\ c.event # c.existing
      <3>1. \A c \in quarantine : c.existing \in Event
        BY <1>0 DEF TypeOK, Conflict
      <3>2. QED BY <1>0, <3>1, StoredInPlace DEF StoreInv, QuarantineJustified
    <2>2. \A c \in quarantine : c.event \notin New
      BY <1>0, <1>2, <2>1, StoredUnique
    <2>3. QED BY <1>1, <2>2 DEF StoreInv, QuarantineJustified, EventsOf
  <1>7. LinesInv' /\ HolderInv' /\ RecoverInv'
    BY <1>1, ReleaseFacts DEF StoreInv, LinesInv
  <1>8. QED BY <1>1, <1>4, <1>5, <1>6, <1>7, RawFrame, DerivedFrame DEF StoreInv

(* The compacted view holds events of its raw file.                         *)
LEMMA BeginCompactInv ==
    ASSUME StoreInv, NEW p \in Procs, NEW q \in Partitions, BeginCompact(p, q)
    PROVE  StoreInv'
  <1>0. TypeOK
    BY DEF StoreInv
  <1>1. /\ compacted' = [compacted EXCEPT ![q] = CompactedView(raw[q])]
        /\ UNCHANGED <<raw, tail, junk, manifest, compaction, quarantine, alive, index,
                       faults, acked>>
        /\ lock' = p
        /\ pc' = "compacted"
        /\ op' = [NoOp EXCEPT !.parts = {q}]
    BY DEF BeginCompact
  <1>2. CompactedView(raw[q]) \subseteq EventsOf(raw[q])
    BY DEF CompactedView, EventsOf
  <1>3. EventsOf(raw[q]) \subseteq Event
    BY <1>0 DEF TypeOK, EventsOf
  <1>4. TypeOK'
    <2>1. op' \in [batch : Seq(Event), todo : SUBSET Nat, conflicts : SUBSET Conflict,
                   at : Nat, parts : SUBSET Partitions]
      BY <1>1, NoOpTyped
    <2>2. compacted' \in [Partitions -> SUBSET Event]
      BY <1>0, <1>1, <1>2, <1>3 DEF TypeOK
    <2>3. QED BY <1>0, <1>1, <2>1, <2>2 DEF TypeOK
  <1>5. DerivedFromRaw'
    <2>1. \A r \in Partitions : compacted'[r] \subseteq EventsOf(raw[r])
      BY <1>0, <1>1, <1>2 DEF TypeOK, StoreInv, DerivedFromRaw
    <2>2. QED BY <1>1, <2>1 DEF StoreInv, DerivedFromRaw, EventsOf
  <1>6. LinesInv' /\ RecoverInv'
    BY <1>1 DEF StoreInv, LinesInv, RecoverInv
  <1>7. HolderInv'
    BY <1>1, StoreAssumption DEF HolderInv, IngestPcs
  <1>8. QED BY <1>1, <1>4, <1>5, <1>6, <1>7, RawFrame, LedgerFrame DEF StoreInv

(* Writing the compaction manifest ends the operation.                      *)
LEMMA CompactionManifestInv ==
    ASSUME StoreInv, CompactionManifest
    PROVE  StoreInv'
  <1>1. UNCHANGED <<raw, tail, junk, manifest, compacted, quarantine, alive, index,
                    faults, acked>> /\ Release
    BY DEF CompactionManifest
  <1>2. compaction' \in [Partitions -> [raw : Seq(Event), compacted : SUBSET Event] \cup {None}]
    BY DEF StoreInv, TypeOK, CompactionManifest
  <1>3. TypeOK'
    BY <1>1, <1>2, NoOpTyped DEF StoreInv, TypeOK, Release
  <1>4. LinesInv' /\ HolderInv' /\ RecoverInv'
    BY <1>1, ReleaseFacts DEF StoreInv, LinesInv
  <1>5. QED BY <1>1, <1>3, <1>4, RawFrame, LedgerFrame, DerivedFrame DEF StoreInv

(* recover() starts with every partition that has a raw file to visit.      *)
LEMMA BeginRecoverInv ==
    ASSUME StoreInv, NEW p \in Procs, BeginRecover(p)
    PROVE  StoreInv'
  <1>0. TypeOK
    BY DEF StoreInv
  <1>1. /\ UNCHANGED <<raw, tail, junk, manifest, compacted, compaction, quarantine, alive,
                       faults, acked>>
        /\ lock' = p
        /\ pc' = "recover"
        /\ index' = [index EXCEPT ![p] = RefreshedIndex(p)]
        /\ op' = [NoOp EXCEPT !.parts = {q \in Partitions : RawExists(q)}]
    BY DEF BeginRecover, disk
  <1>2. TypeOK'
    <2>1. op' \in [batch : Seq(Event), todo : SUBSET Nat, conflicts : SUBSET Conflict,
                   at : Nat, parts : SUBSET Partitions]
      BY <1>1, NoOpTyped
    <2>2. index' \in [Procs -> [EventIds -> Event \cup {None}]]
      BY <1>0, <1>1, IndexFacts DEF TypeOK
    <2>3. QED BY <1>0, <1>1, <2>1, <2>2 DEF TypeOK
  <1>3. LinesInv'
    BY <1>1 DEF StoreInv, LinesInv
  <1>4. HolderInv'
    BY <1>1, StoreAssumption DEF HolderInv, IngestPcs
  <1>5. RecoverInv'
    <2>1. op'.parts = {q \in Partitions : RawExists(q)}
      BY <1>1 DEF NoOp
    <2>2. \A q \in Partitions \ op'.parts : ~RawExists(q)'
      BY <1>1, <2>1 DEF RawExists, Malformed
    <2>3. QED BY <2>2 DEF RecoverInv
  <1>6. QED BY <1>1, <1>2, <1>3, <1>4, <1>5, RawFrame, LedgerFrame, DerivedFrame DEF StoreInv

(* recover() rebuilds one manifest and has one partition less to visit.     *)
LEMMA RecoverPartitionInv ==
    ASSUME StoreInv, RecoverPartition
    PROVE  StoreInv'
  <1>0. TypeOK /\ pc = "recover"
    BY DEF StoreInv, RecoverPartition
  <1>1. PICK q \in op.parts :
            /\ manifest' = IF Malformed(q) THEN manifest ELSE [manifest EXCEPT ![q] = raw[q]]
            /\ op' = [op EXCEPT !.parts = @ \ {q}]
    BY DEF RecoverPartition
  <1>2. UNCHANGED <<raw, tail, junk, compacted, compaction, quarantine, alive, index,
                    lock, pc, faults, acked>>
    BY DEF RecoverPartition
  <1>3. q \in Partitions /\ op'.parts = op.parts \ {q}
    BY <1>0, <1>1 DEF TypeOK
  <1>4. DerivedFromRaw' /\ manifest' \in [Partitions -> Seq(Event) \cup {None}]
    <2>1. CASE Malformed(q)
      BY <1>0, <1>1, <1>2, <2>1, DerivedFrame DEF StoreInv, TypeOK
    <2>2. CASE ~Malformed(q)
      BY <1>0, <1>1, <1>2, <1>3, <2>2, ManifestWritten DEF StoreInv
    <2>3. QED BY <2>1, <2>2
  <1>5. TypeOK'
    <2>1. op' \in [batch : Seq(Event), todo : SUBSET Nat, conflicts : SUBSET Conflict,
                   at : Nat, parts : SUBSET Partitions]
      BY <1>0, <1>1 DEF TypeOK
    <2>2. QED BY <1>0, <1>2, <1>4, <2>1 DEF TypeOK
  <1>6. LinesInv'
    BY <1>2 DEF StoreInv, LinesInv
  <1>7. HolderInv'
    BY <1>0, <1>2 DEF StoreInv, HolderInv, IngestPcs
  <1>8. RecoverInv'
    <2>1. SUFFICES ASSUME NEW r \in Partitions \ op'.parts, RawExists(r), ~Malformed(r)
                   PROVE  manifest'[r] = raw[r]
      BY <1>2 DEF RecoverInv, RawExists, Malformed
    <2>2. CASE r = q
      BY <1>0, <1>1, <1>3, <2>1, <2>2 DEF TypeOK
    <2>3. CASE r # q
      <3>1. manifest[r] = raw[r]
        BY <1>0, <1>3, <2>1, <2>3 DEF StoreInv, RecoverInv
      <3>2. manifest'[r] = manifest[r]
        BY <1>0, <1>1, <2>3 DEF TypeOK
      <3>3. QED BY <3>1, <3>2
    <2>4. QED BY <2>2, <2>3
  <1>9. QED BY <1>2, <1>4, <1>5, <1>6, <1>7, <1>8, RawFrame, LedgerFrame DEF StoreInv

(* recover() ends by releasing the lock.                                    *)
LEMMA RecoverReturnsInv ==
    ASSUME StoreInv, RecoverReturns
    PROVE  StoreInv'
  <1>1. UNCHANGED <<raw, tail, junk, manifest, compacted, compaction, quarantine, alive, index,
                    faults, acked>> /\ Release
    BY DEF RecoverReturns, disk
  <1>2. TypeOK'
    BY <1>1, NoOpTyped DEF StoreInv, TypeOK, Release
  <1>3. LinesInv' /\ HolderInv' /\ RecoverInv'
    BY <1>1, ReleaseFacts DEF StoreInv, LinesInv
  <1>4. QED BY <1>1, <1>2, <1>3, RawFrame, LedgerFrame, DerivedFrame DEF StoreInv

(* A stuttering step keeps the invariant.                                   *)
LEMMA StutterInv ==
    ASSUME StoreInv, UNCHANGED vars
    PROVE  StoreInv'
  <1>1. UNCHANGED <<raw, tail, junk, manifest, compacted, compaction, quarantine, alive, index,
                    lock, pc, op, faults, acked>>
    BY DEF vars, disk, memory
  <1>2. TypeOK'
    BY <1>1 DEF StoreInv, TypeOK
  <1>3. LinesInv' /\ HolderInv' /\ RecoverInv'
    BY <1>1, RawFrame DEF StoreInv, LinesInv, HolderInv, BatchInv, Classified, RecoverInv,
                           RawExists, Malformed
  <1>4. QED BY <1>1, <1>2, <1>3, RawFrame, LedgerFrame, DerivedFrame DEF StoreInv
-----------------------------------------------------------------------------
(* The theorems. *)

(* Every step of every process keeps the invariant.                         *)
LEMMA NextStoreInv ==
    ASSUME ~TearAtNewline, StoreInv, [Next]_vars
    PROVE  StoreInv'
  <1>1. CASE \E p \in Procs : Open(p) \/ Crash(p) \/ IngestRefused(p) \/ BeginRecover(p)
    BY <1>1, OpenInv, CrashInv, IngestRefusedInv, BeginRecoverInv
  <1>2. CASE \E p \in Procs, b \in Batches : BeginIngest(p, b)
    BY <1>2, BeginIngestInv
  <1>3. CASE \E p \in Procs, q \in Partitions : BeginCompact(p, q)
    BY <1>3, BeginCompactInv
  <1>4. CASE FailWrite
    BY <1>4, FailWriteInv
  <1>5. CASE HolderStep
    BY <1>5, AppendStartInv, AppendUnterminatedInv, AppendDoneInv, WriteManifestInv,
       WriteQuarantineInv, IngestReturnsInv, CompactionManifestInv, RecoverPartitionInv,
       RecoverReturnsInv DEF HolderStep
  <1>6. CASE UNCHANGED vars
    BY <1>6, StutterInv
  <1>7. QED BY <1>1, <1>2, <1>3, <1>4, <1>5, <1>6 DEF Next

(* StoreInv is an invariant of the store, whatever number of processes     *)
(* share it, whatever batches they ingest and however often they crash or  *)
(* fail to write, as long as no write stops right before a newline.        *)
THEOREM StoreSafety ==
    ASSUME ~TearAtNewline
    PROVE  Spec => []StoreInv
  <1>1. StoreInv /\ [Next]_vars => StoreInv'
    BY NextStoreInv
  <1>2. QED BY <1>1, InitStoreInv, PTL DEF Spec

(* Type correctness of the store.                                          *)
THEOREM StoreTyped ==
    ASSUME ~TearAtNewline
    PROVE  Spec => []TypeOK
  <1>1. StoreInv => TypeOK
    BY DEF StoreInv
  <1>2. QED BY <1>1, StoreSafety, PTL

(* No event id is ever readable from two lines of the store: ingest()'s    *)
(* refresh of the index under the lock makes idempotency global.           *)
THEOREM IdempotencyHolds ==
    ASSUME ~TearAtNewline
    PROVE  Spec => []GlobalIdempotency
  <1>1. StoreInv => GlobalIdempotency
    BY DEF StoreInv
  <1>2. QED BY <1>1, StoreSafety, PTL

(* Whatever ingest() has reported as stored can be read ever after.        *)
THEOREM AckedStays ==
    ASSUME ~TearAtNewline
    PROVE  Spec => []AckedStored
  <1>1. StoreInv => AckedStored
    BY DEF StoreInv
  <1>2. QED BY <1>1, StoreSafety, PTL

(* Quarantine entries name the stored event they lost to, and nothing is   *)
(* both reported as stored and quarantined.                                *)
THEOREM QuarantineSound ==
    ASSUME ~TearAtNewline
    PROVE  Spec => []QuarantineJustified
  <1>1. StoreInv => QuarantineJustified
    BY DEF StoreInv
  <1>2. QED BY <1>1, StoreSafety, PTL

(* Manifests and compacted views never claim more than the raw files show. *)
THEOREM DerivedSound ==
    ASSUME ~TearAtNewline
    PROVE  Spec => []DerivedFromRaw
  <1>1. StoreInv => DerivedFromRaw
    BY DEF StoreInv
  <1>2. QED BY <1>1, StoreSafety, PTL

(* recover() returns with every well-formed partition's manifest rebuilt.  *)
THEOREM RecoverSound ==
    ASSUME ~TearAtNewline
    PROVE  Spec => []RecoverRebuilds
  <1>1. StoreInv => RecoverRebuilds
    BY DEF StoreInv, RecoverInv, RecoverRebuilds
  <1>2. QED BY <1>1, StoreSafety, PTL
-----------------------------------------------------------------------------
(* What a step does to the files, the reports and the quarantine.          *)
LEMMA StepCases ==
    ASSUME ~TearAtNewline, StoreInv, [Next]_vars
    PROVE  \/ UNCHANGED <<raw, acked, quarantine>>
           \/ AppendDone
           \/ WriteQuarantine
           \/ IngestReturns
  <1>1. CASE AppendStart
    <2>1. PICK k \in op.todo :
              LET q == op.batch[k].part IN
              IF tail[q] = "unterminated"
              THEN raw' = [raw EXCEPT ![q] = SubSeq(@, 1, Len(@) - 1)]
              ELSE raw' = raw
      BY <1>1 DEF AppendStart
    <2>2. op.batch[k].part \in Partitions
      BY <1>1, HolderFacts DEF AppendStart, IngestPcs
    <2>3. QED BY <1>1, <2>1, <2>2 DEF AppendStart, StoreInv, LinesInv
  <1>2. CASE AppendUnterminated
    BY <1>2 DEF AppendUnterminated
  <1>3. CASE \E p \in Procs : Open(p) \/ Crash(p) \/ IngestRefused(p) \/ BeginRecover(p)
    BY <1>3 DEF Open, Crash, IngestRefused, BeginRecover, disk
  <1>4. CASE \E p \in Procs, b \in Batches : BeginIngest(p, b)
    BY <1>4 DEF BeginIngest, disk
  <1>5. CASE \E p \in Procs, q \in Partitions : BeginCompact(p, q)
    BY <1>5 DEF BeginCompact
  <1>6. CASE FailWrite \/ UNCHANGED vars
    BY <1>6 DEF FailWrite, vars, disk
  <1>7. CASE WriteManifest \/ CompactionManifest \/ RecoverPartition \/ RecoverReturns
    BY <1>7 DEF WriteManifest, CompactionManifest, RecoverPartition, RecoverReturns, disk
  <1>8. QED BY <1>1, <1>2, <1>3, <1>4, <1>5, <1>6, <1>7 DEF Next, HolderStep

(* The event a completed append writes, and that it is new.                *)
LEMMA AppendDoneFacts ==
    ASSUME StoreInv, AppendDone
    PROVE  \E e \in Event : /\ \A f \in Stored : f.id # e.id
                            /\ raw' = [raw EXCEPT ![e.part] = Append(@, e)]
                            /\ UNCHANGED <<manifest, compacted, acked, quarantine>>
  <1> DEFINE e == op.batch[op.at]
  <1>1. BatchInv /\ op.at \in op.todo /\ tail[e.part] = "torn" /\ pc = "writing"
    BY DEF StoreInv, AppendDone, HolderInv, IngestPcs
  <1>2. e \in Event
    BY <1>1, HolderFacts DEF IngestPcs
  <1>3. \A f \in Stored : f.id # e.id
    BY <1>1 DEF BatchInv, Classified
  <1>4. QED BY <1>1, <1>2, <1>3 DEF AppendDone

(* Raw files only grow: no step changes or removes a readable event.       *)
THEOREM RawAppendOnly ==
    ASSUME ~TearAtNewline
    PROVE  Spec => AppendOnly
  <1> DEFINE Grows == \A q \in Partitions :
                         /\ Len(raw[q]) <= Len(raw'[q])
                         /\ \A k \in DOMAIN raw[q] : raw'[q][k] = raw[q][k]
  <1>1. ASSUME StoreInv, [Next]_vars PROVE Grows
    <2>1. \A q \in Partitions : raw[q] \in Seq(Event) /\ Len(raw[q]) \in Nat
      BY <1>1 DEF StoreInv, TypeOK
    <2>2. CASE raw' = raw
      BY <2>1, <2>2
    <2>3. CASE AppendDone
      <3>1. PICK e \in Event : raw' = [raw EXCEPT ![e.part] = Append(@, e)]
        BY <1>1, <2>3, AppendDoneFacts
      <3>2. ASSUME NEW q \in Partitions
            PROVE  /\ Len(raw[q]) <= Len(raw'[q])
                   /\ \A k \in DOMAIN raw[q] : raw'[q][k] = raw[q][k]
        <4>1. CASE q = e.part
          <5>1. raw'[q] = Append(raw[q], e)
            BY <1>1, <3>1, <4>1 DEF StoreInv, TypeOK
          <5>2. QED BY <2>1, <5>1, AppendFacts
        <4>2. CASE q # e.part
          <5>1. raw'[q] = raw[q]
            BY <1>1, <3>1, <4>2 DEF StoreInv, TypeOK
          <5>2. QED BY <2>1, <5>1
        <4>3. QED BY <4>1, <4>2
      <3>3. QED BY <3>2
    <2>4. CASE WriteQuarantine \/ IngestReturns
      BY <2>2, <2>4 DEF WriteQuarantine, IngestReturns, disk
    <2>5. QED BY <1>1, <2>2, <2>3, <2>4, StepCases
  <1>2. StoreInv /\ [Next]_vars => [Grows]_vars
    BY <1>1
  <1>3. QED BY <1>2, StoreSafety, PTL DEF Spec, AppendOnly
-----------------------------------------------------------------------------
(* Refinement of EventLog. *)

(* The map of EventLog holds exactly the stored events.                    *)
LogMap ==
    /\ IndexOf(Partitions) \in [EventIds -> Event \cup {None}]
    /\ \A e \in Stored : IndexOf(Partitions)[e.id] = e
    /\ \A i \in EventIds : (\A e \in Stored : e.id # i) => IndexOf(Partitions)[i] = None

(* With unique ids the abstract log is the map of what is stored.           *)
LEMMA LogMapFacts == TypeOK /\ GlobalIdempotency => LogMap
  <1> SUFFICES ASSUME TypeOK, GlobalIdempotency PROVE LogMap
    OBVIOUS
  <1>1. IndexOf(Partitions) \in [EventIds -> Event \cup {None}]
    BY PartialIndexTyped
  <1>2. ASSUME NEW e \in Stored PROVE IndexOf(Partitions)[e.id] = e
    <2>1. e.id \in EventIds
      BY StoredTyped DEF Event
    <2>2. IndexOf(Partitions)[e.id] = CHOOSE f \in Stored : f.id = e.id
      BY <2>1 DEF IndexOf, Stored
    <2>3. QED BY <2>2, StoredUnique
  <1>3. ASSUME NEW i \in EventIds, \A e \in Stored : e.id # i
        PROVE  IndexOf(Partitions)[i] = None
    BY <1>3 DEF IndexOf, Stored
  <1>4. QED BY <1>1, <1>2, <1>3 DEF LogMap

(* The end of a line is the moment the abstract log stores the event.       *)
LEMMA AppendRefines ==
    ASSUME StoreInv, StoreInv', AppendDone
    PROVE  Log!Next
  <1> DEFINE log == IndexOf(Partitions)
  <1>1. PICK e \in Event : /\ \A f \in Stored : f.id # e.id
                           /\ raw' = [raw EXCEPT ![e.part] = Append(@, e)]
                           /\ UNCHANGED <<manifest, compacted, acked, quarantine>>
    BY AppendDoneFacts
  <1>2. LogMap
    BY LogMapFacts DEF StoreInv
  <1>3. LogMap'
    <2>1. TypeOK' /\ GlobalIdempotency'
      BY DEF StoreInv
    <2>2. QED BY <2>1, LogMapFacts, PTL
  <1>4. Stored' = Stored \cup {e}
    BY <1>1, AppendPreserves
  <1>5. e.id \in EventIds
    BY DEF Event
  <1>6. log' = [log EXCEPT ![e.id] = e]
    <2>1. ASSUME NEW i \in EventIds
          PROVE  log'[i] = IF i = e.id THEN e ELSE log[i]
      <3>1. CASE i = e.id
        BY <1>3, <1>4, <3>1 DEF LogMap
      <3>2. CASE i # e.id /\ \E f \in Stored : f.id = i
        BY <1>2, <1>3, <1>4, <3>2 DEF LogMap
      <3>3. CASE i # e.id /\ \A f \in Stored : f.id # i
        BY <1>2, <1>3, <1>4, <3>3 DEF LogMap
      <3>4. QED BY <3>1, <3>2, <3>3
    <2>2. log \in [EventIds -> Event \cup {None}] /\ log' \in [EventIds -> Event \cup {None}]
      BY <1>2, <1>3 DEF LogMap
    <2> HIDE DEF log
    <2>3. QED BY <1>5, <2>1, <2>2
  <1>7. log[e.id] = None
    BY <1>1, <1>2, <1>5 DEF LogMap
  <1>8. Log!Store(e)
    BY <1>1, <1>6, <1>7 DEF Log!Store
  <1>9. QED BY <1>8 DEF Log!Next

(* Writing quarantine.jsonl is one abstract Quarantine step.                *)
LEMMA QuarantineRefines ==
    ASSUME StoreInv, WriteQuarantine
    PROVE  Log!Next
  <1>1. LogMap
    BY LogMapFacts DEF StoreInv
  <1>2. /\ Classified(op.batch, {}, op.conflicts)
        /\ quarantine' = quarantine \cup op.conflicts
        /\ UNCHANGED <<raw, acked>>
    BY DEF StoreInv, WriteQuarantine, HolderInv, IngestPcs, BatchInv
  <1>3. ASSUME NEW c \in op.conflicts
        PROVE  /\ c.event.id = c.existing.id
               /\ IndexOf(Partitions)[c.event.id] = c.existing
               /\ c.event # c.existing
    BY <1>1, <1>2 DEF Classified, LogMap
  <1>4. IndexOf(Partitions)' = IndexOf(Partitions)
    BY <1>2 DEF IndexOf, Readable, EventsOf
  <1>5. Log!Quarantine
    BY <1>2, <1>3, <1>4 DEF Log!Quarantine
  <1>6. QED BY <1>5 DEF Log!Next

(* The return of ingest() is one abstract Acknowledge step.                 *)
LEMMA AcknowledgeRefines ==
    ASSUME StoreInv, IngestReturns
    PROVE  Log!Next
  <1>1. LogMap
    BY LogMapFacts DEF StoreInv
  <1>2. /\ Classified(op.batch, {}, op.conflicts)
        /\ acked' = acked \cup (EventsOf(op.batch) \ {c.event : c \in op.conflicts})
        /\ UNCHANGED <<raw, quarantine>>
    BY DEF StoreInv, IngestReturns, HolderInv, IngestPcs, BatchInv, disk
  <1>3. ASSUME NEW e \in acked' \ acked PROVE IndexOf(Partitions)[e.id] = e
    <2>1. e \in Stored
      BY <1>2, <1>3 DEF Classified, EventsOf
    <2>2. QED BY <1>1, <2>1 DEF LogMap
  <1>4. IndexOf(Partitions)' = IndexOf(Partitions)
    BY <1>2 DEF IndexOf, Readable, EventsOf
  <1>5. Log!Acknowledge
    BY <1>2, <1>3, <1>4 DEF Log!Acknowledge
  <1>6. QED BY <1>5 DEF Log!Next

(* The store of files, locks and crashes implements the write-once log.    *)
THEOREM StoreImplementsLog ==
    ASSUME ~TearAtNewline
    PROVE  Spec => ImplementsEventLog
  <1>1. Init => Log!Init
    <2> SUFFICES ASSUME Init PROVE Log!Init
      OBVIOUS
    <2>1. Readable(Partitions) = {}
      BY DEF Init, Readable, EventsOf
    <2>2. QED BY <2>1 DEF Init, Log!Init, IndexOf
  <1>2. StoreInv /\ StoreInv' /\ [Next]_vars => [Log!Next]_(Log!vars)
    <2> SUFFICES ASSUME StoreInv, StoreInv', [Next]_vars PROVE [Log!Next]_(Log!vars)
      OBVIOUS
    <2>1. CASE UNCHANGED <<raw, acked, quarantine>>
      BY <2>1 DEF Log!vars, IndexOf, Readable, EventsOf
    <2>2. QED BY <2>1, StepCases, AppendRefines, QuarantineRefines, AcknowledgeRefines
  <1>3. QED BY <1>1, <1>2, StoreSafety, PTL DEF Spec, ImplementsEventLog, Log!Spec
=============================================================================
