---------------------- MODULE IngestionService_proofs ----------------------
(***************************************************************************)
(* The queue and the ingestion service on top of it, for every set of      *)
(* threads, batches and events, every capacity and any number of calls,    *)
(* stops and restarts.  Of the queue: its counters are those of its        *)
(* contents, no batch is lost, repeated or overtaken, and no thread sleeps *)
(* although it could proceed.  The service keeps its word because of two   *)
(* facts the code never states: a worker that is not the one the service   *)
(* remembers has ended, and only a worker inside get() has a call open on  *)
(* the queue.                                                              *)
(***************************************************************************)
EXTENDS IngestionService, SequenceTheorems, FiniteSetTheorems, WellFoundedInduction, TLAPS

(* The queue *)

(* A batch is counted by the size of its set of positions.                 *)
LEMMA BatchSize == \A b \in Batches : Len(b) \in 1..MaxEvents
  BY QueueAssumption

(* The column of one batch has as many positions as the batch has events.  *)
LEMMA ColumnSize ==
    ASSUME NEW i, NEW n \in 1..MaxEvents
    PROVE  /\ IsFiniteSet({<<i, k>> : k \in 1..n})
           /\ Cardinality({<<i, k>> : k \in 1..n}) = n
  <1> DEFINE T == {<<i, k>> : k \in 1..n}
             f == [k \in 1..n |-> <<i, k>>]
  <1>1. n \in Nat
    BY QueueAssumption
  <1>2. f \in Bijection(1..n, T)
    BY DEF Bijection, Injection, Surjection, IsInjective
  <1>3. ExistsBijection(1..n, T)
    BY <1>2 DEF ExistsBijection
  <1>4. IsFiniteSet(1..n) /\ Cardinality(1..n) = n
    BY <1>1, FS_Interval
  <1>5. QED BY <1>3, <1>4, FS_Bijection

LEMMA PositionsFinite ==
    ASSUME NEW s \in Seq(Batches)
    PROVE  IsFiniteSet(Positions(s)) /\ EventCount(s) \in Nat
  <1>1. Len(s) \in Nat /\ MaxEvents \in Nat
    BY QueueAssumption
  <1>2. IsFiniteSet((1..Len(s)) \X (1..MaxEvents))
    <2>1. IsFiniteSet(1..Len(s)) /\ IsFiniteSet(1..MaxEvents)
      BY <1>1, FS_Interval
    <2>2. QED BY <2>1, FS_Product
  <1>3. Positions(s) \subseteq (1..Len(s)) \X (1..MaxEvents)
    BY DEF Positions
  <1>4. IsFiniteSet(Positions(s))
    BY <1>2, <1>3, FS_Subset
  <1>5. QED BY <1>4, FS_CardinalityType DEF EventCount

(* The union of two finite sets that share nothing.                        *)
LEMMA DisjointUnion ==
    ASSUME NEW S, NEW T, IsFiniteSet(S), IsFiniteSet(T), S \cap T = {}
    PROVE  Cardinality(S \cup T) = Cardinality(S) + Cardinality(T)
  <1>1. Cardinality(S \cup T) = Cardinality(S) + Cardinality(T) - Cardinality(S \cap T)
    BY FS_Union
  <1>2. Cardinality(S \cap T) = 0
    BY FS_EmptySet
  <1>3. Cardinality(S) \in Nat /\ Cardinality(T) \in Nat
    BY FS_CardinalityType
  <1>4. QED BY <1>1, <1>2, <1>3

LEMMA CountEmpty == EventCount(<<>>) = 0
  <1>1. Positions(<<>>) = {}
    BY DEF Positions
  <1>2. QED BY <1>1, FS_EmptySet DEF EventCount

(* put(): the events of the new batch come on top of those that wait.      *)
LEMMA CountAppend ==
    ASSUME NEW s \in Seq(Batches), NEW b \in Batches
    PROVE  EventCount(Append(s, b)) = EventCount(s) + Len(b)
  <1> DEFINE n == Len(s)
             T == {<<n + 1, k>> : k \in 1..Len(b)}
  <1>1. n \in Nat /\ Len(b) \in 1..MaxEvents /\ MaxEvents \in Nat
    BY QueueAssumption
  <1>2. /\ Len(Append(s, b)) = n + 1
        /\ \A i \in 1..n : Append(s, b)[i] = s[i]
        /\ Append(s, b)[n + 1] = b
    OBVIOUS
  <1> HIDE DEF n
  <1>3. Positions(Append(s, b)) = Positions(s) \cup T
    <2>1. ASSUME NEW p \in Positions(Append(s, b)) PROVE p \in Positions(s) \cup T
      <3>1. PICK i \in 1..(n + 1), k \in 1..MaxEvents : p = <<i, k>> /\ k <= Len(Append(s, b)[i])
        BY <1>2, <2>1 DEF Positions
      <3>2. CASE i = n + 1
        BY <3>1, <3>2, <1>1, <1>2
      <3>3. CASE i \in 1..n
        BY <3>1, <3>3, <1>2 DEF Positions, n
      <3>4. QED BY <1>1, <3>1, <3>2, <3>3
    <2>2. ASSUME NEW p \in Positions(s) PROVE p \in Positions(Append(s, b))
      <3>1. PICK i \in 1..n, k \in 1..MaxEvents : p = <<i, k>> /\ k <= Len(s[i])
        BY <2>2 DEF Positions, n
      <3>2. i \in 1..(n + 1) /\ k <= Len(Append(s, b)[i])
        BY <1>1, <1>2, <3>1
      <3>3. QED BY <1>2, <3>1, <3>2 DEF Positions
    <2>3. ASSUME NEW p \in T PROVE p \in Positions(Append(s, b))
      <3>1. PICK k \in 1..Len(b) : p = <<n + 1, k>>
        OBVIOUS
      <3>2. k \in 1..MaxEvents /\ k <= Len(Append(s, b)[n + 1]) /\ n + 1 \in 1..(n + 1)
        BY <1>1, <1>2, <3>1
      <3>3. QED BY <1>2, <3>1, <3>2 DEF Positions
    <2>4. QED BY <2>1, <2>2, <2>3
  <1>4. Positions(s) \cap T = {}
    BY <1>1 DEF Positions, n
  <1>5. IsFiniteSet(T) /\ Cardinality(T) = Len(b)
    BY <1>1, ColumnSize
  <1> HIDE DEF T
  <1>6. QED BY <1>3, <1>4, <1>5, PositionsFinite, DisjointUnion DEF EventCount

(* get(): the events of the first batch, and those of the rest.            *)
LEMMA CountTail ==
    ASSUME NEW s \in Seq(Batches), s # <<>>
    PROVE  EventCount(s) = Len(Head(s)) + EventCount(Tail(s))
  <1> DEFINE n == Len(s)
             T == {<<1, k>> : k \in 1..Len(Head(s))}
             U == {p \in Positions(s) : p[1] # 1}
             f == [p \in Positions(Tail(s)) |-> <<p[1] + 1, p[2]>>]
  <1>1. n \in Nat /\ n >= 1 /\ MaxEvents \in Nat
    BY QueueAssumption
  <1>2. /\ Head(s) \in Batches /\ Head(s) = s[1]
        /\ Tail(s) \in Seq(Batches) /\ Len(Tail(s)) = n - 1
        /\ \A i \in 1..(n - 1) : Tail(s)[i] = s[i + 1]
    OBVIOUS
  <1>3. Len(Head(s)) \in 1..MaxEvents
    BY <1>2, BatchSize
  <1> HIDE DEF n
  <1>4. Positions(s) = T \cup U
    <2>1. T \subseteq Positions(s)
      <3>1. ASSUME NEW k \in 1..Len(Head(s)) PROVE <<1, k>> \in Positions(s)
        <4>1. 1 \in 1..n /\ k \in 1..MaxEvents /\ k <= Len(s[1])
          BY <1>1, <1>2, <1>3, <3>1
        <4>2. QED BY <4>1 DEF Positions, n
      <3>2. QED BY <3>1
    <2>2. ASSUME NEW p \in Positions(s), p[1] = 1 PROVE p \in T
      <3>1. PICK i \in 1..n, k \in 1..MaxEvents : p = <<i, k>> /\ k <= Len(s[i])
        BY <2>2 DEF Positions, n
      <3>2. i = 1 /\ k \in 1..Len(Head(s))
        BY <1>1, <1>2, <1>3, <2>2, <3>1
      <3>3. QED BY <3>1, <3>2
    <2>3. QED BY <2>1, <2>2
  <1>5. T \cap U = {}
    OBVIOUS
  <1>6. IsFiniteSet(T) /\ Cardinality(T) = Len(Head(s))
    BY <1>3, ColumnSize
  <1>7. f \in Bijection(Positions(Tail(s)), U)
    <2>1. ASSUME NEW p \in Positions(Tail(s)) PROVE f[p] \in U
      <3>1. PICK i \in 1..(n - 1), k \in 1..MaxEvents : p = <<i, k>> /\ k <= Len(Tail(s)[i])
        BY <1>2, <2>1 DEF Positions
      <3>2. f[p] = <<i + 1, k>> /\ i + 1 \in 1..n /\ i + 1 # 1 /\ k <= Len(s[i + 1])
        BY <1>1, <1>2, <3>1
      <3>3. <<i + 1, k>> \in Positions(s)
        BY <3>2 DEF Positions, n
      <3>4. QED BY <3>2, <3>3
    <2>2. ASSUME NEW p \in Positions(Tail(s)), NEW q \in Positions(Tail(s)), f[p] = f[q]
          PROVE  p = q
      <3>1. PICK i \in 1..(n - 1), k \in 1..MaxEvents : p = <<i, k>>
        BY <1>2 DEF Positions
      <3>2. PICK j \in 1..(n - 1), l \in 1..MaxEvents : q = <<j, l>>
        BY <1>2 DEF Positions
      <3>3. i + 1 = j + 1 /\ k = l
        BY <2>2, <3>1, <3>2
      <3>4. QED BY <1>1, <3>1, <3>2, <3>3
    <2>3. ASSUME NEW u \in U PROVE \E p \in Positions(Tail(s)) : f[p] = u
      <3>1. PICK i \in 1..n, k \in 1..MaxEvents : u = <<i, k>> /\ k <= Len(s[i]) /\ i # 1
        BY <2>3 DEF Positions, n
      <3>2. /\ i - 1 \in 1..(n - 1) /\ Tail(s)[i - 1] = s[i]
            /\ (i - 1) + 1 = i
        BY <1>1, <1>2, <3>1
      <3>3. <<i - 1, k>> \in Positions(Tail(s))
        BY <1>2, <3>1, <3>2 DEF Positions
      <3>4. f[<<i - 1, k>>] = u
        BY <3>1, <3>2, <3>3
      <3>5. QED BY <3>3, <3>4
    <2> HIDE DEF f, U
    <2>4. QED
      <3>1. f \in [Positions(Tail(s)) -> U]
        BY <2>1 DEF f
      <3>2. QED BY <2>2, <2>3, <3>1 DEF Bijection, Injection, Surjection, IsInjective
  <1>8. ExistsBijection(Positions(Tail(s)), U)
    BY <1>7 DEF ExistsBijection
  <1> HIDE DEF T, U, f
  <1>9. IsFiniteSet(U) /\ Cardinality(U) = Cardinality(Positions(Tail(s)))
    BY <1>2, <1>8, PositionsFinite, FS_Bijection
  <1>10. QED BY <1>4, <1>5, <1>6, <1>9, DisjointUnion DEF EventCount

(* What get() moves from the head of the queue to the end of the history   *)
(* leaves their concatenation as it was.                                   *)
LEMMA MoveHead ==
    ASSUME NEW S, NEW s \in Seq(S), NEW u \in Seq(S), s # <<>>
    PROVE  Append(u, Head(s)) \o Tail(s) = u \o s
  <1> DEFINE a == Append(u, Head(s)) \o Tail(s)
             c == u \o s
  <1>1. /\ Len(s) \in Nat \ {0} /\ Len(u) \in Nat /\ Head(s) \in S /\ Tail(s) \in Seq(S)
        /\ Head(s) = s[1] /\ Len(Tail(s)) = Len(s) - 1
        /\ \A i \in 1..(Len(s) - 1) : Tail(s)[i] = s[i + 1]
    OBVIOUS
  <1>2. Append(u, Head(s)) \in Seq(S) /\ Len(Append(u, Head(s))) = Len(u) + 1
    BY <1>1
  <1>3. a \in Seq(S) /\ Len(a) = Len(u) + Len(s)
    BY <1>1, <1>2
  <1>4. c \in Seq(S) /\ Len(c) = Len(u) + Len(s)
    BY <1>1
  <1>5. ASSUME NEW i \in 1..(Len(u) + Len(s)) PROVE a[i] = c[i]
    <2>1. CASE i <= Len(u)
      BY <1>1, <1>2, <2>1
    <2>2. CASE i = Len(u) + 1
      BY <1>1, <1>2, <2>2
    <2>3. CASE i > Len(u) + 1
      BY <1>1, <1>2, <2>3
    <2>4. QED BY <1>1, <2>1, <2>2, <2>3
  <1> HIDE DEF a, c
  <1>6. a = c
    BY <1>3, <1>4, <1>5, SeqEqual
  <1>7. QED BY <1>6 DEF a, c

LEMMA AppendLast ==
    ASSUME NEW S, NEW s \in Seq(S), NEW u \in Seq(S), NEW x \in S
    PROVE  u \o Append(s, x) = Append(u \o s, x)
  <1> DEFINE a == u \o Append(s, x)
             c == Append(u \o s, x)
  <1>1. /\ Len(s) \in Nat /\ Len(u) \in Nat /\ u \o s \in Seq(S) /\ Append(s, x) \in Seq(S)
        /\ Len(Append(s, x)) = Len(s) + 1 /\ Len(u \o s) = Len(u) + Len(s)
    OBVIOUS
  <1>2. a \in Seq(S) /\ Len(a) = Len(u) + Len(s) + 1
    BY <1>1
  <1>3. c \in Seq(S) /\ Len(c) = Len(u) + Len(s) + 1
    BY <1>1
  <1>4. ASSUME NEW i \in 1..(Len(u) + Len(s) + 1) PROVE a[i] = c[i]
    <2>1. CASE i <= Len(u)
      BY <1>1, <2>1
    <2>2. CASE i > Len(u) /\ i <= Len(u) + Len(s)
      BY <1>1, <2>2
    <2>3. CASE i = Len(u) + Len(s) + 1
      BY <1>1, <2>3
    <2>4. QED BY <1>1, <2>1, <2>2, <2>3
  <1> HIDE DEF a, c
  <1>5. a = c
    BY <1>2, <1>3, <1>4, SeqEqual
  <1>6. QED BY <1>5 DEF a, c
-----------------------------------------------------------------------------
(* The inductive invariant *)

(* A put() that is blocked holds the batch it was called with.             *)
CallShape ==
    \A t \in Threads : call[t].kind = "put" => call[t].batch \in Batches

QInv == QTypeOK /\ Accounting /\ Conserved /\ NoLostWakeup /\ CallShape

LEMMA InitQInv == QInit => QInv
  <1> SUFFICES ASSUME QInit PROVE QInv
    OBVIOUS
  <1>1. QTypeOK
    BY DEF QInit, QTypeOK, Calls
  <1>2. Accounting
    BY CountEmpty, QueueAssumption DEF QInit, Accounting
  <1>3. Conserved /\ NoLostWakeup /\ CallShape
    BY DEF QInit, Conserved, NoLostWakeup, CallShape, Out
  <1>4. QED BY <1>1, <1>2, <1>3 DEF QInv

(* After notify_all() nobody is inside wait().                             *)
LEMMA NobodyWaits ==
    ASSUME NEW calls \in [Threads -> Calls]
    PROVE  /\ NotifyAll(calls) \in [Threads -> Calls]
           /\ \A t \in Threads : NotifyAll(calls)[t].at # "waiting"
           /\ \A t \in Threads : NotifyAll(calls)[t].kind = calls[t].kind
                                 /\ NotifyAll(calls)[t].batch = calls[t].batch
  <1>1. ASSUME NEW t \in Threads, calls[t].at = "waiting"
        PROVE  /\ [calls[t] EXCEPT !.at = "woken"] \in Calls
               /\ [calls[t] EXCEPT !.at = "woken"].at # "waiting"
               /\ [calls[t] EXCEPT !.at = "woken"].kind = calls[t].kind
               /\ [calls[t] EXCEPT !.at = "woken"].batch = calls[t].batch
    BY <1>1 DEF Calls, Out
  <1>2. QED BY <1>1 DEF NotifyAll

LEMMA EnqueueKeepsQInv ==
    ASSUME QInv, NEW t \in Threads, NEW b \in Batches, Room(b), Enqueue(t, b)
    PROVE  QInv'
  <1> DEFINE cs == [call EXCEPT ![t] = Out]
  <1>1. cs \in [Threads -> Calls]
    BY DEF QInv, QTypeOK, Calls
  <1>2. Len(b) \in Nat
    BY BatchSize
  <1>3. /\ call' \in [Threads -> Calls]
        /\ \A u \in Threads : call'[u].at # "waiting"
        /\ \A u \in Threads : call'[u].kind = cs[u].kind /\ call'[u].batch = cs[u].batch
    BY <1>1, NobodyWaits DEF Enqueue
  <1>4. QTypeOK'
    <2>1. /\ batches' \in Seq(Batches) /\ accepted' \in Seq(Batches)
          /\ taken' \in Seq(Batches)
      BY DEF QInv, QTypeOK, Enqueue
    <2>2. /\ pending' \in Int /\ enqueued' \in Nat /\ dequeued' \in Nat
          /\ rejected' \in Nat
      BY <1>2 DEF QInv, QTypeOK, Enqueue
    <2>3. QED BY <1>3, <2>1, <2>2 DEF QTypeOK
  <1>5. Accounting'
    BY <1>2, CountAppend DEF QInv, QTypeOK, Accounting, Enqueue, Room
  <1>6. Conserved'
    BY AppendLast DEF QInv, QTypeOK, Conserved, Enqueue
  <1>7. NoLostWakeup'
    BY <1>3 DEF NoLostWakeup
  <1>8. CallShape'
    BY <1>3 DEF CallShape, QInv, QTypeOK, Out
  <1>9. QED BY <1>4, <1>5, <1>6, <1>7, <1>8 DEF QInv

LEMMA DequeueKeepsQInv ==
    ASSUME QInv, NEW t \in Threads, Dequeue(t)
    PROVE  QInv'
  <1> DEFINE cs == [call EXCEPT ![t] = Out]
  <1>1. cs \in [Threads -> Calls]
    BY DEF QInv, QTypeOK, Calls
  <1>2. /\ batches # <<>> /\ batches \in Seq(Batches) /\ Head(batches) \in Batches
        /\ Tail(batches) \in Seq(Batches) /\ Len(Head(batches)) \in Nat
    BY BatchSize DEF QInv, QTypeOK, Dequeue
  <1>3. /\ call' \in [Threads -> Calls]
        /\ \A u \in Threads : call'[u].at # "waiting"
        /\ \A u \in Threads : call'[u].kind = cs[u].kind /\ call'[u].batch = cs[u].batch
    BY <1>1, NobodyWaits DEF Dequeue
  <1>4. QTypeOK'
    <2>1. /\ batches' \in Seq(Batches) /\ accepted' \in Seq(Batches)
          /\ taken' \in Seq(Batches)
      BY <1>2 DEF QInv, QTypeOK, Dequeue
    <2>2. /\ pending' \in Int /\ enqueued' \in Nat /\ dequeued' \in Nat
          /\ rejected' \in Nat
      BY <1>2 DEF QInv, QTypeOK, Dequeue
    <2>3. QED BY <1>3, <2>1, <2>2 DEF QTypeOK
  <1>5. Accounting'
    <2>1. EventCount(batches) = Len(Head(batches)) + EventCount(Tail(batches))
      BY <1>2, CountTail
    <2>2. EventCount(Tail(batches)) \in Nat
      BY <1>2, PositionsFinite
    <2>3. /\ batches' = Tail(batches) /\ pending' = pending - Len(Head(batches))
          /\ dequeued' = dequeued + Len(Head(batches)) /\ enqueued' = enqueued
      BY DEF Dequeue
    <2>4. /\ pending = EventCount(batches) /\ enqueued - dequeued = pending
          /\ pending <= MaxEvents /\ pending \in Int /\ enqueued \in Nat /\ dequeued \in Nat
      BY DEF QInv, QTypeOK, Accounting
    <2>5. MaxEvents \in Nat
      BY QueueAssumption
    <2>6. pending' = EventCount(batches')
      <3>1. PICK n \in Nat : n = Len(Head(batches))
        BY <1>2
      <3>2. PICK k \in Nat : k = EventCount(Tail(batches))
        BY <2>2
      <3>3. pending = n + k /\ pending' = pending - n
        BY <2>1, <2>3, <2>4, <3>1, <3>2
      <3>4. pending' = k
        BY <2>4, <3>3
      <3>5. QED BY <2>3, <3>2, <3>4
    <2>7. enqueued' - dequeued' = pending' /\ pending' <= MaxEvents
      <3> DEFINE n == Len(Head(batches))
      <3>1. n \in Nat /\ pending' = pending - n /\ dequeued' = dequeued + n /\ enqueued' = enqueued
        BY <1>2, <2>3
      <3> HIDE DEF n
      <3>2. QED BY <2>4, <2>5, <3>1
    <2>8. QED BY <2>6, <2>7 DEF Accounting
  <1>6. Conserved'
    BY <1>2, MoveHead DEF QInv, QTypeOK, Conserved, Dequeue
  <1>7. NoLostWakeup'
    BY <1>3 DEF NoLostWakeup
  <1>8. CallShape'
    BY <1>3 DEF CallShape, QInv, QTypeOK, Out
  <1>9. QED BY <1>4, <1>5, <1>6, <1>7, <1>8 DEF QInv

(* A call that ends, starts to wait, waits again or is woken, without      *)
(* touching the contents.                                                  *)
LEMMA CallStepKeepsQInv ==
    ASSUME QInv, NEW t \in Threads, NEW c \in Calls,
           UNCHANGED <<batches, pending, enqueued, dequeued, accepted, taken>>,
           rejected' \in Nat,
           call' = [call EXCEPT ![t] = c],
           c.kind = "put" => c.batch \in Batches,
           c.at = "waiting" => \/ c.kind = "put" /\ ~Room(c.batch)
                               \/ c.kind = "get" /\ batches = <<>>
    PROVE  QInv'
  <1>1. \A u \in Threads : call'[u] = IF u = t THEN c ELSE call[u]
    BY DEF QInv, QTypeOK
  <1>2. QTypeOK'
    BY DEF QInv, QTypeOK
  <1>3. Accounting' /\ Conserved'
    BY DEF QInv, Accounting, Conserved
  <1>4. NoLostWakeup'
    BY <1>1 DEF QInv, NoLostWakeup, Room
  <1>5. CallShape'
    BY <1>1 DEF QInv, CallShape
  <1>6. QED BY <1>2, <1>3, <1>4, <1>5 DEF QInv

LEMMA PutKeepsQInv ==
    ASSUME QInv, NEW t \in Threads, NEW b \in Batches, NEW block \in BOOLEAN,
           NEW timed \in BOOLEAN, Put(t, b, block, timed)
    PROVE  QInv'
  <1>1. CASE Room(b) /\ Enqueue(t, b)
    BY <1>1, EnqueueKeepsQInv
  <1>2. CASE Reject(t)
    <2>1. Out \in Calls /\ Out.kind # "put" /\ Out.at # "waiting"
      BY DEF Calls, Out
    <2>2. rejected' \in Nat
      BY <1>2 DEF Reject, QInv, QTypeOK
    <2>3. QED BY <1>2, <2>1, <2>2, CallStepKeepsQInv DEF Reject
  <1>3. CASE ~Room(b) /\ Wait(t, "put", b, timed)
    <2> DEFINE c == [at |-> "waiting", kind |-> "put", batch |-> b, timed |-> timed,
                     expired |-> FALSE]
    <2>1. c \in Calls /\ c.kind = "put" /\ c.batch = b
      BY DEF Calls
    <2> HIDE DEF c
    <2>2. QED BY <1>3, <2>1, CallStepKeepsQInv DEF Wait, c, QInv, QTypeOK, counters
  <1>4. QED BY <1>1, <1>2, <1>3 DEF Put

LEMMA GetKeepsQInv ==
    ASSUME QInv, NEW t \in Threads, NEW block \in BOOLEAN, NEW timed \in BOOLEAN,
           Get(t, block, timed)
    PROVE  QInv'
  <1>1. CASE Dequeue(t)
    BY <1>1, DequeueKeepsQInv
  <1>2. CASE batches = <<>> /\ Wait(t, "get", <<>>, timed)
    <2> DEFINE c == [at |-> "waiting", kind |-> "get", batch |-> <<>>, timed |-> timed,
                     expired |-> FALSE]
    <2>1. c \in Calls /\ c.kind = "get"
      BY DEF Calls
    <2> HIDE DEF c
    <2>2. QED BY <1>2, <2>1, CallStepKeepsQInv DEF Wait, c, QInv, QTypeOK, counters
  <1>3. QED BY <1>1, <1>2 DEF Get

(* The call of a thread that was woken and waits again.                    *)
LEMMA WaitingAgain ==
    ASSUME NEW c \in Calls, c.at = "woken"
    PROVE  /\ [c EXCEPT !.at = "waiting"] \in Calls
           /\ [c EXCEPT !.at = "waiting"].kind = c.kind
           /\ [c EXCEPT !.at = "waiting"].batch = c.batch
  BY DEF Calls, Out

LEMMA PutResumesKeepsQInv ==
    ASSUME QInv, NEW t \in Threads, PutResumes(t)
    PROVE  QInv'
  <1>1. call[t] \in Calls /\ call[t].batch \in Batches
    BY DEF QInv, QTypeOK, CallShape, PutResumes
  <1>2. CASE Room(call[t].batch) /\ Enqueue(t, call[t].batch)
    BY <1>1, <1>2, EnqueueKeepsQInv
  <1>3. CASE Reject(t)
    <2>1. Out \in Calls /\ Out.kind # "put" /\ Out.at # "waiting"
      BY DEF Calls, Out
    <2>2. rejected' \in Nat
      BY <1>3 DEF Reject, QInv, QTypeOK
    <2>3. QED BY <1>3, <2>1, <2>2, CallStepKeepsQInv DEF Reject
  <1>4. CASE ~Room(call[t].batch) /\ WaitAgain(t)
    <2> DEFINE c == [call[t] EXCEPT !.at = "waiting"]
    <2>1. c \in Calls /\ c.kind = "put" /\ c.batch = call[t].batch
      BY <1>1, WaitingAgain DEF PutResumes
    <2>2. call' = [call EXCEPT ![t] = c] /\ rejected' \in Nat
      BY <1>4 DEF WaitAgain, QInv, QTypeOK, counters
    <2> HIDE DEF c
    <2>3. QED BY <1>1, <1>4, <2>1, <2>2, CallStepKeepsQInv DEF WaitAgain, counters
  <1>5. QED BY <1>2, <1>3, <1>4 DEF PutResumes

LEMMA GetResumesKeepsQInv ==
    ASSUME QInv, NEW t \in Threads, GetResumes(t)
    PROVE  QInv'
  <1>1. call[t] \in Calls
    BY DEF QInv, QTypeOK
  <1>2. CASE Dequeue(t)
    BY <1>2, DequeueKeepsQInv
  <1>3. CASE GiveUp(t)
    <2>1. Out \in Calls /\ Out.kind # "put" /\ Out.at # "waiting"
      BY DEF Calls, Out
    <2>2. QED BY <1>3, <2>1, CallStepKeepsQInv DEF GiveUp, QInv, QTypeOK, counters
  <1>4. CASE batches = <<>> /\ WaitAgain(t)
    <2> DEFINE c == [call[t] EXCEPT !.at = "waiting"]
    <2>1. c \in Calls /\ c.kind = "get"
      BY <1>1, WaitingAgain DEF GetResumes
    <2>2. call' = [call EXCEPT ![t] = c] /\ rejected' \in Nat
      BY <1>4 DEF WaitAgain, QInv, QTypeOK, counters
    <2> HIDE DEF c
    <2>3. QED BY <1>4, <2>1, <2>2, CallStepKeepsQInv DEF WaitAgain, counters
  <1>5. QED BY <1>2, <1>3, <1>4 DEF GetResumes

LEMMA ExpireKeepsQInv ==
    ASSUME QInv, NEW t \in Threads, Expire(t)
    PROVE  QInv'
  <1> DEFINE c == [[call[t] EXCEPT !.expired = TRUE] EXCEPT !.at = "woken"]
  <1>1. call[t] \in Calls /\ call[t] # Out
    BY DEF QInv, QTypeOK, Expire, Out
  <1>2. /\ c \in Calls /\ c.at # "waiting" /\ c.kind = call[t].kind
        /\ c.batch = call[t].batch
    BY <1>1 DEF Calls
  <1>3. call' = [call EXCEPT ![t] = c] /\ rejected' \in Nat
    BY DEF Expire, QInv, QTypeOK, counters
  <1> HIDE DEF c
  <1>4. c.kind = "put" => c.batch \in Batches
    BY <1>2 DEF QInv, CallShape
  <1>5. QED BY <1>2, <1>3, <1>4, CallStepKeepsQInv DEF Expire, counters

(* One critical section of one thread, whatever the others wait for.       *)
LEMMA QStep == QInv /\ [QNext]_qvars => QInv'
  <1> SUFFICES ASSUME QInv, [QNext]_qvars PROVE QInv'
    OBVIOUS
  <1>1. ASSUME NEW t \in Threads, NEW b \in Batches, NEW block \in BOOLEAN,
               NEW timed \in BOOLEAN, Put(t, b, block, timed)
        PROVE  QInv'
    BY <1>1, PutKeepsQInv
  <1>2. ASSUME NEW t \in Threads, NEW block \in BOOLEAN, NEW timed \in BOOLEAN,
               Get(t, block, timed)
        PROVE  QInv'
    BY <1>2, GetKeepsQInv
  <1>3. ASSUME NEW t \in Threads, PutResumes(t) PROVE QInv'
    BY <1>3, PutResumesKeepsQInv
  <1>4. ASSUME NEW t \in Threads, GetResumes(t) PROVE QInv'
    BY <1>4, GetResumesKeepsQInv
  <1>5. ASSUME NEW t \in Threads, Expire(t) PROVE QInv'
    BY <1>5, ExpireKeepsQInv
  <1>6. CASE UNCHANGED qvars
    BY <1>6 DEF qvars, QInv, QTypeOK, Accounting, Conserved, NoLostWakeup, Room, CallShape
  <1>7. QED BY <1>1, <1>2, <1>3, <1>4, <1>5, <1>6 DEF QNext
-----------------------------------------------------------------------------
(* For every capacity, set of batches, number of threads and of calls: the *)
(* counters are those of the contents, the capacity in events is respected *)
(* and put() and get() neither lose, repeat nor reorder a batch.           *)
THEOREM QueueIsSound == QSpec => []QueueSound
  <1>1. QInv => QueueSound
    BY DEF QInv, QueueSound
  <1>2. QED BY InitQInv, QStep, <1>1, PTL DEF QSpec

(* With notify_all() after every change, no thread is inside wait() while  *)
(* it could proceed, however many threads put and get.                     *)
THEOREM NobodySleepsThroughIt == QSpec => []NoLostWakeup
  <1>1. QInv => NoLostWakeup
    BY DEF QInv
  <1>2. QED BY InitQInv, QStep, <1>1, PTL DEF QSpec
-----------------------------------------------------------------------------
(* The service *)

(* The history of ingest() calls and the hands of the workers.             *)
Shapes ==
    /\ hand \in [Workers -> Batches \cup {<<>>}]
    /\ processed \in Seq([batch : Batches, ok : BOOLEAN])
    /\ \A w \in Workers : wpc[w] \in {"ingest", "ok", "failed"} => hand[w] \in Batches

(* start_worker() replaces only a worker that has ended.                   *)
OneWorker == \A w \in Workers : Alive(w) => w = worker

(* No request thread ever waits in the queue, and a worker only in get().  *)
OnlyGetWaits ==
    \A t \in Threads : call[t] # Out => t \in Workers /\ wpc[t] = "get"

Done == [k \in DOMAIN processed |-> processed[k].batch]

(* What left the queue went through ingest() or is in the worker's hand.   *)
TakenInOrder ==
    /\ InHand = {} => taken = Done
    /\ \A w \in InHand : taken = Append(Done, hand[w])

EndedIn(s, x) == {k \in DOMAIN s : s[k].ok = x}

(* The counters lag behind ingest() by the batch whose worker has not yet  *)
(* counted it.                                                             *)
CountersLag ==
    /\ \A w \in Workers : wpc[w] = "ok" =>
          /\ metrics.batches + 1 = Cardinality(EndedIn(processed, TRUE))
          /\ metrics.failed = Cardinality(EndedIn(processed, FALSE))
    /\ \A w \in Workers : wpc[w] = "failed" =>
          /\ metrics.batches = Cardinality(EndedIn(processed, TRUE))
          /\ metrics.failed + 1 = Cardinality(EndedIn(processed, FALSE))
    /\ (\A w \in Workers : wpc[w] \notin {"ok", "failed"}) =>
          /\ metrics.batches = Cardinality(EndedIn(processed, TRUE))
          /\ metrics.failed = Cardinality(EndedIn(processed, FALSE))

(* Whatever the store holds came from a batch that went through ingest().  *)
StoredWasProcessed ==
    \A i \in EventIds : log[i] # None =>
        \E m \in DOMAIN processed : \E n \in DOMAIN processed[m].batch :
            processed[m].batch[n] = log[i]

SInv ==
    /\ QInv
    /\ TypeOK
    /\ Shapes
    /\ OneWorker
    /\ OnlyGetWaits
    /\ TakenInOrder
    /\ CountersLag
    /\ StoredWasProcessed
    /\ EarlierWins
    /\ HealthHonest
-----------------------------------------------------------------------------
LEMMA WorkersAreThreads == Workers \subseteq Threads /\ Client \in Threads /\ Client \notin Workers
  BY ServiceAssumption

LEMMA BatchEvents ==
    ASSUME NEW b \in Batches
    PROVE  /\ DOMAIN b = 1..Len(b) /\ Len(b) \in Nat \ {0}
           /\ \A k \in DOMAIN b : b[k].id \in EventIds /\ b[k] # None
  BY ServiceAssumption, QueueAssumption

(* Every step of the service is a step of the queue, or leaves it alone.   *)
LEMMA ServiceStepsQueue == [Next]_vars => [QNext]_qvars
  <1> SUFFICES ASSUME [Next]_vars PROVE [QNext]_qvars
    OBVIOUS
  <1>1. ASSUME NEW b \in Batches, Submit(b) PROVE QNext
    BY <1>1, WorkersAreThreads DEF Submit, QNext
  <1>2. ASSUME StartWorker \/ StopWorker \/ JoinReturns PROVE UNCHANGED qvars
    BY <1>2 DEF StartWorker, StopWorker, JoinReturns
  <1>3. ASSUME NEW w \in Workers, WorkerStep(w) PROVE [QNext]_qvars
    <2>1. CASE CheckStop(w) \/ ThreadEnds(w) \/ Count(w)
      BY <2>1 DEF CheckStop, ThreadEnds, Count
    <2>2. CASE GetBatch(w)
      BY <2>2, WorkersAreThreads DEF GetBatch, QNext
    <2>3. CASE GetBatchResumes(w)
      BY <2>3, WorkersAreThreads DEF GetBatchResumes, QNext
    <2>4. CASE IngestSucceeds(w) \/ IngestFails(w)
      BY <2>4 DEF IngestSucceeds, IngestFails, Finish
    <2>5. QED BY <1>3, <2>1, <2>2, <2>3, <2>4 DEF WorkerStep
  <1>4. ASSUME NEW w \in Workers, PollTimeout(w) PROVE QNext
    BY <1>4, WorkersAreThreads DEF PollTimeout, QNext
  <1>5. CASE UNCHANGED vars
    BY <1>5 DEF vars
  <1>6. QED BY <1>1, <1>2, <1>3, <1>4, <1>5 DEF Next
-----------------------------------------------------------------------------
LEMMA InitSInv == Init => SInv
  <1> SUFFICES ASSUME Init PROVE SInv
    OBVIOUS
  <1>1. QInv
    BY InitQInv DEF Init
  <1>2. TypeOK
    <2>1. QTypeOK
      BY <1>1 DEF QInv
    <2>2. /\ stop \in BOOLEAN /\ worker \in Workers \cup {None} /\ joining \in BOOLEAN
          /\ wpc \in [Workers -> {"unborn", "loop", "get", "ingest", "ok", "failed", "ending",
                                  "dead"}]
          /\ \A w \in Workers : hand[w] \in Batches \cup {<<>>}
          /\ \A i \in EventIds : log[i] = None
      BY DEF Init
    <2>3. starts \in 0..MaxStarts /\ metrics \in [batches : Nat, events : Nat, failed : Nat]
      BY ServiceAssumption DEF Init
    <2>4. \A k \in DOMAIN processed : processed[k].batch \in Batches /\ processed[k].ok \in BOOLEAN
      BY DEF Init
    <2>5. QED BY <2>1, <2>2, <2>3, <2>4 DEF TypeOK
  <1>3. Shapes /\ OneWorker /\ HealthHonest
    BY DEF Init, Shapes, OneWorker, Alive, HealthHonest
  <1>4. OnlyGetWaits
    BY DEF Init, QInit, OnlyGetWaits
  <1>5. TakenInOrder
    <2>1. InHand = {} /\ taken = <<>> /\ processed = <<>>
      BY DEF Init, QInit, InHand
    <2>2. Done = <<>>
      BY <2>1 DEF Done
    <2>3. QED BY <2>1, <2>2 DEF TakenInOrder
  <1>6. CountersLag
    <2>1. EndedIn(processed, TRUE) = {} /\ EndedIn(processed, FALSE) = {}
      BY DEF Init, EndedIn
    <2>2. /\ \A w \in Workers : wpc[w] = "unborn"
          /\ metrics.batches = 0 /\ metrics.failed = 0
      BY DEF Init
    <2>3. QED BY <2>1, <2>2, FS_EmptySet DEF CountersLag
  <1>7. StoredWasProcessed /\ EarlierWins
    BY DEF Init, StoredWasProcessed, EarlierWins
  <1>8. QED BY <1>1, <1>2, <1>3, <1>4, <1>5, <1>6, <1>7 DEF SInv

(* A step that only moves the control of the owner or of a worker.         *)
LEMMA ControlStep ==
    ASSUME SInv, QInv', UNCHANGED <<taken, hand, log, metrics, processed>>,
           stop' \in BOOLEAN, worker' \in Workers \cup {None}, joining' \in BOOLEAN,
           starts' \in 0..MaxStarts,
           wpc' \in [Workers -> {"unborn", "loop", "get", "ingest", "ok", "failed", "ending",
                                 "dead"}],
           \A w \in Workers : \A c \in {"ingest", "ok", "failed"} : wpc'[w] = c <=> wpc[w] = c,
           OneWorker', OnlyGetWaits', HealthHonest'
    PROVE  SInv'
  <1>1. TypeOK'
    <2>1. QTypeOK'
      BY DEF QInv
    <2>2. QED BY <2>1 DEF SInv, TypeOK
  <1>2. Shapes'
    BY DEF SInv, Shapes
  <1>3. InHand' = InHand /\ Done' = Done
    BY DEF InHand, Done
  <1>4. TakenInOrder'
    BY <1>3 DEF SInv, TakenInOrder
  <1>5. CountersLag'
    BY DEF SInv, CountersLag
  <1>6. StoredWasProcessed' /\ EarlierWins'
    BY DEF SInv, StoredWasProcessed, EarlierWins
  <1>7. QED BY <1>1, <1>2, <1>4, <1>5, <1>6 DEF SInv

(* The queue's side of a step: no call is opened by it.                    *)
LEMMA NotifyOpensNothing ==
    ASSUME NEW calls, NEW t \in Threads, calls[t] = Out
    PROVE  NotifyAll(calls)[t] = Out
  BY DEF NotifyAll, Out

LEMMA SubmitKeepsSInv ==
    ASSUME SInv, QInv', NEW b \in Batches, Submit(b)
    PROVE  SInv'
  <1>1. call[Client] = Out /\ UNCHANGED svars /\ Client \in Threads
    BY WorkersAreThreads DEF Submit, Put
  <1>2. taken' = taken
    BY DEF Submit, Put, Enqueue, Reject, Wait
  <1>3. \A t \in Threads : call[t] = Out => call'[t] = Out
    <2>1. call \in [Threads -> Calls]
      BY DEF SInv, QInv, QTypeOK
    <2>2. CASE Enqueue(Client, b)
      <3>1. \A t \in Threads : call[t] = Out => [call EXCEPT ![Client] = Out][t] = Out
        BY <2>1
      <3>2. QED BY <2>2, <3>1, NotifyOpensNothing DEF Enqueue
    <2>3. CASE Reject(Client)
      BY <2>1, <2>3 DEF Reject
    <2>4. QED BY <2>2, <2>3 DEF Submit, Put
  <1>4. OnlyGetWaits'
    BY <1>1, <1>3 DEF SInv, OnlyGetWaits, svars
  <1>5. OneWorker' /\ HealthHonest'
    BY <1>1 DEF SInv, OneWorker, HealthHonest, Alive, svars
  <1>6. /\ stop' \in BOOLEAN /\ worker' \in Workers \cup {None} /\ joining' \in BOOLEAN
        /\ starts' \in 0..MaxStarts /\ wpc' = wpc
        /\ wpc' \in [Workers -> {"unborn", "loop", "get", "ingest", "ok", "failed", "ending",
                                 "dead"}]
    BY <1>1 DEF SInv, TypeOK, svars
  <1>7. UNCHANGED <<taken, hand, log, metrics, processed>>
    BY <1>1, <1>2 DEF svars
  <1>8. QED BY <1>4, <1>5, <1>6, <1>7, ControlStep

LEMMA PollTimeoutKeepsSInv ==
    ASSUME SInv, QInv', NEW v \in Workers, PollTimeout(v)
    PROVE  SInv'
  <1>1. UNCHANGED svars /\ taken' = taken /\ v \in Threads /\ call[v].timed
    BY WorkersAreThreads DEF PollTimeout, Expire
  <1>2. \A t \in Threads : call[t] = Out => call'[t] = Out
    <2>1. call \in [Threads -> Calls]
      BY DEF SInv, QInv, QTypeOK
    <2>2. \A t \in Threads : t # v => call'[t] = call[t]
      BY <2>1 DEF PollTimeout, Expire
    <2>3. call[v] # Out
      BY <1>1 DEF Out
    <2>4. QED BY <2>2, <2>3
  <1>3. OnlyGetWaits'
    BY <1>1, <1>2 DEF SInv, OnlyGetWaits, svars
  <1>4. OneWorker' /\ HealthHonest'
    BY <1>1 DEF SInv, OneWorker, HealthHonest, Alive, svars
  <1>5. /\ stop' \in BOOLEAN /\ worker' \in Workers \cup {None} /\ joining' \in BOOLEAN
        /\ starts' \in 0..MaxStarts /\ wpc' = wpc
        /\ wpc' \in [Workers -> {"unborn", "loop", "get", "ingest", "ok", "failed", "ending",
                                 "dead"}]
    BY <1>1 DEF SInv, TypeOK, svars
  <1>6. UNCHANGED <<taken, hand, log, metrics, processed>>
    BY <1>1 DEF svars
  <1>7. QED BY <1>3, <1>4, <1>5, <1>6, ControlStep

LEMMA StartWorkerKeepsSInv ==
    ASSUME SInv, QInv', StartWorker
    PROVE  SInv'
  <1>1. UNCHANGED <<qvars, hand, joining, log, metrics, processed>>
    BY DEF StartWorker
  <1>2. starts' \in 0..MaxStarts /\ joining' \in BOOLEAN
    BY ServiceAssumption DEF StartWorker, SInv, TypeOK
  <1>3. CASE UNCHANGED <<stop, worker, wpc>>
    <2>1. OneWorker' /\ HealthHonest' /\ OnlyGetWaits'
      BY <1>1, <1>3 DEF SInv, OneWorker, HealthHonest, OnlyGetWaits, Alive, qvars
    <2>2. /\ stop' \in BOOLEAN /\ worker' \in Workers \cup {None} /\ wpc' = wpc
          /\ wpc' \in [Workers -> {"unborn", "loop", "get", "ingest", "ok", "failed",
                                   "ending", "dead"}]
      BY <1>3 DEF SInv, TypeOK
    <2>3. QED BY <1>1, <1>2, <2>1, <2>2, ControlStep DEF qvars
  <1>4. CASE /\ ~WorkerAlive
             /\ stop' = FALSE
             /\ \E w \in Workers : /\ wpc[w] = "unborn"
                                   /\ worker' = w
                                   /\ wpc' = [wpc EXCEPT ![w] = "loop"]
    <2>1. PICK v \in Workers : /\ wpc[v] = "unborn" /\ worker' = v
                               /\ wpc' = [wpc EXCEPT ![v] = "loop"]
      BY <1>4
    <2>2. wpc \in [Workers -> {"unborn", "loop", "get", "ingest", "ok", "failed", "ending",
                              "dead"}]
      BY DEF SInv, TypeOK
    <2>3. \A w \in Workers : ~Alive(w)
      BY <1>4 DEF SInv, OneWorker, WorkerAlive
    <2>4. OneWorker'
      BY <2>1, <2>2, <2>3 DEF OneWorker, Alive
    <2>5. OnlyGetWaits'
      BY <1>1, <2>1, <2>2 DEF SInv, OnlyGetWaits, qvars
    <2>6. HealthHonest'
      BY <2>1, <2>2 DEF HealthHonest
    <2>7. \A w \in Workers : \A c \in {"ingest", "ok", "failed"} : wpc'[w] = c <=> wpc[w] = c
      BY <2>1, <2>2
    <2>8. /\ stop' \in BOOLEAN /\ worker' \in Workers \cup {None}
          /\ wpc' \in [Workers -> {"unborn", "loop", "get", "ingest", "ok", "failed",
                                   "ending", "dead"}]
      BY <1>4, <2>1, <2>2
    <2>9. QED BY <1>1, <1>2, <2>4, <2>5, <2>6, <2>7, <2>8, ControlStep DEF qvars
  <1>5. QED BY <1>3, <1>4 DEF StartWorker

LEMMA StopOrJoinKeepsSInv ==
    ASSUME SInv, QInv', StopWorker \/ JoinReturns
    PROVE  SInv'
  <1>1. /\ UNCHANGED <<qvars, worker, wpc, hand, starts, log, metrics, processed>>
        /\ joining' \in BOOLEAN /\ stop' \in BOOLEAN /\ (stop' = TRUE \/ stop' = stop)
    BY DEF StopWorker, JoinReturns, SInv, TypeOK
  <1>2. OneWorker' /\ HealthHonest' /\ OnlyGetWaits'
    BY <1>1 DEF SInv, OneWorker, HealthHonest, OnlyGetWaits, Alive, qvars
  <1>3. /\ worker' \in Workers \cup {None} /\ wpc' = wpc /\ starts' \in 0..MaxStarts
        /\ wpc' \in [Workers -> {"unborn", "loop", "get", "ingest", "ok", "failed",
                                 "ending", "dead"}]
    BY <1>1 DEF SInv, TypeOK
  <1>4. QED BY <1>1, <1>2, <1>3, ControlStep DEF qvars

LEMMA LoopStepKeepsSInv ==
    ASSUME SInv, QInv', NEW v \in Workers, CheckStop(v) \/ ThreadEnds(v)
    PROVE  SInv'
  <1>1. /\ UNCHANGED <<qvars, stop, worker, hand, joining, starts, log, metrics, processed>>
        /\ wpc[v] \in {"loop", "ending"}
    BY DEF CheckStop, ThreadEnds
  <1>2. PICK c \in {"ending", "get", "dead"} :
           /\ wpc' = [wpc EXCEPT ![v] = c]
           /\ c = "ending" => stop
           /\ c = "dead" => wpc[v] = "ending"
    BY DEF CheckStop, ThreadEnds, Goto
  <1>3. wpc \in [Workers -> {"unborn", "loop", "get", "ingest", "ok", "failed", "ending",
                            "dead"}]
    BY DEF SInv, TypeOK
  <1>4. OneWorker'
    BY <1>1, <1>2, <1>3 DEF SInv, OneWorker, Alive
  <1>5. OnlyGetWaits'
    BY <1>1, <1>2, <1>3 DEF SInv, OnlyGetWaits, qvars
  <1>6. HealthHonest'
    <2>1. v = worker
      BY <1>1 DEF SInv, OneWorker, Alive
    <2>2. QED BY <1>1, <1>2, <1>3, <2>1 DEF SInv, HealthHonest
  <1>7. \A w \in Workers : \A d \in {"ingest", "ok", "failed"} : wpc'[w] = d <=> wpc[w] = d
    BY <1>1, <1>2, <1>3
  <1>8. /\ stop' \in BOOLEAN /\ worker' \in Workers \cup {None} /\ joining' \in BOOLEAN
        /\ starts' \in 0..MaxStarts
        /\ wpc' \in [Workers -> {"unborn", "loop", "get", "ingest", "ok", "failed",
                                 "ending", "dead"}]
    BY <1>1, <1>2, <1>3 DEF SInv, TypeOK
  <1>9. QED BY <1>1, <1>4, <1>5, <1>6, <1>7, <1>8, ControlStep DEF qvars
-----------------------------------------------------------------------------
(* get() from the queue *)

(* get() took the head of the queue, or it took nothing and either waits   *)
(* or has returned.                                                        *)
LEMMA GetOutcomes ==
    ASSUME SInv, NEW v \in Workers, Get(v, TRUE, TRUE) \/ GetResumes(v), wpc[v] = "get"
    PROVE  /\ \/ /\ batches # <<>> /\ batches' # batches
                 /\ taken' = Append(taken, Head(batches)) /\ call'[v] = Out
              \/ batches' = batches /\ taken' = taken
           /\ \A t \in Threads : t # v /\ call[t] = Out => call'[t] = Out
  <1>1. v \in Threads /\ call \in [Threads -> Calls] /\ batches \in Seq(Batches)
    BY WorkersAreThreads DEF SInv, QInv, QTypeOK
  <1>2. CASE Dequeue(v)
    <2>1. batches # <<>> /\ taken' = Append(taken, Head(batches)) /\ batches' = Tail(batches)
      BY <1>2 DEF Dequeue
    <2>2. Tail(batches) # batches
      <3>1. Len(Tail(batches)) = Len(batches) - 1 /\ Len(batches) \in Nat
        BY <1>1, <2>1, HeadTailProperties
      <3>2. QED BY <3>1
    <2>3. \A t \in Threads : t = v \/ call[t] = Out => [call EXCEPT ![v] = Out][t] = Out
      BY <1>1
    <2>4. \A t \in Threads : t = v \/ call[t] = Out => call'[t] = Out
      BY <1>2, <2>3, NotifyOpensNothing DEF Dequeue
    <2>5. QED BY <1>1, <2>1, <2>2, <2>4
  <1>3. CASE \E k, b, d : Wait(v, k, b, d)
    BY <1>1, <1>3 DEF Wait
  <1>4. CASE GiveUp(v) \/ WaitAgain(v)
    BY <1>1, <1>4 DEF GiveUp, WaitAgain
  <1>5. QED BY <1>2, <1>3, <1>4 DEF Get, GetResumes

LEMMA GetBatchKeepsSInv ==
    ASSUME SInv, QInv', NEW v \in Workers, GetBatch(v) \/ GetBatchResumes(v)
    PROVE  SInv'
  <1>1. /\ wpc[v] = "get" /\ AfterGet(v)
        /\ Get(v, TRUE, TRUE) \/ GetResumes(v)
    BY DEF GetBatch, GetBatchResumes
  <1>2. /\ \/ /\ batches # <<>> /\ batches' # batches
              /\ taken' = Append(taken, Head(batches)) /\ call'[v] = Out
           \/ batches' = batches /\ taken' = taken
        /\ \A t \in Threads : t # v /\ call[t] = Out => call'[t] = Out
    BY <1>1, GetOutcomes
  <1>3. wpc \in [Workers -> {"unborn", "loop", "get", "ingest", "ok", "failed", "ending",
                            "dead"}]
    BY DEF SInv, TypeOK
  <1>4. UNCHANGED <<stop, worker, joining, starts, log, metrics, processed>>
    BY <1>1 DEF AfterGet
  <1>5. v = worker /\ \A w \in Workers : w # v => wpc[w] \in {"unborn", "dead"}
    BY <1>1 DEF SInv, OneWorker, Alive
  <1>6. /\ stop' \in BOOLEAN /\ worker' \in Workers \cup {None} /\ joining' \in BOOLEAN
        /\ starts' \in 0..MaxStarts
    BY <1>4 DEF SInv, TypeOK
  <1>7. CASE batches' = batches /\ taken' = taken
    <2>1. PICK c \in {"loop", "get"} : /\ wpc' = [wpc EXCEPT ![v] = c] /\ hand' = hand
                                       /\ c = "loop" => call'[v] = Out
      BY <1>1, <1>7 DEF AfterGet, Goto
    <2>2. OneWorker' /\ HealthHonest'
      BY <1>1, <1>3, <1>4, <1>5, <2>1 DEF SInv, OneWorker, HealthHonest, Alive
    <2>3. OnlyGetWaits'
      BY <1>2, <1>3, <2>1 DEF SInv, OnlyGetWaits
    <2>4. \A w \in Workers : \A d \in {"ingest", "ok", "failed"} : wpc'[w] = d <=> wpc[w] = d
      BY <1>1, <1>3, <2>1
    <2>5. wpc' \in [Workers -> {"unborn", "loop", "get", "ingest", "ok", "failed", "ending",
                               "dead"}]
      BY <1>3, <2>1
    <2>6. QED BY <1>4, <1>6, <1>7, <2>1, <2>2, <2>3, <2>4, <2>5, ControlStep
  <1>8. CASE /\ batches # <<>> /\ batches' # batches
             /\ taken' = Append(taken, Head(batches)) /\ call'[v] = Out
    <2>1. wpc' = [wpc EXCEPT ![v] = "ingest"] /\ hand' = [hand EXCEPT ![v] = Head(batches)]
      BY <1>1, <1>8 DEF AfterGet, Goto
    <2>2. Head(batches) \in Batches
      BY <1>8 DEF SInv, QInv, QTypeOK
    <2>3. hand \in [Workers -> Batches \cup {<<>>}]
      BY DEF SInv, Shapes
    <2>4. TypeOK'
      <3>1. QTypeOK'
        BY DEF QInv
      <3>2. wpc' \in [Workers -> {"unborn", "loop", "get", "ingest", "ok", "failed",
                                  "ending", "dead"}]
        BY <1>3, <2>1
      <3>3. \A w \in Workers : hand'[w] \in Batches \cup {<<>>}
        BY <2>1, <2>2, <2>3
      <3>4. QED BY <1>4, <1>6, <3>1, <3>2, <3>3 DEF SInv, TypeOK
    <2>5. Shapes'
      BY <1>3, <1>4, <2>1, <2>2, <2>3 DEF SInv, Shapes
    <2>6. OneWorker' /\ HealthHonest'
      BY <1>3, <1>4, <1>5, <2>1 DEF SInv, OneWorker, HealthHonest, Alive
    <2>7. OnlyGetWaits'
      BY <1>2, <1>3, <1>8, <2>1 DEF SInv, OnlyGetWaits
    <2>8. TakenInOrder'
      <3>1. InHand = {} /\ InHand' = {v}
        BY <1>1, <1>3, <1>5, <2>1 DEF InHand
      <3>2. taken = Done /\ Done' = Done
        BY <1>4, <3>1 DEF SInv, TakenInOrder, Done
      <3>3. hand'[v] = Head(batches)
        BY <2>1, <2>3
      <3>4. QED BY <1>8, <3>1, <3>2, <3>3 DEF TakenInOrder
    <2>9. CountersLag'
      BY <1>1, <1>3, <1>4, <1>5, <2>1 DEF SInv, CountersLag
    <2>10. StoredWasProcessed' /\ EarlierWins'
      BY <1>4 DEF SInv, StoredWasProcessed, EarlierWins
    <2>11. QED BY <2>4, <2>5, <2>6, <2>7, <2>8, <2>9, <2>10 DEF SInv
  <1>9. QED BY <1>2, <1>7, <1>8
-----------------------------------------------------------------------------
(* ingest() and the store *)

LEMMA LeastPosition ==
    ASSUME NEW T, T \subseteq Nat, T # {}
    PROVE  \E n \in T : \A m \in T : n <= m
  <1> DEFINE R == OpToRel(<, Nat)
  <1>1. \A x, y \in Nat : x < y => <<x, y>> \in R
    BY DEF OpToRel
  <1>2. IsWellFoundedOn(R, Nat)
    BY NatLessThanWellFounded
  <1> HIDE DEF R
  <1>3. PICK n \in T : \A m \in T : ~ (<<m, n>> \in R)
    BY <1>2, WFMin
  <1>4. ASSUME NEW m \in T PROVE n <= m
    <2>1. m \in Nat /\ n \in Nat /\ ~ (m < n)
      BY <1>1, <1>3, <1>4
    <2>2. QED BY <2>1
  <1>5. QED BY <1>4

(* The event a batch stores under an id is the first with that id.         *)
LEMMA FirstInFacts ==
    ASSUME NEW b \in Batches, NEW i, \E k \in DOMAIN b : b[k].id = i
    PROVE  \E n \in DOMAIN b : /\ FirstIn(b, i) = b[n] /\ b[n].id = i
                               /\ \A j \in DOMAIN b : b[j].id = i => n <= j
  <1> DEFINE T == {k \in DOMAIN b : b[k].id = i}
             Q(k) == b[k].id = i /\ \A j \in 1..(k - 1) : b[j].id # i
             c == CHOOSE k \in DOMAIN b : Q(k)
  <1>1. DOMAIN b = 1..Len(b) /\ Len(b) \in Nat
    BY BatchEvents
  <1>2. T \subseteq Nat /\ T # {}
    BY <1>1
  <1>3. PICK n \in T : \A m \in T : n <= m
    BY <1>2, LeastPosition
  <1>4. \E k \in DOMAIN b : Q(k)
    <2>1. ASSUME NEW j \in 1..(n - 1), b[j].id = i PROVE FALSE
      <3>1. j \in T
        BY <1>1, <1>3, <2>1
      <3>2. QED BY <1>1, <1>3, <2>1, <3>1
    <2>2. QED BY <1>3, <2>1
  <1>5. c \in DOMAIN b /\ Q(c)
    BY <1>4
  <1>6. FirstIn(b, i) = b[c]
    BY DEF FirstIn
  <1>7. ASSUME NEW j \in DOMAIN b, b[j].id = i PROVE c <= j
    <2>1. c \in Nat /\ j \in Nat /\ j >= 1
      BY <1>1, <1>5, <1>7
    <2>2. CASE j < c
      <3>1. j \in 1..(c - 1)
        BY <2>1, <2>2
      <3>2. QED BY <1>5, <1>7, <3>1
    <2>3. QED BY <2>1, <2>2
  <1> HIDE DEF c
  <1>8. QED BY <1>5, <1>6, <1>7

(* The batches that ended one way, after one more has ended.               *)
LEMMA EndedAppend ==
    ASSUME NEW s \in Seq([batch : Batches, ok : BOOLEAN]), NEW b \in Batches,
           NEW ok \in BOOLEAN, NEW x \in BOOLEAN
    PROVE  LET t == Append(s, [batch |-> b, ok |-> ok])
           IN  /\ Cardinality(EndedIn(s, x)) \in Nat
               /\ Cardinality(EndedIn(t, x)) =
                     IF ok = x THEN Cardinality(EndedIn(s, x)) + 1
                     ELSE Cardinality(EndedIn(s, x))
  <1> DEFINE r == [batch |-> b, ok |-> ok]
             t == Append(s, r)
             n == Len(s)
  <1>1. n \in Nat /\ DOMAIN s = 1..n
    OBVIOUS
  <1>2. /\ DOMAIN t = 1..(n + 1) /\ t[n + 1] = r
        /\ \A k \in 1..n : t[k] = s[k]
    OBVIOUS
  <1>3. r.ok = ok
    OBVIOUS
  <1> HIDE DEF r, t, n
  <1>4. IsFiniteSet(EndedIn(s, x))
    <2>1. IsFiniteSet(1..n)
      BY <1>1, FS_Interval
    <2>2. QED BY <1>1, <2>1, FS_Subset DEF EndedIn
  <1>5. n + 1 \notin EndedIn(s, x)
    BY <1>1 DEF EndedIn
  <1>6. EndedIn(t, x) = IF ok = x THEN EndedIn(s, x) \cup {n + 1} ELSE EndedIn(s, x)
    BY <1>1, <1>2, <1>3 DEF EndedIn
  <1>7. Cardinality(EndedIn(s, x)) \in Nat
    BY <1>4, FS_CardinalityType
  <1>8. Cardinality(EndedIn(s, x) \cup {n + 1}) = Cardinality(EndedIn(s, x)) + 1
    BY <1>4, <1>5, FS_AddElement
  <1>9. QED BY <1>6, <1>7, <1>8 DEF t, r

LEMMA IngestKeepsSInv ==
    ASSUME SInv, QInv', NEW v \in Workers, NEW ok \in BOOLEAN, wpc[v] = "ingest",
           NEW S \in SUBSET Unstored(hand[v]), ok => S = Unstored(hand[v]),
           StoreIds(hand[v], S), Finish(v, ok)
    PROVE  SInv'
  <1> DEFINE b == hand[v]
             r == [batch |-> b, ok |-> ok]
             n == Len(processed)
  <1>1. /\ b \in Batches /\ processed \in Seq([batch : Batches, ok : BOOLEAN])
        /\ hand \in [Workers -> Batches \cup {<<>>}]
        /\ wpc \in [Workers -> {"unborn", "loop", "get", "ingest", "ok", "failed", "ending",
                               "dead"}]
    BY DEF SInv, Shapes, TypeOK
  <1>2. /\ DOMAIN b = 1..Len(b) /\ Len(b) \in Nat \ {0}
        /\ \A k \in DOMAIN b : b[k].id \in EventIds /\ b[k] # None
    BY <1>1, BatchEvents
  <1>3. r \in [batch : Batches, ok : BOOLEAN] /\ r.batch = b /\ r.ok = ok
    BY <1>1
  <1>4. /\ UNCHANGED <<qvars, stop, worker, hand, joining, starts, metrics>>
        /\ processed' = Append(processed, r)
        /\ wpc' = [wpc EXCEPT ![v] = IF ok THEN "ok" ELSE "failed"]
        /\ log' = [i \in EventIds |-> IF i \in S THEN FirstIn(b, i) ELSE log[i]]
    BY DEF Finish, Goto, StoreIds
  <1> HIDE DEF b, r
  <1>5. /\ processed' \in Seq([batch : Batches, ok : BOOLEAN]) /\ n \in Nat
        /\ DOMAIN processed = 1..n /\ DOMAIN processed' = 1..(n + 1)
        /\ processed'[n + 1] = r /\ \A k \in 1..n : processed'[k] = processed[k]
    BY <1>1, <1>3, <1>4
  <1> HIDE DEF n
  <1>6. \A k \in 1..n : processed[k].batch \in Batches /\ processed[k].ok \in BOOLEAN
    <2>1. \A k \in 1..n : processed[k] \in [batch : Batches, ok : BOOLEAN]
      BY <1>1, ElementOfSeq DEF n
    <2>2. QED BY <2>1
  <1>7. v = worker /\ \A w \in Workers : w # v => wpc[w] \in {"unborn", "dead"}
    BY DEF SInv, OneWorker, Alive
  <1>8. S \subseteq EventIds /\ \A i \in S : log[i] = None /\ \E k \in DOMAIN b : b[k].id = i
    BY DEF Unstored, b
  <1>9. ASSUME NEW i \in S
        PROVE  \E k \in DOMAIN b : /\ log'[i] = b[k] /\ b[k].id = i
                                   /\ \A j \in DOMAIN b : b[j].id = i => k <= j
    BY <1>1, <1>4, <1>8, FirstInFacts
  <1>10. \A i \in EventIds : log[i] # None => log'[i] = log[i]
    BY <1>4, <1>8
  <1>11. TypeOK'
    <2>1. QTypeOK'
      BY DEF QInv
    <2>2. wpc' \in [Workers -> {"unborn", "loop", "get", "ingest", "ok", "failed", "ending",
                               "dead"}]
      BY <1>1, <1>4
    <2>3. \A i \in EventIds :
             log'[i] = None \/ \E c \in Batches : \E k \in DOMAIN c : c[k].id = i /\ c[k] = log'[i]
      <3>1. ASSUME NEW i \in EventIds, i \notin S PROVE log'[i] = log[i]
        BY <1>4, <3>1
      <3>2. QED BY <1>1, <1>9, <3>1 DEF SInv, TypeOK
    <2>4. \A k \in DOMAIN processed' : processed'[k].batch \in Batches /\ processed'[k].ok \in BOOLEAN
      BY <1>3, <1>5, <1>6
    <2>5. QED BY <1>4, <2>1, <2>2, <2>3, <2>4 DEF SInv, TypeOK
  <1>12. Shapes'
    BY <1>1, <1>4, <1>5 DEF SInv, Shapes, b
  <1>13. OneWorker' /\ HealthHonest'
    BY <1>1, <1>4, <1>7 DEF SInv, OneWorker, HealthHonest, Alive
  <1>14. OnlyGetWaits'
    BY <1>1, <1>4 DEF SInv, OnlyGetWaits, qvars
  <1>15. TakenInOrder'
    <2>1. InHand = {v} /\ InHand' = {}
      BY <1>1, <1>4, <1>7 DEF InHand
    <2>2. taken = Append(Done, b)
      BY <2>1 DEF SInv, TakenInOrder, b
    <2>3. Done \in Seq(Batches) /\ Len(Done) = n /\ \A k \in 1..n : Done[k] = processed[k].batch
      BY <1>5, <1>6 DEF Done
    <2>4. Done' = Append(Done, b)
      <3>1. /\ Append(Done, b) \in Seq(Batches) /\ Len(Append(Done, b)) = n + 1
            /\ Append(Done, b)[n + 1] = b
            /\ \A k \in 1..n : Append(Done, b)[k] = processed[k].batch
        BY <1>1, <1>5, <2>3
      <3>2. Done' = [k \in 1..(n + 1) |-> processed'[k].batch]
        BY <1>5 DEF Done
      <3>3. /\ Done' \in Seq(Batches) /\ Len(Done') = n + 1
            /\ \A k \in 1..(n + 1) : Done'[k] = processed'[k].batch
        BY <1>1, <1>3, <1>5, <1>6, <3>2
      <3>4. \A k \in 1..(n + 1) : Done'[k] = Append(Done, b)[k]
        BY <1>3, <1>5, <3>1, <3>3
      <3>5. QED BY <3>1, <3>3, <3>4, SeqEqual
    <2>5. taken' = taken
      BY <1>4 DEF qvars
    <2>6. QED BY <2>1, <2>2, <2>4, <2>5 DEF TakenInOrder
  <1>16. CountersLag'
    <2>1. /\ metrics.batches = Cardinality(EndedIn(processed, TRUE))
          /\ metrics.failed = Cardinality(EndedIn(processed, FALSE))
      BY <1>7 DEF SInv, CountersLag
    <2>2. /\ Cardinality(EndedIn(processed', TRUE)) =
                IF ok = TRUE THEN metrics.batches + 1 ELSE metrics.batches
          /\ Cardinality(EndedIn(processed', FALSE)) =
                IF ok = FALSE THEN metrics.failed + 1 ELSE metrics.failed
      BY <1>1, <1>4, <2>1, EndedAppend, ZenonT(60) DEF r
    <2>3. \A w \in Workers : w # v => wpc'[w] \in {"unborn", "dead"}
      BY <1>1, <1>4, <1>7
    <2>4. wpc'[v] = IF ok THEN "ok" ELSE "failed"
      BY <1>1, <1>4
    <2>5. metrics' = metrics
      BY <1>4
    <2>6. QED BY <2>2, <2>3, <2>4, <2>5 DEF CountersLag
  <1>17. StoredWasProcessed'
    <2>1. ASSUME NEW i \in EventIds, log'[i] # None
          PROVE  \E m \in DOMAIN processed' : \E k \in DOMAIN processed'[m].batch :
                    processed'[m].batch[k] = log'[i]
      <3>1. CASE i \in S
        <4>1. PICK k \in DOMAIN b : log'[i] = b[k]
          BY <1>9, <3>1
        <4>2. n + 1 \in DOMAIN processed' /\ processed'[n + 1].batch = b
          BY <1>3, <1>5
        <4>3. QED BY <4>1, <4>2
      <3>2. CASE i \notin S
        <4>1. log'[i] = log[i]
          BY <1>4, <3>2
        <4>2. PICK m \in 1..n : \E k \in DOMAIN processed[m].batch : processed[m].batch[k] = log[i]
          BY <1>5, <2>1, <4>1 DEF SInv, StoredWasProcessed
        <4>3. m \in DOMAIN processed' /\ processed'[m] = processed[m]
          BY <1>5
        <4>4. QED BY <4>1, <4>2, <4>3
      <3>3. QED BY <3>1, <3>2
    <2>2. QED BY <2>1 DEF StoredWasProcessed
  <1>18. EarlierWins'
    <2> SUFFICES ASSUME NEW k \in 1..(n + 1), processed'[k].ok,
                        NEW j \in DOMAIN processed'[k].batch
                 PROVE  \/ log'[processed'[k].batch[j].id] = processed'[k].batch[j]
                        \/ \E m \in 1..k : \E l \in DOMAIN processed'[m].batch :
                              /\ processed'[m].batch[l] = log'[processed'[k].batch[j].id]
                              /\ m < k \/ l < j
      BY <1>5 DEF EarlierWins
    <2>1. CASE k \in 1..n
      <3> DEFINE e == processed[k].batch[j]
      <3>1. processed'[k] = processed[k] /\ processed[k].batch \in Batches
        BY <1>5, <1>6, <2>1
      <3>2. e.id \in EventIds /\ e # None
        BY <3>1, BatchEvents
      <3>3. CASE log[e.id] = e
        BY <1>10, <3>1, <3>2, <3>3
      <3>4. CASE \E m \in 1..k : \E l \in DOMAIN processed[m].batch :
                    processed[m].batch[l] = log[e.id] /\ (m < k \/ l < j)
        <4>1. PICK m \in 1..k : \E l \in DOMAIN processed[m].batch :
                    processed[m].batch[l] = log[e.id] /\ (m < k \/ l < j)
          BY <3>4
        <4>2. PICK l \in DOMAIN processed[m].batch :
                    processed[m].batch[l] = log[e.id] /\ (m < k \/ l < j)
          BY <4>1
        <4>3. m \in 1..n /\ processed'[m] = processed[m] /\ processed[m].batch \in Batches
          BY <1>5, <1>6, <2>1
        <4>4. log[e.id] # None
          BY <4>2, <4>3, BatchEvents
        <4>5. log'[e.id] = log[e.id]
          BY <1>10, <3>2, <4>4
        <4>6. QED BY <3>1, <4>2, <4>3, <4>5
      <3>5. QED BY <1>5, <2>1, <3>1, <3>3, <3>4 DEF SInv, EarlierWins
    <2>2. CASE k = n + 1
      <3>1. processed'[k].batch = b /\ ok
        BY <1>3, <1>5, <2>2
      <3> DEFINE e == b[j]
      <3>2. e.id \in EventIds /\ e # None /\ j \in DOMAIN b
        BY <1>2, <3>1
      <3>3. CASE e.id \in S
        <4>1. PICK l \in DOMAIN b : /\ log'[e.id] = b[l] /\ b[l].id = e.id
                                    /\ \A i \in DOMAIN b : b[i].id = e.id => l <= i
          BY <1>9, <3>3
        <4>2. l <= j /\ l \in Nat /\ j \in Nat
          BY <1>2, <3>2, <4>1
        <4>3. CASE l = j
          BY <3>1, <4>1, <4>3
        <4>4. CASE l < j
          <5>1. k \in 1..k
            BY <1>5, <2>2
          <5>2. QED BY <3>1, <4>1, <4>4, <5>1
        <4>5. QED BY <4>2, <4>3, <4>4
      <3>4. CASE e.id \notin S
        <4>1. log[e.id] # None
          BY <3>1, <3>2, <3>4 DEF Unstored, b
        <4>2. log'[e.id] = log[e.id]
          BY <1>10, <3>2, <4>1
        <4>3. PICK m \in 1..n : \E l \in DOMAIN processed[m].batch : processed[m].batch[l] = log[e.id]
          BY <1>5, <3>2, <4>1 DEF SInv, StoredWasProcessed
        <4>4. m \in 1..k /\ m < k /\ processed'[m] = processed[m]
          BY <1>5, <2>2
        <4>5. QED BY <3>1, <4>2, <4>3, <4>4
      <3>5. QED BY <3>3, <3>4
    <2>3. QED BY <1>5, <2>1, <2>2
  <1>19. QED BY <1>11, <1>12, <1>13, <1>14, <1>15, <1>16, <1>17, <1>18 DEF SInv

LEMMA CountKeepsSInv ==
    ASSUME SInv, QInv', NEW v \in Workers, Count(v)
    PROVE  SInv'
  <1>1. /\ hand[v] \in Batches /\ hand \in [Workers -> Batches \cup {<<>>}]
        /\ wpc \in [Workers -> {"unborn", "loop", "get", "ingest", "ok", "failed", "ending",
                               "dead"}]
        /\ metrics \in [batches : Nat, events : Nat, failed : Nat]
        /\ wpc[v] \in {"ok", "failed"}
    BY DEF SInv, Shapes, TypeOK, Count
  <1>2. Len(hand[v]) \in Nat
    BY <1>1, BatchEvents
  <1>3. /\ UNCHANGED <<qvars, stop, worker, joining, starts, log, processed>>
        /\ wpc' = [wpc EXCEPT ![v] = "loop"] /\ hand' = [hand EXCEPT ![v] = <<>>]
        /\ metrics' = IF wpc[v] = "ok"
                      THEN [metrics EXCEPT !.batches = @ + 1, !.events = @ + Len(hand[v])]
                      ELSE [metrics EXCEPT !.failed = @ + 1]
    BY DEF Count, Goto
  <1>4. v = worker /\ \A w \in Workers : w # v => wpc[w] \in {"unborn", "dead"}
    BY <1>1 DEF SInv, OneWorker, Alive
  <1>5. /\ metrics' \in [batches : Nat, events : Nat, failed : Nat]
        /\ metrics'.batches = IF wpc[v] = "ok" THEN metrics.batches + 1 ELSE metrics.batches
        /\ metrics'.failed = IF wpc[v] = "ok" THEN metrics.failed ELSE metrics.failed + 1
    <2>1. CASE wpc[v] = "ok"
      <3>1. metrics' = [metrics EXCEPT !.batches = @ + 1, !.events = @ + Len(hand[v])]
        BY <1>3, <2>1
      <3> DEFINE l == Len(hand[v])
      <3>2. metrics' = [metrics EXCEPT !.batches = @ + 1, !.events = @ + l] /\ l \in Nat
        BY <1>2, <3>1
      <3> HIDE DEF l
      <3>3. /\ metrics.batches \in Nat /\ metrics.events \in Nat /\ metrics.failed \in Nat
            /\ metrics' = [batches |-> metrics.batches + 1, events |-> metrics.events + l,
                           failed |-> metrics.failed]
        BY <1>1, <3>2
      <3>4. QED BY <2>1, <3>2, <3>3
    <2>2. CASE wpc[v] # "ok"
      <3>1. metrics' = [metrics EXCEPT !.failed = @ + 1]
        BY <1>3, <2>2
      <3>2. QED BY <1>1, <2>2, <3>1
    <2>3. QED BY <2>1, <2>2
  <1>6. TypeOK'
    <2>1. QTypeOK'
      BY DEF QInv
    <2>2. wpc' \in [Workers -> {"unborn", "loop", "get", "ingest", "ok", "failed", "ending",
                               "dead"}]
      BY <1>1, <1>3
    <2>3. \A w \in Workers : hand'[w] \in Batches \cup {<<>>}
      BY <1>1, <1>3
    <2>4. QED BY <1>3, <1>5, <2>1, <2>2, <2>3 DEF SInv, TypeOK
  <1>7. Shapes'
    BY <1>1, <1>3, <1>4 DEF SInv, Shapes
  <1>8. OneWorker' /\ HealthHonest'
    BY <1>1, <1>3, <1>4 DEF SInv, OneWorker, HealthHonest, Alive
  <1>9. OnlyGetWaits'
    BY <1>1, <1>3 DEF SInv, OnlyGetWaits, qvars
  <1>10. TakenInOrder'
    <2>1. InHand = {} /\ InHand' = {}
      BY <1>1, <1>3, <1>4 DEF InHand
    <2>2. Done' = Done /\ taken' = taken
      BY <1>3 DEF Done, qvars
    <2>3. QED BY <2>1, <2>2 DEF SInv, TakenInOrder
  <1>11. CountersLag'
    <2>1. \A w \in Workers : wpc'[w] \notin {"ok", "failed"}
      BY <1>1, <1>3, <1>4
    <2>2. QED BY <1>1, <1>3, <1>5, <2>1 DEF SInv, CountersLag
  <1>12. StoredWasProcessed' /\ EarlierWins'
    BY <1>3 DEF SInv, StoredWasProcessed, EarlierWins
  <1>13. QED BY <1>6, <1>7, <1>8, <1>9, <1>10, <1>11, <1>12 DEF SInv
-----------------------------------------------------------------------------
LEMMA SStep == SInv /\ [Next]_vars => SInv'
  <1> SUFFICES ASSUME SInv, [Next]_vars PROVE SInv'
    OBVIOUS
  <1>1. QInv'
    BY ServiceStepsQueue, QStep DEF SInv
  <1>2. ASSUME NEW b \in Batches, Submit(b) PROVE SInv'
    BY <1>1, <1>2, SubmitKeepsSInv
  <1>3. CASE StartWorker
    BY <1>1, <1>3, StartWorkerKeepsSInv
  <1>4. CASE StopWorker \/ JoinReturns
    BY <1>1, <1>4, StopOrJoinKeepsSInv
  <1>5. ASSUME NEW w \in Workers, WorkerStep(w) PROVE SInv'
    <2>1. CASE CheckStop(w) \/ ThreadEnds(w)
      BY <1>1, <2>1, LoopStepKeepsSInv
    <2>2. CASE GetBatch(w) \/ GetBatchResumes(w)
      BY <1>1, <2>2, GetBatchKeepsSInv
    <2>3. CASE IngestSucceeds(w)
      BY <1>1, <2>3, IngestKeepsSInv DEF IngestSucceeds
    <2>4. CASE IngestFails(w)
      <3>1. PICK S \in SUBSET Unstored(hand[w]) : StoreIds(hand[w], S)
        BY <2>4 DEF IngestFails
      <3>2. QED BY <1>1, <2>4, <3>1, IngestKeepsSInv DEF IngestFails
    <2>5. CASE Count(w)
      BY <1>1, <2>5, CountKeepsSInv
    <2>6. QED BY <1>5, <2>1, <2>2, <2>3, <2>4, <2>5 DEF WorkerStep
  <1>6. ASSUME NEW w \in Workers, PollTimeout(w) PROVE SInv'
    BY <1>1, <1>6, PollTimeoutKeepsSInv
  <1>7. CASE UNCHANGED vars
    <2>1. UNCHANGED svars /\ UNCHANGED qvars
      BY <1>7 DEF vars
    <2>2. TypeOK'
      BY <1>1, <2>1 DEF SInv, QInv, TypeOK, svars
    <2>3. Shapes' /\ OneWorker' /\ OnlyGetWaits' /\ HealthHonest'
      BY <2>1 DEF SInv, Shapes, OneWorker, Alive, OnlyGetWaits, HealthHonest, svars, qvars
    <2>4. InHand' = InHand /\ Done' = Done /\ taken' = taken
      BY <2>1 DEF InHand, Done, svars, qvars
    <2>5. TakenInOrder'
      BY <2>1, <2>4 DEF SInv, TakenInOrder, svars
    <2>6. CountersLag' /\ StoredWasProcessed' /\ EarlierWins'
      <3>1. /\ wpc' = wpc /\ metrics' = metrics /\ processed' = processed /\ log' = log
        BY <2>1 DEF svars
      <3>2. CountersLag'
        BY <3>1 DEF SInv, CountersLag
      <3>3. StoredWasProcessed'
        BY <3>1 DEF SInv, StoredWasProcessed
      <3>4. EarlierWins'
        BY <3>1 DEF SInv, EarlierWins
      <3>5. QED BY <3>2, <3>3, <3>4
    <2>7. QED BY <1>1, <2>2, <2>3, <2>5, <2>6 DEF SInv
  <1>8. QED BY <1>2, <1>3, <1>4, <1>5, <1>6, <1>7 DEF Next
-----------------------------------------------------------------------------
(* What the inductive invariant says of the answers the service gives.     *)

LEMMA OrderFromInv == SInv => AcceptedInOrder
  <1> SUFFICES ASSUME SInv PROVE AcceptedInOrder
    OBVIOUS
  <1>1. InHand \subseteq {worker}
    BY DEF SInv, OneWorker, Alive, InHand
  <1>2. Cardinality(InHand) <= 1
    <2>1. IsFiniteSet({worker}) /\ Cardinality({worker}) = 1
      BY FS_Singleton
    <2>2. QED BY <1>1, <2>1, FS_Subset
  <1>3. /\ batches \in Seq(Batches) /\ accepted = taken \o batches
        /\ Done \in Seq(Batches)
    <2>1. batches \in Seq(Batches) /\ accepted = taken \o batches
      BY DEF SInv, QInv, QTypeOK, Conserved
    <2>2. processed \in Seq([batch : Batches, ok : BOOLEAN])
      BY DEF SInv, Shapes
    <2>3. /\ Len(processed) \in Nat /\ DOMAIN processed = 1..Len(processed)
          /\ \A k \in 1..Len(processed) : processed[k].batch \in Batches
      <3>1. \A k \in 1..Len(processed) : processed[k] \in [batch : Batches, ok : BOOLEAN]
        BY <2>2, ElementOfSeq
      <3>2. QED BY <2>2, <3>1, LenProperties
    <2>4. Done \in [1..Len(processed) -> Batches]
      BY <2>3 DEF Done
    <2>5. QED BY <2>1, <2>3, <2>4
  <1>4. CASE InHand = {}
    <2>1. taken = Done
      BY <1>4 DEF SInv, TakenInOrder
    <2>2. Done \o <<>> = Done
      BY <1>3, ConcatEmptySeq
    <2>3. accepted = (Done \o <<>>) \o batches
      BY <1>3, <2>1, <2>2
    <2>4. QED BY <1>2, <1>4, <2>3 DEF AcceptedInOrder, Done
  <1>5. CASE InHand # {}
    <2> DEFINE w == CHOOSE u \in InHand : TRUE
    <2>1. w \in InHand
      BY <1>5
    <2> HIDE DEF w
    <2>2. taken = Append(Done, hand[w]) /\ hand[w] \in Batches
      BY <2>1 DEF SInv, TakenInOrder, Shapes, InHand
    <2>3. Append(Done, hand[w]) = Done \o <<hand[w]>>
      BY <1>3, <2>2
    <2>4. accepted = (Done \o <<hand[w]>>) \o batches
      BY <1>3, <2>2, <2>3
    <2>5. QED BY <1>2, <1>5, <2>4 DEF AcceptedInOrder, Done, w
  <1>6. QED BY <1>4, <1>5

LEMMA MetricsFromInv == SInv => MetricsHonest
  <1> SUFFICES ASSUME SInv PROVE MetricsHonest
    OBVIOUS
  <1> DEFINE T == EndedIn(processed, TRUE)
             F == EndedIn(processed, FALSE)
             C == {w \in Workers : wpc[w] \in {"ok", "failed"}}
  <1>1. /\ processed \in Seq([batch : Batches, ok : BOOLEAN])
        /\ metrics.batches \in Nat /\ metrics.failed \in Nat
    BY DEF SInv, Shapes, TypeOK
  <1>2. DOMAIN processed = 1..Len(processed) /\ Len(processed) \in Nat
    BY <1>1
  <1>3. IsFiniteSet(1..Len(processed)) /\ Cardinality(1..Len(processed)) = Len(processed)
    <2>1. /\ IsFiniteSet(1..Len(processed))
          /\ Cardinality(1..Len(processed)) =
                IF 1 > Len(processed) THEN 0 ELSE Len(processed) - 1 + 1
      BY <1>2, FS_Interval, SMTT(40)
    <2>2. QED BY <1>2, <2>1
  <1>4. T \cup F = 1..Len(processed) /\ T \cap F = {}
    BY <1>1, <1>2 DEF EndedIn
  <1>5. IsFiniteSet(T) /\ IsFiniteSet(F)
    BY <1>3, <1>4, FS_Subset
  <1>6. Cardinality(T) + Cardinality(F) = Len(processed)
    BY <1>3, <1>4, <1>5, DisjointUnion
  <1>7. Cardinality(T) \in Nat /\ Cardinality(F) \in Nat
    BY <1>5, FS_CardinalityType
  <1>8. C \subseteq {worker}
    BY DEF SInv, OneWorker, Alive
  <1>9. /\ metrics.batches <= Cardinality(T) /\ metrics.failed <= Cardinality(F)
        /\ metrics.batches + metrics.failed + Cardinality(C) = Len(processed)
    <2>1. CASE C = {}
      <3>1. Cardinality(C) = 0
        BY <2>1, FS_EmptySet
      <3>2. metrics.batches = Cardinality(T) /\ metrics.failed = Cardinality(F)
        BY <2>1 DEF SInv, CountersLag
      <3> HIDE DEF T, F, C
      <3>3. QED BY <1>1, <1>2, <1>6, <1>7, <3>1, <3>2
    <2>2. CASE C # {}
      <3>1. PICK w \in Workers : wpc[w] \in {"ok", "failed"}
        BY <2>2
      <3>2. C = {w}
        BY <1>8, <3>1
      <3>3. Cardinality(C) = 1
        BY <3>2, FS_Singleton
      <3>4. \/ metrics.batches + 1 = Cardinality(T) /\ metrics.failed = Cardinality(F)
            \/ metrics.batches = Cardinality(T) /\ metrics.failed + 1 = Cardinality(F)
        BY <3>1 DEF SInv, CountersLag
      <3> HIDE DEF T, F, C
      <3>5. QED BY <1>1, <1>2, <1>6, <1>7, <3>3, <3>4, SMTT(40)
    <2>3. QED BY <2>1, <2>2
  <1>10. QED BY <1>9 DEF MetricsHonest, EndedIn

(* For every set of workers, clients, batches and events, any capacity and *)
(* any number of stops, restarts and failing ingests: each batch answered  *)
(* with 202 is processed, in hand or queued, in the order of the answers;  *)
(* the earlier of two conflicting events is the one stored; /metrics and   *)
(* /healthz say what happened.                                             *)
THEOREM IngestionIsSound == Spec => []IngestionSound
  <1>1. SInv => IngestionSound
    BY OrderFromInv, MetricsFromInv DEF SInv, IngestionSound
  <1>2. QED BY InitSInv, SStep, <1>1, PTL DEF Spec
=============================================================================
