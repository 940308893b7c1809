------------------------- MODULE BoundedEventQueue -------------------------
(***************************************************************************)
(* BoundedEventQueue (src/storage/queue.py): batches of events behind one  *)
(* condition variable, bounded by their number of events.  Each action is  *)
(* one critical section: from taking the condition's lock to returning,    *)
(* raising, or giving the lock up in wait().  The clock appears only as    *)
(* Expire: the deadline of a call with a timeout may pass at any moment.   *)
(*                                                                         *)
(* Calls without any effect are left out: put() of an empty batch, put()   *)
(* of a batch larger than the queue, which raises before it takes the      *)
(* lock, and a non-blocking get() of an empty queue.                       *)
(***************************************************************************)
EXTENDS Integers, Sequences, FiniteSets

CONSTANTS
    Threads,     \* threads that call put() and get()
    Batches,     \* the batches they put: non-empty sequences of events
    MaxEvents,   \* capacity in events
    MaxPuts      \* bound on the put() calls that have returned

ASSUME QueueAssumption ==
    /\ MaxEvents \in Nat \ {0}
    /\ MaxPuts \in Nat
    /\ \A b \in Batches : Len(b) \in 1..MaxEvents

VARIABLES
    batches,    \* _batches
    pending,    \* _pending_events
    enqueued,   \* _enqueued_events
    dequeued,   \* _dequeued_events
    rejected,   \* _rejected_batches
    call,       \* thread -> the call it is blocked in
    accepted,   \* history: batches put, in order
    taken       \* history: batches got, in order

counters == <<enqueued, dequeued, rejected>>
qvars == <<batches, pending, enqueued, dequeued, rejected, call, accepted, taken>>

(* "waiting": inside Condition.wait.  "woken": notified or timed out, and  *)
(* about to take the lock again and re-test its loop condition.            *)
Out == [at |-> "out", kind |-> "none", batch |-> <<>>, timed |-> FALSE, expired |-> FALSE]

Calls == [at : {"waiting", "woken"}, kind : {"put", "get"}, batch : Batches \cup {<<>>},
          timed : BOOLEAN, expired : BOOLEAN] \cup {Out}

QTypeOK ==
    /\ batches \in Seq(Batches)
    /\ pending \in Int
    /\ enqueued \in Nat
    /\ dequeued \in Nat
    /\ rejected \in Nat
    /\ call \in [Threads -> Calls]
    /\ accepted \in Seq(Batches)
    /\ taken \in Seq(Batches)

QInit ==
    /\ batches = <<>>
    /\ pending = 0
    /\ enqueued = 0
    /\ dequeued = 0
    /\ rejected = 0
    /\ call = [t \in Threads |-> Out]
    /\ accepted = <<>>
    /\ taken = <<>>
-----------------------------------------------------------------------------
(* Fault variant: one waiter is enough.                                    *)
NotifyOne(calls) ==
    IF \E t \in Threads : calls[t].at = "waiting"
    THEN [calls EXCEPT ![CHOOSE t \in Threads : calls[t].at = "waiting"].at = "woken"]
    ELSE calls

(* Condition.notify_all *)
NotifyAll(calls) ==
    [t \in Threads |-> IF calls[t].at = "waiting" THEN [calls[t] EXCEPT !.at = "woken"]
                       ELSE calls[t]]

Room(b) == pending + Len(b) <= MaxEvents

Wait(t, kind, b, timed) ==
    /\ call' = [call EXCEPT ![t] = [at |-> "waiting", kind |-> kind, batch |-> b,
                                   timed |-> timed, expired |-> FALSE]]
    /\ UNCHANGED <<batches, pending, counters, accepted, taken>>

WaitAgain(t) ==
    /\ call' = [call EXCEPT ![t].at = "waiting"]
    /\ UNCHANGED <<batches, pending, counters, accepted, taken>>

Enqueue(t, b) ==
    /\ batches' = Append(batches, b)
    /\ pending' = pending + Len(b)
    /\ enqueued' = enqueued + Len(b)
    /\ call' = NotifyAll([call EXCEPT ![t] = Out])
    /\ accepted' = Append(accepted, b)
    /\ UNCHANGED <<dequeued, rejected, taken>>

(* Fault variant: the batch is read but only its first event is accounted. *)
DequeueOne(t) ==
    /\ batches # <<>>
    /\ batches' = Tail(batches)
    /\ pending' = pending - 1
    /\ dequeued' = dequeued + 1
    /\ call' = NotifyAll([call EXCEPT ![t] = Out])
    /\ taken' = Append(taken, Head(batches))
    /\ UNCHANGED <<enqueued, rejected, accepted>>

Dequeue(t) ==
    /\ batches # <<>>
    /\ batches' = Tail(batches)
    /\ pending' = pending - Len(Head(batches))
    /\ dequeued' = dequeued + Len(Head(batches))
    /\ call' = NotifyAll([call EXCEPT ![t] = Out])
    /\ taken' = Append(taken, Head(batches))
    /\ UNCHANGED <<enqueued, rejected, accepted>>

Reject(t) ==
    /\ rejected' = rejected + 1
    /\ call' = [call EXCEPT ![t] = Out]
    /\ UNCHANGED <<batches, pending, enqueued, dequeued, accepted, taken>>

(* get() that times out raises without counting.                           *)
GiveUp(t) ==
    /\ call' = [call EXCEPT ![t] = Out]
    /\ UNCHANGED <<batches, pending, counters, accepted, taken>>
-----------------------------------------------------------------------------
Put(t, b, block, timed) ==
    /\ call[t] = Out
    /\ Len(accepted) + rejected < MaxPuts
    /\ \/ Room(b) /\ Enqueue(t, b)
       \/ ~Room(b) /\ ~block /\ Reject(t)
       \/ ~Room(b) /\ block /\ Wait(t, "put", b, timed)

PutResumes(t) ==
    /\ call[t].at = "woken" /\ call[t].kind = "put"
    /\ \/ Room(call[t].batch) /\ Enqueue(t, call[t].batch)
       \/ ~Room(call[t].batch) /\ call[t].expired /\ Reject(t)
       \/ ~Room(call[t].batch) /\ ~call[t].expired /\ WaitAgain(t)

Get(t, block, timed) ==
    /\ call[t] = Out
    /\ \/ Dequeue(t)
       \/ batches = <<>> /\ block /\ Wait(t, "get", <<>>, timed)

GetResumes(t) ==
    /\ call[t].at = "woken" /\ call[t].kind = "get"
    /\ \/ Dequeue(t)
       \/ batches = <<>> /\ call[t].expired /\ GiveUp(t)
       \/ batches = <<>> /\ ~call[t].expired /\ WaitAgain(t)

(* Fault variant: a deadline passes without ending the wait.               *)
ExpireUnnoticed(t) ==
    /\ call[t].timed /\ ~call[t].expired
    /\ call' = [call EXCEPT ![t].expired = TRUE]
    /\ UNCHANGED <<batches, pending, counters, accepted, taken>>

(* The deadline of a timed call passes: wait(remaining) returns.           *)
Expire(t) ==
    /\ call[t].timed /\ ~call[t].expired
    /\ call' = [call EXCEPT ![t].expired = TRUE, ![t].at = "woken"]
    /\ UNCHANGED <<batches, pending, counters, accepted, taken>>

QNext ==
    \E t \in Threads :
        \/ \E b \in Batches, block, timed \in BOOLEAN : Put(t, b, block, timed)
        \/ \E block, timed \in BOOLEAN : Get(t, block, timed)
        \/ PutResumes(t)
        \/ GetResumes(t)
        \/ Expire(t)

QSpec == QInit /\ [][QNext]_qvars

(* A woken thread gets the lock in the end: critical sections are finite.  *)
(* Time passes, so every deadline does.                                    *)
QFairSpec ==
    QSpec /\ \A t \in Threads : WF_qvars(PutResumes(t) \/ GetResumes(t)) /\ WF_qvars(Expire(t))
-----------------------------------------------------------------------------
(* Properties *)

(* The events of a sequence of batches: one for every batch and position.  *)
Positions(s) == {p \in (1..Len(s)) \X (1..MaxEvents) : p[2] <= Len(s[p[1]])}

EventCount(s) == Cardinality(Positions(s))

(* The three counters agree with the queue's contents after any            *)
(* interleaving of puts, gets, timeouts and rejections, and the capacity,  *)
(* counted in events, is never exceeded.                                   *)
Accounting ==
    /\ pending = EventCount(batches)
    /\ enqueued - dequeued = pending
    /\ pending <= MaxEvents

(* Every batch put is got once, in the order of the puts.                  *)
Conserved == accepted = taken \o batches

(* The queue's state is sound at every moment: it has its types, its       *)
(* counters are those of its contents, and put() and get() neither lose,   *)
(* repeat nor reorder a batch, whichever calls wait, expire or are         *)
(* rejected meanwhile.                                                     *)
QueueSound == QTypeOK /\ Accounting /\ Conserved

(* No thread sleeps through its chance: a put() inside wait() has no room  *)
(* and a get() inside wait() has nothing to take, whichever thread made    *)
(* the last change.  One notify() instead of notify_all() would break it:  *)
(* it may wake a thread that cannot proceed.                               *)
NoLostWakeup ==
    \A t \in Threads : call[t].at = "waiting" =>
        \/ call[t].kind = "put" /\ ~Room(call[t].batch)
        \/ call[t].kind = "get" /\ batches = <<>>

(* A call with a timeout returns or raises.                                *)
TimedCallsReturn == \A t \in Threads : call[t].timed ~> call[t] = Out
=============================================================================
