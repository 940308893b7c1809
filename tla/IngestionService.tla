-------------------------- MODULE IngestionService --------------------------
(***************************************************************************)
(* StorageIngestionService and StorageHttpServer                           *)
(* (src/storage/http_service.py) on top of BoundedEventQueue: request      *)
(* handlers put parsed batches into the queue and answer 202 or 429, one   *)
(* background worker takes them out and calls PartitionedEventStore.ingest,*)
(* and the owner of the service starts and stops the worker.               *)
(*                                                                         *)
(* The store appears by its abstract specification, EventLog: a write-once *)
(* map from ids to events.  A request that is refused before put(), for    *)
(* its path, its size or an event the schema registry does not accept,     *)
(* changes nothing and is left out.                                        *)
(***************************************************************************)
EXTENDS BoundedEventQueue

CONSTANTS
    EventIds,    \* TraceEvent.event_id; an event is [id, body]
    Workers,     \* worker threads, one per effective start_worker()
    Client,      \* any of the HTTP server's request threads
    MaxStarts,   \* bound on start_worker() calls
    None

ASSUME ServiceAssumption ==
    /\ Threads = Workers \cup {Client}
    /\ Client \notin Workers
    /\ None \notin Workers
    /\ MaxStarts \in Nat
    /\ \A b \in Batches : /\ DOMAIN b = 1..Len(b)
                          /\ \A k \in DOMAIN b : b[k].id \in EventIds /\ b[k] # None

VARIABLES
    stop,        \* _stop
    worker,      \* _worker
    wpc,         \* worker thread -> where it is in _run_worker
    hand,        \* worker thread -> the batch it has taken
    joining,     \* is the owner inside stop_worker's join?
    starts,      \* start_worker() calls so far
    log,         \* the event store: id -> event
    metrics,     \* _ingested_batches, _ingested_events, _failed_batches
    processed    \* history: [batch, ok], in the order ingest() ended

svars == <<stop, worker, wpc, hand, joining, starts, log, metrics, processed>>
vars == <<qvars, svars>>

(* Thread.is_alive: also of a thread that has seen the stop flag and has   *)
(* not ended yet.                                                          *)
Alive(w) == wpc[w] \notin {"unborn", "dead"}

WorkerAlive == \E w \in Workers : w = worker /\ Alive(w)

TypeOK ==
    /\ QTypeOK
    /\ stop \in BOOLEAN
    /\ worker \in Workers \cup {None}
    /\ wpc \in [Workers -> {"unborn", "loop", "get", "ingest", "ok", "failed", "ending",
                        "dead"}]
    /\ \A w \in Workers : hand[w] \in Batches \cup {<<>>}
    /\ joining \in BOOLEAN
    /\ starts \in 0..MaxStarts
    /\ \A i \in EventIds :
          log[i] = None \/ \E b \in Batches : \E k \in DOMAIN b : b[k].id = i /\ b[k] = log[i]
    /\ metrics \in [batches : Nat, events : Nat, failed : Nat]
    /\ \A k \in DOMAIN processed : processed[k].batch \in Batches /\ processed[k].ok \in BOOLEAN

Init ==
    /\ QInit
    /\ stop = FALSE
    /\ worker = None
    /\ wpc = [w \in Workers |-> "unborn"]
    /\ hand = [w \in Workers |-> <<>>]
    /\ joining = FALSE
    /\ starts = 0
    /\ log = [i \in EventIds |-> None]
    /\ metrics = [batches |-> 0, events |-> 0, failed |-> 0]
    /\ processed = <<>>
-----------------------------------------------------------------------------
(* Request threads: do_POST -> submit_payload -> put(block=False).         *)
Submit(b) ==
    /\ Put(Client, b, FALSE, FALSE)
    /\ UNCHANGED svars
-----------------------------------------------------------------------------
(* The owner: start_worker and stop_worker *)

(* Fault variant: the previous worker is not asked whether it still runs.  *)
StartAnother ==
    /\ ~joining
    /\ starts < MaxStarts
    /\ starts' = starts + 1
    /\ stop' = FALSE
    /\ \E w \in Workers : /\ wpc[w] = "unborn"
                          /\ worker' = w
                          /\ wpc' = [wpc EXCEPT ![w] = "loop"]
    /\ UNCHANGED <<qvars, hand, joining, log, metrics, processed>>

(* start_worker in one step: a worker that is found dead stays dead, and   *)
(* from _stop.clear() to the new thread's first step nobody else acts on   *)
(* the flag; health() only reports it.                                     *)
StartWorker ==
    /\ ~joining
    /\ starts < MaxStarts
    /\ starts' = starts + 1
    /\ \/ WorkerAlive /\ UNCHANGED <<stop, worker, wpc>>
       \/ /\ ~WorkerAlive
          /\ stop' = FALSE
          /\ \E w \in Workers : /\ wpc[w] = "unborn"
                                /\ worker' = w
                                /\ wpc' = [wpc EXCEPT ![w] = "loop"]
    /\ UNCHANGED <<qvars, hand, joining, log, metrics, processed>>

StopWorker ==
    /\ ~joining
    /\ stop' = TRUE
    /\ joining' = (worker # None)
    /\ UNCHANGED <<qvars, worker, wpc, hand, starts, log, metrics, processed>>

(* join(timeout=5) returns when the worker is dead, or after five seconds  *)
(* with the worker still running.                                          *)
JoinReturns ==
    /\ joining
    /\ joining' = FALSE
    /\ UNCHANGED <<qvars, stop, worker, wpc, hand, starts, log, metrics, processed>>
-----------------------------------------------------------------------------
(* The worker: _run_worker *)

Goto(w, at) == wpc' = [wpc EXCEPT ![w] = at]

CheckStop(w) ==
    /\ wpc[w] = "loop"
    /\ Goto(w, IF stop THEN "ending" ELSE "get")
    /\ UNCHANGED <<qvars, stop, worker, hand, joining, starts, log, metrics, processed>>

ThreadEnds(w) ==
    /\ wpc[w] = "ending"
    /\ Goto(w, "dead")
    /\ UNCHANGED <<qvars, stop, worker, hand, joining, starts, log, metrics, processed>>

(* What the worker does when get() has returned, raised or blocked.        *)
AfterGet(w) ==
    /\ IF batches' # batches THEN Goto(w, "ingest") /\ hand' = [hand EXCEPT ![w] = Head(batches)]
       ELSE /\ Goto(w, IF call'[w] = Out THEN "loop" ELSE "get")
            /\ UNCHANGED hand
    /\ UNCHANGED <<stop, worker, joining, starts, log, metrics, processed>>

(* Fault variant: get() without its timeout.                               *)
GetUntimed(w) ==
    /\ wpc[w] = "get"
    /\ Get(w, TRUE, FALSE)
    /\ AfterGet(w)

GetBatch(w) ==
    /\ wpc[w] = "get"
    /\ Get(w, TRUE, TRUE)
    /\ AfterGet(w)

GetBatchResumes(w) ==
    /\ wpc[w] = "get"
    /\ GetResumes(w)
    /\ AfterGet(w)

(* PartitionedEventStore.ingest: the first content under an id is stored,  *)
(* later ones are duplicates or quarantined.                               *)
FirstIn(b, i) == b[CHOOSE k \in DOMAIN b : b[k].id = i /\ \A j \in 1..(k - 1) : b[j].id # i]

Unstored(b) == {i \in EventIds : log[i] = None /\ \E k \in DOMAIN b : b[k].id = i}

StoreIds(b, S) == log' = [i \in EventIds |-> IF i \in S THEN FirstIn(b, i) ELSE log[i]]

Finish(w, ok) ==
    /\ processed' = Append(processed, [batch |-> hand[w], ok |-> ok])
    /\ Goto(w, IF ok THEN "ok" ELSE "failed")
    /\ UNCHANGED <<qvars, stop, worker, hand, joining, starts, metrics>>

IngestSucceeds(w) ==
    /\ wpc[w] = "ingest"
    /\ StoreIds(hand[w], Unstored(hand[w]))
    /\ Finish(w, TRUE)

(* Fault variant: the exception ends the worker thread.                    *)
IngestFailsFatally(w) ==
    /\ wpc[w] = "ingest"
    /\ Goto(w, "dead")
    /\ UNCHANGED <<qvars, stop, worker, hand, joining, starts, log, metrics, processed>>

(* ingest() raises, with some of the batch already appended.  The worker   *)
(* drops the batch and goes on.                                            *)
IngestFails(w) ==
    /\ wpc[w] = "ingest"
    /\ \E S \in SUBSET Unstored(hand[w]) : StoreIds(hand[w], S)
    /\ Finish(w, FALSE)

Count(w) ==
    /\ wpc[w] \in {"ok", "failed"}
    /\ metrics' = IF wpc[w] = "ok"
                  THEN [metrics EXCEPT !.batches = @ + 1, !.events = @ + Len(hand[w])]
                  ELSE [metrics EXCEPT !.failed = @ + 1]
    /\ hand' = [hand EXCEPT ![w] = <<>>]
    /\ Goto(w, "loop")
    /\ UNCHANGED <<qvars, stop, worker, joining, starts, log, processed>>

WorkerStep(w) ==
    \/ CheckStop(w) \/ ThreadEnds(w) \/ GetBatch(w) \/ GetBatchResumes(w)
    \/ IngestSucceeds(w) \/ IngestFails(w) \/ Count(w)

PollTimeout(w) == Expire(w) /\ UNCHANGED svars

Next ==
    \/ \E b \in Batches : Submit(b)
    \/ StartWorker \/ StopWorker \/ JoinReturns
    \/ \E w \in Workers : WorkerStep(w) \/ PollTimeout(w)

Spec == Init /\ [][Next]_vars

(* A running worker thread is scheduled, ingest() ends, time passes.  The  *)
(* owner and the clients may do nothing.                                   *)
FairSpec == Spec /\ \A w \in Workers : WF_vars(WorkerStep(w)) /\ WF_vars(PollTimeout(w))
-----------------------------------------------------------------------------
(* Properties *)

InHand == {w \in Workers : wpc[w] = "ingest"}

(* Every batch answered with 202 is, in the order of the answers, already  *)
(* through ingest(), in the hand of one worker, or still queued, across    *)
(* any restarts of the worker.                                             *)
AcceptedInOrder ==
    /\ Cardinality(InHand) <= 1
    /\ accepted = [k \in DOMAIN processed |-> processed[k].batch]
                  \o (IF InHand = {} THEN <<>> ELSE <<hand[CHOOSE w \in InHand : TRUE]>>)
                  \o batches

(* The acceptance order decides conflicts: an event of an ingested batch   *)
(* is what the store holds, unless an event accepted before it under the   *)
(* same id is.                                                             *)
EarlierWins ==
    \A k \in DOMAIN processed : processed[k].ok =>
        \A j \in DOMAIN processed[k].batch :
            LET e == processed[k].batch[j] IN
            \/ log[e.id] = e
            \/ \E m \in 1..k : \E n \in DOMAIN processed[m].batch :
                  /\ processed[m].batch[n] = log[e.id]
                  /\ m < k \/ n < j

(* /metrics never claims a batch that ingest() has not stored and, when no *)
(* worker is between ingest() and its counter, accounts for every batch    *)
(* that left the queue, stored or lost.                                    *)
MetricsHonest ==
    LET Ended(ok) == {k \in DOMAIN processed : processed[k].ok = ok}
        Counting  == {w \in Workers : wpc[w] \in {"ok", "failed"}}
    IN  /\ metrics.batches <= Cardinality(Ended(TRUE))
        /\ metrics.failed <= Cardinality(Ended(FALSE))
        /\ metrics.batches + metrics.failed + Cardinality(Counting) = Len(processed)

(* /healthz: once a worker was started, "ok" (the stop flag is clear)      *)
(* means that a worker is running and is not about to end.                 *)
HealthHonest == worker # None /\ ~stop => wpc[worker] \notin {"unborn", "ending", "dead"}

(* The service keeps its word on every batch it answered with 202, across  *)
(* stops, joins that time out, restarts and failing ingests: none is lost  *)
(* or overtaken unseen, the earlier of two conflicting events is the one   *)
(* stored, and /metrics and /healthz say what happened.                    *)
IngestionSound == TypeOK /\ AcceptedInOrder /\ EarlierWins /\ MetricsHonest /\ HealthHonest

(* While nobody stops the worker, every accepted batch is ingested or      *)
(* counted as failed.                                                      *)
AcceptedProcessed ==
    \A n \in 1..MaxPuts :
        (Len(accepted) >= n /\ worker # None /\ ~stop) ~> (Len(processed) >= n \/ stop)

(* A worker that was told to stop ends, even if no batch ever arrives: it  *)
(* polls the flag because get() has a timeout.                             *)
StopEnds == \A w \in Workers : (stop /\ Alive(w)) ~> (~Alive(w) \/ ~stop)
=============================================================================
