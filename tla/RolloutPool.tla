---------------------------- MODULE RolloutPool ----------------------------
(***************************************************************************)
(* LocalRolloutPool.run and RolloutPoolMetrics                             *)
(* (src/orchestration/rollout_pool.py): the calling thread registers the   *)
(* episodes, hands them to a ThreadPoolExecutor and collects the results   *)
(* in order; pool threads execute them; the first model request of an      *)
(* episode is reported by a thread of its model proxy, which may be late.  *)
(*                                                                         *)
(* The executor is the standard library's and is modelled by what map()    *)
(* and the with statement do: a result that raises cancels the futures     *)
(* that have not started, and leaving the block waits for the others.      *)
(* Stage timings are left out; a stage is timed when it is entered.        *)
(***************************************************************************)
EXTENDS Integers, Sequences, FiniteSets

CONSTANTS
    Episodes,        \* episode ids
    SpecLists,       \* the lists of specs run() may be given, as episode ids
    MaxConcurrency   \* max_concurrency

ASSUME PoolAssumption ==
    /\ SpecLists \subseteq Seq(Episodes)
    /\ MaxConcurrency \in Nat \ {0}

VARIABLES
    specs,     \* the specs of this run
    main,      \* [pc, n]: the calling thread and the spec it is at
    future,    \* episode -> its future
    stage,     \* _states; "NONE" before register
    status,    \* _terminal: episode -> terminal_status, "NONE" before finish
    observed,  \* episodes whose first model request has been reported
    report     \* pool-metrics.json: its snapshot, or the empty sequence

vars == <<specs, main, future, stage, status, observed, report>>

Stages == {"NONE", "QUEUED", "INIT", "RUN", "POSTRUN", "TERMINAL"}

Order(s) == CASE s = "QUEUED" -> 0 [] s = "INIT" -> 1 [] s = "RUN" -> 2 [] s = "POSTRUN" -> 3

InFlight == {e \in Episodes : stage[e] \in {"INIT", "RUN", "POSTRUN"}}

Running == {e \in Episodes : future[e] = "running"}

TypeOK ==
    /\ specs \in SpecLists
    /\ main.pc \in {"register", "submit", "collect", "drain", "returned", "raised"}
    /\ main.n \in 1..(Len(specs) + 1)
    /\ future \in [Episodes -> {"none", "pending", "running", "ok", "raised", "cancelled"}]
    /\ stage \in [Episodes -> Stages]
    /\ status \in [Episodes -> {"NONE", "COMPLETED", "FAILED"}]
    /\ observed \subseteq Episodes
    /\ report \in Seq(Nat)

Init ==
    /\ specs \in SpecLists
    /\ main = [pc |-> IF specs = <<>> THEN "drain" ELSE "register", n |-> 1]
    /\ future = [e \in Episodes |-> "none"]
    /\ stage = [e \in Episodes |-> "NONE"]
    /\ status = [e \in Episodes |-> "NONE"]
    /\ observed = {}
    /\ report = <<>>

-----------------------------------------------------------------------------
(* RolloutPoolMetrics.  Each operation runs under the lock.                *)

(* A transition that only looks for a registered episode.                  *)
TransitionUnchecked(e, s) ==
    IF stage[e] = "NONE" THEN stage ELSE [stage EXCEPT ![e] = s]

(* transition(): the stages after it; an unknown or terminal episode and a *)
(* regression raise and change nothing.                                    *)
Transition(e, s) ==
    IF stage[e] \in {"NONE", "TERMINAL"} \/ Order(s) < Order(stage[e])
    THEN stage
    ELSE [stage EXCEPT ![e] = s]

Count(s) == Cardinality({e \in Episodes : stage[e] = s})

CompletedTotal == Cardinality({e \in Episodes : status[e] = "COMPLETED"})

FailedTotal == Cardinality({e \in Episodes : status[e] # "NONE"}) - CompletedTotal

(* snapshot()                                                              *)
Snapshot ==
    <<Count("QUEUED"), Count("INIT"), Count("RUN"), Count("POSTRUN"), CompletedTotal,
      FailedTotal>>

-----------------------------------------------------------------------------
(* The calling thread.                                                     *)

(* The executor's map() is entered once every spec is registered.          *)
NextSpec(pc, next) ==
    IF main.n < Len(specs) THEN [pc |-> pc, n |-> main.n + 1] ELSE [pc |-> next, n |-> 1]

Register ==
    LET e == specs[main.n]
    IN  /\ main.pc = "register"
        /\ IF stage[e] # "NONE"
           THEN main' = [main EXCEPT !.pc = "raised"] /\ UNCHANGED stage
           ELSE /\ stage' = [stage EXCEPT ![e] = "QUEUED"]
                /\ main' = NextSpec("register", "submit")
        /\ UNCHANGED <<specs, future, status, observed, report>>

Submit ==
    /\ main.pc = "submit"
    /\ future' = [future EXCEPT ![specs[main.n]] = "pending"]
    /\ main' = NextSpec("submit", "collect")
    /\ UNCHANGED <<specs, stage, status, observed, report>>

(* The results are taken in the order of the specs, whatever order they    *)
(* ended in.                                                               *)
Collect ==
    /\ main.pc = "collect"
    /\ future[specs[main.n]] = "ok"
    /\ main' = IF main.n < Len(specs) THEN [main EXCEPT !.n = @ + 1]
                                      ELSE [main EXCEPT !.pc = "drain", !.n = Len(specs) + 1]
    /\ UNCHANGED <<specs, future, stage, status, observed, report>>

CollectRaises ==
    /\ main.pc = "collect"
    /\ future[specs[main.n]] = "raised"
    /\ future' = [e \in Episodes |-> IF future[e] = "pending" THEN "cancelled" ELSE future[e]]
    /\ main' = [main EXCEPT !.pc = "drain"]
    /\ UNCHANGED <<specs, stage, status, observed, report>>

(* The end of the with block waits for every running future; only then,    *)
(* and only if no result raised, pool-metrics.json is written.             *)
Drain ==
    /\ main.pc = "drain"
    /\ Running = {}
    /\ IF main.n > Len(specs)
       THEN main' = [main EXCEPT !.pc = "returned"] /\ report' = Snapshot
       ELSE main' = [main EXCEPT !.pc = "raised"] /\ UNCHANGED report
    /\ UNCHANGED <<specs, future, stage, status, observed>>

Main == Register \/ Submit \/ Collect \/ CollectRaises \/ Drain

-----------------------------------------------------------------------------
(* A pool thread: the function one() on one episode.                       *)

(* A pool whose slots are not given back when an episode ends.             *)
StartTaskLeaking(e) ==
    /\ future[e] = "pending"
    /\ Cardinality({d \in Episodes : future[d] \in {"running", "ok", "raised"}})
          < MaxConcurrency
    /\ future' = [future EXCEPT ![e] = "running"]
    /\ stage' = Transition(e, "INIT")
    /\ UNCHANGED <<specs, main, status, observed, report>>

StartTask(e) ==
    /\ future[e] = "pending"
    /\ Cardinality(Running) < MaxConcurrency
    /\ future' = [future EXCEPT ![e] = "running"]
    /\ stage' = Transition(e, "INIT")
    /\ UNCHANGED <<specs, main, status, observed, report>>

(* The harness has returned: the orchestrator calls the observer.          *)
ObservePostrun(e) ==
    /\ future[e] = "running"
    /\ stage[e] \in {"INIT", "RUN"}
    /\ stage' = Transition(e, "POSTRUN")
    /\ UNCHANGED <<specs, main, future, status, observed, report>>

(* finish(): FAILED when the execution raised, at any stage, or when its   *)
(* artifact is not COMPLETED.                                              *)
FinishTask(e, result) ==
    /\ future[e] = "running"
    /\ result # "raised" => stage[e] = "POSTRUN"
    /\ future' = [future EXCEPT ![e] = IF result = "raised" THEN "raised" ELSE "ok"]
    /\ stage' = [stage EXCEPT ![e] = "TERMINAL"]
    /\ status' = [status EXCEPT ![e] = IF result = "COMPLETED" THEN result ELSE "FAILED"]
    /\ UNCHANGED <<specs, main, observed, report>>

Task(e) ==
    \/ StartTask(e)
    \/ ObservePostrun(e)
    \/ \E r \in {"COMPLETED", "FAILED", "raised"} : FinishTask(e, r)

(* The proxy thread that serves the first model request of the episode.    *)
(* The harness may be gone, and the episode over, before it reports.       *)
ObserveRun(e) ==
    /\ future[e] \in {"running", "ok", "raised"}
    /\ e \notin observed
    /\ observed' = observed \cup {e}
    /\ stage' = Transition(e, "RUN")
    /\ UNCHANGED <<specs, main, future, status, report>>

Next == Main \/ \E e \in Episodes : Task(e) \/ ObserveRun(e)

Spec == Init /\ [][Next]_vars

(* Threads that can run do; an execution ends, for its harness and its     *)
(* verifier have timeouts.  Nothing obliges an episode to call the model.  *)
FairSpec == Spec /\ WF_vars(Main) /\ \A e \in Episodes : WF_vars(Task(e))

-----------------------------------------------------------------------------
(* Properties.                                                             *)

(* The gauges tell the truth at every moment: an episode counts as in      *)
(* flight exactly while a pool thread executes it, so there are never more *)
(* than max_concurrency; it counts as finished, with one status, exactly   *)
(* when its future has ended; and one left QUEUED by a finished run was    *)
(* never started.  A late report of a model request changes none of this.  *)
GaugesTruthful ==
    /\ InFlight = Running
    /\ Cardinality(InFlight) <= MaxConcurrency
    /\ \A e \in Episodes :
          /\ future[e] \in {"ok", "raised"} <=> stage[e] = "TERMINAL"
          /\ status[e] # "NONE" <=> stage[e] = "TERMINAL"
          /\ future[e] = "raised" => status[e] = "FAILED"

(* pool-metrics.json accounts for every spec of the run, has nothing in    *)
(* flight, and is there exactly when run() has returned: a run that raised *)
(* leaves none, whatever it completed.                                     *)
ReportComplete ==
    /\ report # <<>> <=> main.pc = "returned"
    /\ report # <<>> =>
          /\ \A i \in 1..4 : report[i] = 0
          /\ report[5] + report[6] = Len(specs)
          /\ report[5] = CompletedTotal

(* What an operator is told about the pool, live or afterwards, is what    *)
(* its threads did.                                                        *)
PoolTruthful == TypeOK /\ GaugesTruthful /\ ReportComplete

(* run() comes to an end for good, with no episode still executing:        *)
(* whatever raises and whenever, nothing waits for a future that no thread *)
(* will run.                                                               *)
RunEnds == <>[](main.pc \in {"returned", "raised"} /\ Running = {})
=============================================================================
