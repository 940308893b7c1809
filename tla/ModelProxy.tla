----------------------------- MODULE ModelProxy -----------------------------
(***************************************************************************)
(* The capture layer of one execution: the trace recorder                  *)
(* (src/capture/recorder.py) with its raw event log, the model proxy       *)
(* service (src/capture/model_proxy_http.py) with its evidence log, and    *)
(* the harness event ingress (src/capture/harness_http.py).  Every request *)
(* of the harness is served by a thread of its own, which outlives the     *)
(* harness and the server: ThreadingHTTPServer does not join its daemon    *)
(* threads.  LocalExecution extends this module with the orchestrator that *)
(* owns the proxy.                                                         *)
(*                                                                         *)
(* A request is a member of Calls; its messages and its answer are         *)
(* abstracted to what the answer carries: "native" (2xx with token ids,    *)
(* log-probabilities and a policy revision), "bare" (2xx without them) or  *)
(* "error" (any other status, the proxy's own 502 included).               *)
(***************************************************************************)
EXTENDS EpisodeAssembly

CONSTANTS
    Calls,           \* model requests the harness may make
    MaxCalls,        \* max_calls of the service
    Answers,         \* what an answer may carry
    HasObserver,     \* is on_first_model_request set?
    NativeTransport  \* is upstream_transport set (with its can_serve hook)?

ASSUME ProxyAssumption ==
    /\ MaxCalls \in Nat \ {0}
    /\ Answers \subseteq {"native", "bare", "error"}
    /\ {HasObserver, NativeTransport} \subseteq BOOLEAN

VARIABLES
    log,        \* raw-events.jsonl
    nextSeq,    \* TraceRecorder._next_sequence
    evidence,   \* model-evidence.jsonl
    call,       \* call[c]: [pc, answer] of the thread that serves request c
    callCount,  \* _call_count
    observed,   \* _observed_first_model_request
    recordLock, \* holder of _record_lock, or None
    closeouts   \* calls answered by a budget instead of the model

proxyVars == <<log, nextSeq, evidence, call, callCount, observed, recordLock,
               closeouts>>

ProxyTypeOK ==
    /\ nextSeq \in Nat
    /\ \A i \in DOMAIN log : log[i].seq \in Nat
    /\ \A i \in DOMAIN evidence : evidence[i] \in [call : Calls, answer : Answers]
    /\ call \in [Calls -> [pc : {"new", "posted", "first", "counted", "sent", "answered",
                                 "evidenced", "done", "closeout", "refused", "raised"},
                           answer : Answers \cup {None}]]
    /\ callCount \in 0..MaxCalls
    /\ observed \in BOOLEAN
    /\ recordLock \in Calls \cup {None}
    /\ closeouts \subseteq Calls

ProxyInit ==
    /\ log = <<>>
    /\ nextSeq = 0
    /\ evidence = <<>>
    /\ call = [c \in Calls |-> [pc |-> "new", answer |-> None]]
    /\ callCount = 0
    /\ observed = FALSE
    /\ recordLock = None
    /\ closeouts = {}

-----------------------------------------------------------------------------
(* TraceRecorder.emit: under the recorder's own lock the event takes the   *)
(* next sequence number, is appended, and only then is the number spent.   *)
Fact(type, span, status) ==
    [type |-> type, span |-> span, parent |-> None, status |-> status, passed |-> None,
     refs |-> {}, terminal |-> None]

Emit(fact) ==
    /\ log' = Append(log, [x \in DOMAIN fact \cup {"id", "seq"} |->
                             CASE x = "id" -> Len(log) + 1
                               [] x = "seq" -> nextSeq
                               [] OTHER -> fact[x]])
    /\ nextSeq' = nextSeq + 1

CallSpan(c) == <<"model", c>>

(* HarnessEventIngress.emit: facts only the harness can observe.  Sandbox  *)
(* lifecycle, verdicts, model traffic and the terminal event belong to the *)
(* host and are refused.                                                   *)
HarnessEventTypes == {"TOOL_CALL", "TOOL_RESULT", "SANDBOX_COMMAND", "HARNESS_DECISION",
                      "CONTEXT_SELECTED", "CONTEXT_COMPACTED", "RETRY_SCHEDULED",
                      "TERMINATION_DECIDED"}

IngressAccepts(fact) == fact.type \in HarnessEventTypes

IngressEmit(fact) ==
    /\ IngressAccepts(fact)
    /\ Emit(fact)
    /\ UNCHANGED <<evidence, call, callCount, observed, recordLock, closeouts>>

-----------------------------------------------------------------------------
(* forward_chat_completions, one action per stretch between two points at  *)
(* which another thread can run.                                           *)

MoveTo(c, pc) == call' = [call EXCEPT ![c].pc = pc]

(* The request reaches the server and gets a thread.                       *)
PostCall(c) ==
    /\ call[c].pc = "new"
    /\ MoveTo(c, "posted")
    /\ UNCHANGED <<log, nextSeq, evidence, callCount, observed, recordLock, closeouts>>

BudgetSpent == callCount >= MaxCalls

(* The first critical section: a spent budget, or a transport that cannot  *)
(* fit another turn, answers without a model call; otherwise the call is   *)
(* counted, and the first one owes the observer a notification.            *)
Closeout(c) ==
    /\ call[c].pc = "posted"
    /\ recordLock = None
    /\ BudgetSpent \/ NativeTransport
    /\ MoveTo(c, "closeout")
    /\ closeouts' = closeouts \cup {c}
    /\ UNCHANGED <<log, nextSeq, evidence, callCount, observed, recordLock>>

AdmitCall(c) ==
    /\ call[c].pc = "posted"
    /\ recordLock = None
    /\ ~BudgetSpent
    /\ callCount' = callCount + 1
    /\ observed' = TRUE
    /\ MoveTo(c, IF ~observed /\ HasObserver THEN "first" ELSE "counted")
    /\ UNCHANGED <<log, nextSeq, evidence, recordLock, closeouts>>

RecordRequest(c) ==
    /\ call[c].pc = "counted"
    /\ recordLock = None
    /\ Emit(Fact("MODEL_REQUEST", CallSpan(c), "STARTED"))
    /\ MoveTo(c, "sent")
    /\ UNCHANGED <<evidence, callCount, observed, recordLock, closeouts>>

(* The upstream call, outside the lock.                                    *)
SendUpstream(c) ==
    /\ call[c].pc = "sent"
    /\ \E a \in Answers : call' = [call EXCEPT ![c] = [pc |-> "answered", answer |-> a]]
    /\ UNCHANGED <<log, nextSeq, evidence, callCount, observed, recordLock, closeouts>>

(* A transport error _send_upstream does not convert: the thread dies with *)
(* the request on record and no response.                                  *)
UpstreamRaises(c) ==
    /\ call[c].pc = "sent"
    /\ MoveTo(c, "raised")
    /\ UNCHANGED <<log, nextSeq, evidence, callCount, observed, recordLock, closeouts>>

(* A writer that keeps only answers with native evidence.                  *)
AppendNativeEvidenceOnly(c) ==
    /\ call[c].pc = "answered"
    /\ recordLock = None
    /\ recordLock' = c
    /\ evidence' = IF call[c].answer # "native" THEN evidence
                   ELSE Append(evidence, [call |-> c, answer |-> call[c].answer])
    /\ MoveTo(c, "evidenced")
    /\ UNCHANGED <<log, nextSeq, callCount, observed, closeouts>>

(* The last critical section, two files: evidence first, ...               *)
AppendEvidence(c) ==
    /\ call[c].pc = "answered"
    /\ recordLock = None
    /\ recordLock' = c
    /\ evidence' = Append(evidence, [call |-> c, answer |-> call[c].answer])
    /\ MoveTo(c, "evidenced")
    /\ UNCHANGED <<log, nextSeq, callCount, observed, closeouts>>

(* ... then the response event.                                            *)
RecordResponse(c) ==
    /\ call[c].pc = "evidenced"
    /\ recordLock' = None
    /\ Emit(Fact("MODEL_RESPONSE", CallSpan(c),
                 IF call[c].answer = "error" THEN "FAILED" ELSE "SUCCEEDED"))
    /\ MoveTo(c, "done")
    /\ UNCHANGED <<evidence, callCount, observed, closeouts>>

(* The event log refuses the response (its validation or its write         *)
(* raises): the lock is given back, the evidence stays without its event.  *)
ResponseLost(c) ==
    /\ call[c].pc = "evidenced"
    /\ recordLock' = None
    /\ MoveTo(c, "raised")
    /\ UNCHANGED <<log, nextSeq, evidence, callCount, observed, closeouts>>

(* The steps a serving thread takes on its own.                            *)
ServeCall(c) ==
    \/ Closeout(c)
    \/ AdmitCall(c)
    \/ RecordRequest(c)
    \/ SendUpstream(c)
    \/ UpstreamRaises(c)
    \/ AppendEvidence(c)
    \/ RecordResponse(c)
    \/ ResponseLost(c)

(* Threads that may be in the middle of appending a line.                  *)
WritingLog == {c \in Calls : call[c].pc \in {"counted", "evidenced"}}
WritingEvidence == {c \in Calls : call[c].pc = "answered"}

Answered(E) == {c \in Calls : CallSpan(c) \in Spans(OfType(E, "MODEL_RESPONSE"))}
=============================================================================
