----------------------------- MODULE PiAdapter -----------------------------
(***************************************************************************)
(* PiJsonAdapter.convert (src/capture/pi_adapter.py): the NDJSON protocol  *)
(* of the Pi harness as trace events, and the process boundary             *)
(* run_pi_process puts around it (src/capture/pi_runner.py).               *)
(*                                                                         *)
(* A line of the protocol is a record with a type: "assistant" (message_end*)
(* of the assistant: stop, calls, time, usage), "result" (message_end of a *)
(* tool result: id, time), "tool_end" (tool_execution_end: id, error,      *)
(* text), "agent_end" (retry) or "junk" (not JSON, or no object).  Times   *)
(* are numbers, None where Pi states none.  Prose is left out: no          *)
(* definition reads it, except the ENOENT text of a failed tool.           *)
(***************************************************************************)
EXTENDS EpisodeAssembly

(* read_pi_ndjson: a malformed line is an issue, never a record.           *)
ReadPiNdjson(lines) ==
    [records |-> SelectSeq(lines, LAMBDA l : l.type # "junk"),
     issues |-> Len(SelectSeq(lines, LAMBDA l : l.type = "junk"))]

(* _tool_result_timestamps: the first stamped message with a call's id.    *)
ToolResultTime(records, id) ==
    LET stamped == {i \in DOMAIN records : /\ records[i].type = "result"
                                           /\ records[i].id = id /\ records[i].time # None}
    IN  IF stamped = {} THEN None ELSE records[Min(stamped)].time

(* _normalize_tool_error: only a result marked as an error, and only the   *)
(* file-not-found form.                                                    *)
NormalizeToolError(error, text) ==
    IF error /\ text = "ENOENT" THEN "FILE_NOT_FOUND" ELSE None

(* The locals of convert.                                                  *)
AdapterStart(issues) ==
    [events |-> <<>>, clock |-> -1, turn |-> 0, pending |-> {}, errors |-> 0,
     settled |-> FALSE, caps |-> {"MODEL_IO"}, issues |-> issues]

(* emit: the source's time, if it is later than the last event's.          *)
EmitAdaptedAsStated(st, fact, time) ==
    LET now == IF time = None THEN st.clock + 1 ELSE time
    IN  [st EXCEPT !.clock = now,
                   !.events = Append(@, [x \in DOMAIN fact \cup {"id", "seq", "time"} |->
                                           CASE x = "id" -> Len(st.events) + 1
                                             [] x = "seq" -> Len(st.events)
                                             [] x = "time" -> now
                                             [] OTHER -> fact[x]])]

EmitAdapted(st, fact, time) ==
    LET now == IF time = None \/ time <= st.clock THEN st.clock + 1 ELSE time
    IN  [st EXCEPT !.clock = now,
                   !.events = Append(@, [x \in DOMAIN fact \cup {"id", "seq", "time"} |->
                                           CASE x = "id" -> Len(st.events) + 1
                                             [] x = "seq" -> Len(st.events)
                                             [] x = "time" -> now
                                             [] OTHER -> fact[x]])]

AdaptedFact(type, span, parent, status) ==
    [type |-> type, span |-> span, parent |-> parent, status |-> status, passed |-> None,
     refs |-> {}, terminal |-> None, code |-> None]

TurnSpan(n) == <<"turn", n>>
ToolSpan(id) == <<"tool", id>>

(* The tool calls of one assistant message.                                *)
EmitToolCall(st, id, span, time) ==
    [EmitAdapted(st, AdaptedFact("TOOL_CALL", ToolSpan(id), span, "STARTED"), time)
       EXCEPT !.pending = {p \in @ : p.id # id} \cup {[id |-> id, parent |-> span]},
              !.caps = @ \cup {"TOOL_IO"}]

(* message_end of the assistant: a request just before the response.       *)
AssistantMessage(st, r) ==
    LET span == TurnSpan(st.turn + 1)
        asked == EmitAdapted(st, AdaptedFact("MODEL_REQUEST", span, None, "STARTED"),
                             IF r.time = None THEN None ELSE r.time - 1)
        answered == EmitAdapted(asked,
                                AdaptedFact("MODEL_RESPONSE", span, None,
                                            IF r.stop = "error" THEN "ERROR" ELSE "SUCCEEDED"),
                                r.time)
        noted == [answered EXCEPT !.turn = @ + 1,
                                  !.settled = @ \/ r.stop = "stop",
                                  !.errors = IF r.stop = "error" THEN @ + 1 ELSE @,
                                  !.caps = IF r.usage THEN @ \cup {"MODEL_TOKEN_USAGE"} ELSE @]
        after[i \in 0..Len(r.calls)] ==
            IF i = 0 THEN noted ELSE EmitToolCall(after[i - 1], r.calls[i], span, r.time)
    IN  after[Len(r.calls)]

(* tool_execution_end.  A result without an observed call is an issue, and *)
(* is recorded all the same.                                               *)
ToolEnd(st, r, records) ==
    LET known == {p \in st.pending : p.id = r.id}
        parent == IF known = {} THEN None ELSE (CHOOSE p \in known : TRUE).parent
    IN  [EmitAdapted(st, [AdaptedFact("TOOL_RESULT", ToolSpan(r.id), parent,
                                      IF r.error THEN "ERROR" ELSE "SUCCEEDED")
                            EXCEPT !.code = NormalizeToolError(r.error, r.text)],
                     ToolResultTime(records, r.id))
           EXCEPT !.pending = @ \ known,
                  !.issues = IF known = {} THEN @ + 1 ELSE @,
                  !.caps = @ \cup {"TOOL_IO"}]

AgentEnd(st, r) ==
    [EmitAdapted(st, AdaptedFact(IF r.retry THEN "RETRY_SCHEDULED" ELSE "TERMINATION_DECIDED",
                                 <<"harness", Len(st.events)>>, None, "SUCCEEDED"), None)
       EXCEPT !.caps = @ \cup {"TERMINATION_DECISIONS"}
                         \cup (IF r.retry THEN {"RETRY_DECISIONS"} ELSE {})]

AdaptRecord(st, r, records) ==
    CASE r.type = "assistant" -> AssistantMessage(st, r)
      [] r.type = "tool_end" -> ToolEnd(st, r, records)
      [] r.type = "agent_end" -> AgentEnd(st, r)
      [] OTHER -> st

(* Backend errors count unless a later message settled the run.            *)
SemanticBackendFailure(st) == st.errors > 0 /\ ~st.settled

DeclaredStatus(verifier) ==
    CASE verifier = "PASSED" -> "SUCCEEDED"
      [] verifier \in {"FAILED", "ERROR", "TIMEOUT"} -> verifier
      [] OTHER -> "UNKNOWN"

(* The declared verdict as a verification, cited by the terminal event.    *)
DeclareVerdict(st, declared) ==
    LET started == EmitAdapted(st, AdaptedFact("VERIFICATION_STARTED", "pi-verifier", None,
                                               "STARTED"), None)
        verified == EmitAdapted(started,
                                [AdaptedFact("VERIFICATION_FINISHED", "pi-verifier", None,
                                             DeclaredStatus(declared.verifier))
                                   EXCEPT !.passed = declared.verifier = "PASSED"], None)
    IN  EmitAdapted(verified,
                    [AdaptedFact("EPISODE_FINISHED", "pi-episode", None,
                                 IF declared.task = "SUCCESS" THEN "SUCCEEDED" ELSE "FAILED")
                       EXCEPT !.terminal = [task |-> declared.task,
                                            validity |-> declared.validity,
                                            verifier |-> declared.verifier,
                                            score |-> declared.score,
                                            evidence |-> {Len(verified.events)}]], None)

(* A failed backend leaves nothing to verify.                              *)
DeclareBackendFailure(st) ==
    EmitAdapted(st,
                [AdaptedFact("EPISODE_FINISHED", "pi-episode", None, "ERROR")
                   EXCEPT !.terminal = [task |-> "UNKNOWN", validity |-> "INFRA_INVALID",
                                        verifier |-> "NOT_RUN", score |-> None,
                                        evidence |-> {i \in DOMAIN st.events :
                                          /\ st.events[i].type = "MODEL_RESPONSE"
                                          /\ st.events[i].status = "ERROR"}]], None)

Convert(records, issues, declared) ==
    LET after[i \in 0..Len(records)] ==
            IF i = 0 THEN AdapterStart(issues) ELSE AdaptRecord(after[i - 1], records[i], records)
        read == after[Len(records)]
    IN  IF SemanticBackendFailure(read) THEN DeclareBackendFailure(read)
        ELSE DeclareVerdict(read, declared)

-----------------------------------------------------------------------------
(* run_pi_process: how the protocol ended, whatever the exit code says.    *)
StopReasons(records) ==
    [i \in 1..Len(SelectSeq(records, LAMBDA r : r.type = "assistant")) |->
        SelectSeq(records, LAMBDA r : r.type = "assistant")[i].stop]

(* Earlier errors do not invalidate a later settled response.              *)
ProtocolSettled(records) ==
    LET reasons == StopReasons(records)
    IN  reasons # <<>> /\ reasons[Len(reasons)] = "stop"
=============================================================================
