---------------------------- MODULE NativeTokens ----------------------------
(***************************************************************************)
(* The token path of one training episode: the append-only context         *)
(* (src/integrations/verl/token_context.py), the transport between the     *)
(* proxy's serving threads and the trainer's event loop                    *)
(* (native_transport.py), and the one training sequence built from the     *)
(* captured calls (bridge.py, sequence.py).                                *)
(*                                                                         *)
(* A request has two halves: its serving thread, which waits with a        *)
(* timeout, and its coroutine on the loop, which can be interrupted only   *)
(* while it awaits the engine or the parser, and which may outlive the     *)
(* thread's timeout.  A token is [by, of]: who produced it ("engine" or    *)
(* "host") and for which request.  The messages of a request are the turns *)
(* Pi has seen, in order; text is left out.                                *)
(***************************************************************************)
EXTENDS Basics

CONSTANTS
    Requests,     \* completion requests Pi may make
    MaxPrompt,    \* prompt_length
    MaxResponse,  \* response_length of the whole episode
    MaxTokens,    \* max_tokens_per_generation
    MaxRequests,  \* max_model_requests_per_episode
    ExpectedStep, \* the weight-sync step the manager expects, or None
    OtherStep,    \* a step the engine may report by mistake
    Observations  \* token counts a round of tool results may have

ASSUME NativeAssumption ==
    /\ {MaxPrompt, MaxResponse, MaxTokens, MaxRequests} \subseteq Nat \ {0}
    /\ Observations \subseteq Nat \ {0}

VARIABLES
    ctx,    \* the AppendOnlyTokenContext
    bridge, \* the transport: [calls, step, error, truncated, unconfirmed]
    req,    \* req[r]: [thread, co, payload, prompt, budget, out]
    rows    \* model-evidence.jsonl

nativeVars == <<ctx, bridge, req, rows>>

Host(r, n) == [i \in 1..n |-> [by |-> "host", of |-> r]]
Engine(r, n) == [i \in 1..n |-> [by |-> "engine", of |-> r]]
Terminator(r) == <<[by |-> "host", of |-> r]>>

-----------------------------------------------------------------------------
(* AppendOnlyTokenContext.                                                 *)

NewContext ==
    [tokens |-> <<>>, initial |-> 0, messages |-> None, tools |-> None, pending |-> None,
     stripped |-> FALSE]

Remaining(c) == MaxResponse - (Len(c.tokens) - c.initial)

(* The messages of a request: the turns Pi has seen and what comes after   *)
(* the last of them.                                                       *)
Messages(p) == [seen |-> p.seen, results |-> p.results, size |-> p.size]

(* _message refuses structured content and tool arguments that are not     *)
(* JSON; _same_assistant_turn and the history comparison refuse an edit;   *)
(* the tool results must answer exactly the pending calls.                 *)
SuffixRefused(c, p) ==
    \/ p.malformed
    \/ c.pending = None
    \/ ~c.pending.calls
    \/ p.seen # Append(c.messages.seen, c.pending.turn)
    \/ ~p.results

(* The new template suffix, after the terminator the ledger still owes.    *)
NextSuffix(c, r, p) ==
    (IF c.stripped THEN Terminator(r) ELSE <<>>) \o Host(r, p.size)

InitialRefused(p) == p.malformed \/ p.seen # <<>> \/ p.size > MaxPrompt

(* prepare: the context after it, and whether it raised.  A suffix that    *)
(* leaves no room has been appended by the time it is refused.             *)
Prepare(c, r, p) ==
    IF c.tokens = <<>>
    THEN IF InitialRefused(p) THEN [ctx |-> c, raised |-> TRUE]
         ELSE [ctx |-> [c EXCEPT !.tokens = Host(r, p.size), !.initial = p.size,
                                 !.tools = p.tools, !.messages = Messages(p), !.pending = None],
               raised |-> FALSE]
    ELSE IF p.tools # c.tools \/ SuffixRefused(c, p) THEN [ctx |-> c, raised |-> TRUE]
         ELSE LET d == [c EXCEPT !.tokens = @ \o NextSuffix(c, r, p),
                                 !.messages = Messages(p), !.pending = None]
              IN  [ctx |-> d, raised |-> Remaining(d) <= 0]

(* An accept that trusts the engine to have kept its budget.               *)
AcceptRefusedIfEmpty(c, out) == out.size = 0

AcceptRefused(c, out) == out.size = 0 \/ out.size > Remaining(c)

Accept(c, r, out) ==
    [c EXCEPT !.tokens = @ \o Engine(r, out.size), !.stripped = ~out.ended,
              !.pending = [turn |-> r, calls |-> out.calls]]

-----------------------------------------------------------------------------
(* NativeTokenTransport.                                                   *)

NativeInit ==
    /\ ctx = NewContext
    /\ bridge = [calls |-> 0, step |-> None, error |-> FALSE, truncated |-> 0,
                 unconfirmed |-> 0]
    /\ req = [r \in Requests |-> [thread |-> "new", co |-> "none", payload |-> None,
                                  prompt |-> <<>>, budget |-> 0, out |-> None]]
    /\ rows = <<>>

(* What Pi may send: the continuation of the answer it has received, with  *)
(* or without the tool results; the last request again; or a first prompt, *)
(* which may be too long, malformed or carry other tools.                  *)
Payload(seen, results, malformed, tools, size) ==
    [seen |-> seen, results |-> results, malformed |-> malformed, tools |-> tools, size |-> size]

Payloads ==
    {Payload(<<>>, FALSE, FALSE, "frozen", 1), Payload(<<>>, FALSE, FALSE, "frozen", MaxPrompt + 1),
     Payload(<<>>, FALSE, TRUE, "frozen", 1), Payload(<<>>, FALSE, FALSE, "other", 1)}
    \cup (IF ctx.tokens = <<>> THEN {}
          ELSE {Payload(ctx.messages.seen, ctx.messages.results, FALSE, "frozen",
                        ctx.messages.size)})
    \cup (IF ctx.pending = None \/ req[ctx.pending.turn].thread # "answered" THEN {}
          ELSE {Payload(Append(ctx.messages.seen, ctx.pending.turn), TRUE, FALSE, "frozen", n) :
                  n \in Observations}
               \cup {Payload(Append(ctx.messages.seen, ctx.pending.turn), FALSE, FALSE, "frozen", 1),
                     Payload(<<ctx.pending.turn>>, TRUE, FALSE, "frozen", 1)})

Ask(r) ==
    /\ req[r].thread = "new"
    /\ r = CHOOSE q \in Requests : req[q].thread = "new"
    /\ \E p \in Payloads :
         req' = [req EXCEPT ![r].thread = "asked", ![r].payload = p]
    /\ UNCHANGED <<ctx, bridge, rows>>

(* _next_suffix on the messages of the last request again, while its turn  *)
(* waits for tool results: they have no message at the boundary, and the   *)
(* IndexError is none of the exceptions can_serve or do_POST catches.      *)
Resent(p) ==
    /\ ctx.pending # None /\ ctx.pending.calls
    /\ ~p.malformed /\ Messages(p) = ctx.messages

(* can_serve, asked before the engine: a request the budget cannot carry   *)
(* ends the episode instead of failing a call; every other doubt but a     *)
(* resent request is left for the call itself to raise.  A resent request  *)
(* ends its serving thread: no answer, no row, no error, nothing counted.  *)
CanServe(p) ==
    CASE bridge.error -> None
      [] bridge.calls >= MaxRequests -> "model_request_budget"
      [] ctx.tokens = <<>> \/ SuffixRefused(ctx, p) -> None
      [] Remaining(ctx) - Len(NextSuffix(ctx, None, p)) <= 0 -> "context_budget"
      [] OTHER -> None

AskCanServe(r) ==
    /\ req[r].thread = "asked"
    /\ LET p == req[r].payload
       IN  IF ~bridge.error /\ bridge.calls < MaxRequests /\ Resent(p)
           THEN req' = [req EXCEPT ![r].thread = "died"]
           ELSE IF CanServe(p) # None
           THEN req' = [req EXCEPT ![r].thread = "closed out"]
           ELSE req' = [req EXCEPT ![r].thread = "waiting", ![r].co = "scheduled"]
    /\ UNCHANGED <<ctx, bridge, rows>>

(* The coroutine up to the engine.                                         *)
Generate(r) ==
    /\ req[r].co = "scheduled"
    /\ LET p == req[r].payload
           prepared == Prepare(ctx, r, p)
       IN  IF bridge.error \/ bridge.calls >= MaxRequests
           THEN /\ req' = [req EXCEPT ![r].co = "raised"]
                /\ UNCHANGED <<ctx, bridge>>
           ELSE /\ bridge' = [bridge EXCEPT !.calls = @ + 1]
                /\ IF p.tools # "frozen"
                   THEN /\ req' = [req EXCEPT ![r].co = "raised"]
                        /\ UNCHANGED ctx
                   ELSE /\ ctx' = prepared.ctx
                        /\ req' = IF prepared.raised THEN [req EXCEPT ![r].co = "raised"]
                                  ELSE [req EXCEPT
                                          ![r].co = "engine",
                                          ![r].prompt = prepared.ctx.tokens,
                                          ![r].budget = IF MaxTokens < Remaining(prepared.ctx)
                                                        THEN MaxTokens
                                                        ELSE Remaining(prepared.ctx)]
    /\ UNCHANGED rows

(* The engine's answer: token count, did it end on the terminator, usable  *)
(* log-probabilities, its step, was it aborted, and does it call tools.    *)
Generation(size, ended, step, calls) ==
    [size |-> size, ended |-> ended, step |-> step, calls |-> calls, probs |-> TRUE,
     aborted |-> FALSE]

Generations ==
    {Generation(1, TRUE, ExpectedStep, TRUE), Generation(MaxTokens, FALSE, None, TRUE),
     Generation(1, FALSE, None, FALSE), Generation(0, FALSE, None, FALSE),
     Generation(1, TRUE, OtherStep, TRUE),
     [Generation(1, TRUE, None, FALSE) EXCEPT !.probs = FALSE],
     [Generation(1, TRUE, None, FALSE) EXCEPT !.aborted = TRUE]}

StepRefused(step) ==
    /\ step # None
    /\ \/ bridge.step # None /\ step # bridge.step
       \/ ExpectedStep # None /\ step # ExpectedStep

(* An engine call that raises ends like one without log-probabilities.     *)
EngineReturns(r) ==
    /\ req[r].co = "engine"
    /\ \E out \in Generations :
         IF ~out.probs \/ StepRefused(out.step)
         THEN /\ req' = [req EXCEPT ![r].co = "raised"]
              /\ UNCHANGED bridge
         ELSE /\ req' = [req EXCEPT ![r].co = "parsing", ![r].out = out]
              /\ bridge' = IF out.step = None THEN [bridge EXCEPT !.unconfirmed = @ + 1]
                           ELSE [bridge EXCEPT !.step = out.step]
    /\ UNCHANGED <<ctx, rows>>

(* After the parser: an abort is no turn; everything else is recorded and  *)
(* accepted.  A parser that raises only changes which calls are found.     *)
ParserReturns(r) ==
    /\ req[r].co = "parsing"
    /\ LET out == req[r].out
       IN  IF out.aborted
           THEN /\ req' = [req EXCEPT ![r].co = "raised"]
                /\ UNCHANGED <<ctx, bridge>>
           ELSE /\ bridge' = IF out.size < req[r].budget THEN bridge
                             ELSE [bridge EXCEPT !.truncated = @ + 1]
                /\ IF AcceptRefused(ctx, out)
                   THEN /\ req' = [req EXCEPT ![r].co = "raised"]
                        /\ UNCHANGED ctx
                   ELSE /\ ctx' = Accept(ctx, r, out)
                        /\ req' = [req EXCEPT ![r].co = "returned"]
    /\ UNCHANGED rows

(* __call__: the result, or any exception, as the answer; the proxy writes *)
(* the evidence row.                                                       *)
ThreadReturns(r) ==
    /\ req[r].thread = "waiting"
    /\ req[r].co \in {"returned", "raised"}
    /\ rows' = Append(rows, [of |-> r, ok |-> req[r].co = "returned",
                             prompt |-> req[r].prompt,
                             ids |-> IF req[r].co = "returned" THEN Engine(r, req[r].out.size)
                                     ELSE <<>>])
    /\ bridge' = [bridge EXCEPT !.error = @ \/ req[r].co = "raised"]
    /\ req' = [req EXCEPT ![r].thread = "answered"]
    /\ UNCHANGED ctx

(* future.result(timeout) gives up; the cancellation is only requested.    *)
ThreadTimesOut(r) ==
    /\ req[r].thread = "waiting"
    /\ rows' = Append(rows, [of |-> r, ok |-> FALSE, prompt |-> <<>>, ids |-> <<>>])
    /\ bridge' = [bridge EXCEPT !.error = TRUE]
    /\ req' = [req EXCEPT ![r].thread = "timed out"]
    /\ UNCHANGED ctx

(* It arrives at an await, unless the coroutine has ended before.          *)
CancelArrives(r) ==
    /\ req[r].thread = "timed out"
    /\ req[r].co \in {"scheduled", "engine", "parsing"}
    /\ req' = [req EXCEPT ![r].co = "cancelled"]
    /\ UNCHANGED <<ctx, bridge, rows>>

NativeStep(r) ==
    \/ Ask(r)
    \/ AskCanServe(r)
    \/ Generate(r)
    \/ EngineReturns(r)
    \/ ParserReturns(r)
    \/ ThreadReturns(r)
    \/ ThreadTimesOut(r)
    \/ CancelArrives(r)

-----------------------------------------------------------------------------
(* The training sequence.                                                  *)

(* build_per_call_segments: every prompt continues the call before it; the *)
(* rest is what the host appended.                                         *)
HistoryRewritten(E) ==
    \E i \in 1..(Len(E) - 1) :
      LET past == E[i].prompt \o E[i].ids
      IN  SubSeq(E[i + 1].prompt, 1, Len(past)) # past

Segment(E, i) ==
    [native |-> E[i].ids,
     suffix |-> IF i = Len(E) THEN <<>>
                ELSE SubSeq(E[i + 1].prompt, Len(E[i].prompt \o E[i].ids) + 1,
                            Len(E[i + 1].prompt))]

Marks(n, mark) == [i \in 1..n |-> mark]

SegmentMask(segment) == Marks(Len(segment.native), 1) \o Marks(Len(segment.suffix), 0)

(* assemble_episode_sequence.                                              *)
AssembleEpisodeSequence(E) ==
    LET after[i \in 0..Len(E)] ==
            IF i = 0 THEN [ids |-> <<>>, mask |-> <<>>, rounds |-> 0]
            ELSE LET s == Segment(E, i)
                 IN  [ids |-> after[i - 1].ids \o s.native \o s.suffix,
                      mask |-> after[i - 1].mask \o SegmentMask(s),
                      rounds |-> after[i - 1].rounds + (IF s.suffix = <<>> THEN 0 ELSE 1)]
    IN  after[Len(E)]

SequenceRefused(E) ==
    \/ E = <<>>
    \/ HistoryRewritten(E)
    \/ \E i \in DOMAIN E : ~E[i].ok \/ E[i].ids = <<>> \/ E[i].prompt = <<>>

-----------------------------------------------------------------------------
(* What may be trained on is what happened: whatever threads, timeouts,    *)
(* resent requests and late coroutines do, as long as the transport has    *)
(* recorded no error every engine token in the ledger belongs to a written *)
(* row or to a call whose thread still waits for it, and rows that         *)
(* assemble yield exactly a prefix of the ledger, within the response      *)
(* budget, with mask 1 on the engine's tokens and on no other, and all     *)
(* confirmed turns from one synchronized step.  The ledger may get ahead   *)
(* of the rows only with the error set, and then run() raises.             *)
TokensTruthful ==
    ~bridge.error =>
      /\ \A i \in DOMAIN ctx.tokens :
           ctx.tokens[i].by = "engine" =>
             \/ req[ctx.tokens[i].of].thread = "waiting"
             \/ \E j \in DOMAIN rows : rows[j].of = ctx.tokens[i].of /\ rows[j].ok
      /\ ~SequenceRefused(rows) =>
           LET sequence == AssembleEpisodeSequence(rows)
               begin == ctx.initial
           IN  /\ Len(sequence.ids) <= MaxResponse
               /\ rows[1].prompt = SubSeq(ctx.tokens, 1, begin)
               /\ sequence.ids = SubSeq(ctx.tokens, begin + 1, begin + Len(sequence.ids))
               /\ \A i \in DOMAIN sequence.ids :
                    sequence.mask[i] = 1 <=> sequence.ids[i].by = "engine"
               /\ \A i \in DOMAIN rows :
                    req[rows[i].of].out.step \in {ExpectedStep, bridge.step, None}
=============================================================================
