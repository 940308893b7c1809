--------------------------- MODULE ResponseReplay ---------------------------
(***************************************************************************)
(* What the model proxy makes of one upstream response (src/capture/       *)
(* model_proxy_http.py): tool calls recovered from the text, the token     *)
(* evidence taken from the backend's extension or from the standard        *)
(* fields, and the stream replayed to Pi.  ModelProxy holds the threads    *)
(* and the logs around it.                                                 *)
(*                                                                         *)
(* A response: ok (a 2xx status), choices, calls (None, or a sequence of   *)
(* call names, "scalar" for an entry that is no object and "shapeless" for *)
(* one without a function), text (is there content?), found (calls that    *)
(* can be read in the content), ext and std, its token evidence.  A token  *)
(* array is its length, None when absent and Bad when it is no array of    *)
(* numbers.                                                                *)
(***************************************************************************)
EXTENDS Basics, SequencesExt

Bad == -1
Malformed == [malformed |-> TRUE]   \* an extension that is no object

(* _recover_tool_calls: the engine's own parse wins, an empty one does not.*)
RecoverToolCalls(r) ==
    IF ~r.choices \/ (r.calls # None /\ r.calls # <<>>) \/ r.found = <<>> THEN r
    ELSE [r EXCEPT !.calls = r.found, !.finish = "tool_calls"]

-----------------------------------------------------------------------------
(* _standard_response_token_ids, _standard_response_logprobs and           *)
(* _standard_prompt_token_ids; items are the entries of the logprob list.  *)
StandardIds(std) ==
    CASE std.ids = Bad -> None
      [] std.ids # None /\ std.ids # 0 -> std.ids
      [] std.items > 0 /\ std.keyed -> std.items
      [] OTHER -> None

StandardLogprobs(std) == IF std.items > 0 /\ std.numeric THEN std.items ELSE None

StandardPrompt(std) == IF std.prompt \in {Bad, 0} THEN None ELSE std.prompt

(* _optional_tuple: an array of the extension, and the standard field for  *)
(* an absent or an empty one.                                              *)
ExtensionOr(value, standard) == IF value \in {None, 0} THEN standard ELSE value

NoExtension == [prompt |-> None, ids |-> None, probs |-> None]

(* ModelBackendResponse: log-probabilities need token ids beside them.     *)
ArraysRefused(e) ==
    \/ Bad \in {e.prompt, e.ids, e.probs}
    \/ e.probs # None /\ e.probs # e.ids

(* A response that keeps what it can of unaligned arrays.                  *)
BackendResponseLenient(r) ==
    LET ext == IF r.ext \in {None, Malformed} THEN NoExtension ELSE r.ext
    IN  [prompt |-> ExtensionOr(ext.prompt, StandardPrompt(r.std)),
         ids |-> ExtensionOr(ext.ids, StandardIds(r.std)),
         probs |-> ExtensionOr(ext.probs, StandardLogprobs(r.std)),
         issue |-> FALSE]

(* _backend_response: one array the contract refuses drops all three.      *)
BackendResponse(r) ==
    LET ext == IF r.ext \in {None, Malformed} THEN NoExtension ELSE r.ext
        taken == [prompt |-> ExtensionOr(ext.prompt, StandardPrompt(r.std)),
                  ids |-> ExtensionOr(ext.ids, StandardIds(r.std)),
                  probs |-> ExtensionOr(ext.probs, StandardLogprobs(r.std)),
                  issue |-> r.ext = Malformed]
    IN  IF ArraysRefused(taken)
        THEN [prompt |-> None, ids |-> None, probs |-> None, issue |-> TRUE]
        ELSE taken

-----------------------------------------------------------------------------
(* sse_body: a list of calls, the empty one too, goes without the text;    *)
(* each call is declared and then given its arguments, under its place in  *)
(* the list.                                                               *)
SseBody(r) ==
    LET places == SelectSeq([i \in 1..Len(r.calls) |-> i], LAMBDA i : r.calls[i] # "scalar")
        frames == [n \in 1..(2 * Len(places)) |->
                     LET i == places[(n + 1) \div 2]
                     IN  [what |-> IF n % 2 = 1 THEN "declare" ELSE "arguments",
                          index |-> i, call |-> r.calls[i]]]
    IN  CASE ~r.choices -> None
          [] r.calls = None -> <<[what |-> "text"]>>
          [] \E n \in DOMAIN places : r.calls[places[n]] = "shapeless" -> None
          [] OTHER -> frames

(* One served request: what is recorded, then what Pi receives.  A stream  *)
(* that cannot be built breaks the connection after the record is written. *)
ServeResponse(r, native) ==
    LET final == IF r.ok /\ ~native THEN RecoverToolCalls(r) ELSE r
    IN  [response |-> final, evidence |-> BackendResponse(final),
         stream |-> IF r.ok THEN SseBody(final) ELSE None]

-----------------------------------------------------------------------------
(* Responses of the shapes providers send.                                 *)
TokenShapes == [ids : {None, 1, 2, Bad}, items : {0, 2}, keyed : BOOLEAN, numeric : BOOLEAN,
                prompt : {None, Bad, 2}]

ReplayInputs ==
    [ok : {TRUE}, choices : {TRUE}, text : {TRUE}, finish : {"stop"},
     calls : {None, <<>>, <<"a">>, <<"a", "b">>, <<"scalar", "b">>, <<"a", "shapeless">>},
     found : {<<>>, <<"c">>}, ext : {None},
     std : {[ids |-> 2, items |-> 2, keyed |-> TRUE, numeric |-> TRUE, prompt |-> 2]}]
    \cup [ok : BOOLEAN, choices : BOOLEAN, text : {TRUE}, finish : {"stop"}, calls : {None},
          found : {<<>>}, std : TokenShapes,
          ext : {None, Malformed} \cup [prompt : {None, 2}, ids : {None, 0, 2, Bad},
                                    probs : {None, 2}]]

ReplayJob(r) == [native |-> ServeResponse(r, TRUE), http |-> ServeResponse(r, FALSE)]
=============================================================================
