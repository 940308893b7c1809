-------------------------- MODULE CanonicalActions --------------------------
(***************************************************************************)
(* Harness-neutral actions: the paths and commands of a tool call without  *)
(* the machine's layout (src/contracts/canonical_action.py), the pairing   *)
(* of Pi's tool calls with their results (src/capture/                     *)
(* pi_canonical_adapter.py), and the tool calls recovered from generated   *)
(* text (src/capture/tool_calls.py).                                       *)
(*                                                                         *)
(* A path is its form ("abs", "home" for ~, or "rel") and its components;  *)
(* a command is a sequence of pieces: a word, "root" (a token that starts  *)
(* with the workspace root), "glued" (one that holds it further on),       *)
(* "outside", "dev" (another absolute path, one under /dev) or "ws", the   *)
(* neutral $WORKSPACE.  Of a text only the markers it contains are kept:   *)
(* "root" and "host" (a host path inside or outside the workspace), "ws".  *)
(***************************************************************************)
EXTENDS Basics, SequencesExt

WorkspaceRoot == <<"h", "u", "t", "w">>
HomeDirectory == <<"h", "u">>

AbsPath(parts) == [form |-> "abs", parts |-> parts]
RelPath(parts) == [form |-> "rel", parts |-> parts]

-----------------------------------------------------------------------------
(* posixpath.normpath.                                                     *)
NormParts(path) ==
    LET after[i \in 0..Len(path.parts)] ==
            IF i = 0 THEN <<>>
            ELSE LET done == after[i - 1]
                     next == path.parts[i]
                 IN  IF next # ".." THEN Append(done, next)
                     ELSE IF done # <<>> /\ Last(done) # ".." THEN Front(done)
                     ELSE IF path.form = "rel" THEN Append(done, "..") ELSE done
    IN  after[Len(path.parts)]

(* os.path.expanduser.                                                     *)
ExpandUser(path) ==
    IF path.form = "home" THEN AbsPath(HomeDirectory \o path.parts) ELSE path

(* _escapes_workspace looks at the first two characters: a plain name that *)
(* starts with two dots counts as an escape.                               *)
EscapesWorkspace(parts) == parts # <<>> /\ parts[1] \in {"..", "..f"}

(* A root looked for in the path as it was written.                        *)
NormalizePathAsWritten(path, root) ==
    LET expanded == ExpandUser(path)
    IN  IF path.form = "rel" THEN [value |-> RelPath(NormParts(path)), lossy |-> FALSE]
        ELSE IF IsPrefix(root, expanded.parts)
        THEN LET rest == SubSeq(expanded.parts, Len(root) + 1, Len(expanded.parts))
             IN  [value |-> RelPath(NormParts(RelPath(rest))), lossy |-> FALSE]
        ELSE [value |-> expanded, lossy |-> TRUE]

NormalizePathArgument(path, root) ==
    LET expanded == ExpandUser(path)
        norm == NormParts(expanded)
        rest == SubSeq(norm, Len(root) + 1, Len(norm))
    IN  IF path.form = "rel" THEN [value |-> RelPath(NormParts(path)), lossy |-> FALSE]
        ELSE IF IsPrefix(root, norm)
        THEN [value |-> RelPath(rest), lossy |-> EscapesWorkspace(rest)]
        ELSE [value |-> expanded, lossy |-> TRUE]

(* _has_absolute_refs and _other_absolute_refs: /dev is no reference only  *)
(* where the command does not name the root.  Where the root is not the    *)
(* workspace's, a token that starts with the workspace is one more.        *)
AbsoluteRefs(command) == {"outside", "root"} \cap Range(command) # {}
OtherAbsoluteRefs(command) == {"outside", "dev"} \cap Range(command) # {}

(* normalize_command_for_workspace: all that precedes the first occurrence *)
(* of the root is dropped, and later occurrences stay.                     *)
RootsIn(command, root) ==
    IF root # WorkspaceRoot THEN {}
    ELSE {i \in DOMAIN command : command[i] \in {"root", "glued"}}

NormalizeCommand(command, root) ==
    LET roots == RootsIn(command, root)
        first == CHOOSE i \in roots : \A j \in roots : i <= j
    IN  IF roots = {} THEN [value |-> command, lossy |-> AbsoluteRefs(command)]
        ELSE [value |-> <<"ws">> \o SubSeq(command, first + 1, Len(command)),
              lossy |-> OtherAbsoluteRefs(command)]

(* The markers of a string argument.                                       *)
PathMarkers(path) ==
    CASE path.form # "abs" \/ path.parts = <<>> -> {}
      [] path.parts[1] # "h" -> {}
      [] IsPrefix(WorkspaceRoot, path.parts) -> {"root"}
      [] OTHER -> {"host"}

CommandMarkers(command) ==
    UNION {CASE p \in {"root", "glued"} -> {"root"}
             [] p = "outside" -> {"host"}
             [] p = "ws" -> {"ws"}
             [] OTHER -> {} : p \in Range(command)}

ArgumentMarkers(a) ==
    IF a.key = "command" THEN CommandMarkers(a.value.pieces) ELSE PathMarkers(a.value)

-----------------------------------------------------------------------------
(* canonical_tool_for_source: a tool outside the map is refused.           *)
CanonicalTool(tool) ==
    CASE tool = "read" -> "read_file"
      [] tool \in {"grep", "find", "glob"} -> "search_code"
      [] tool = "ls" -> "list_directory"
      [] tool = "bash" -> "run_command"
      [] tool = "edit" -> "edit_file"
      [] tool = "write" -> "write_file"
      [] tool = "finish" -> "finish"
      [] OTHER -> None

(* _PATH_ARGUMENT_KEYS.                                                    *)
PathKeys(kind) ==
    CASE kind = "search_code" -> {"path", "pattern"}
      [] kind \in {"read_file", "list_directory", "edit_file", "write_file"} -> {"path"}
      [] OTHER -> {}

(* build_normalized_args: keys with no known path meaning pass untouched.  *)
BuildNormalizedArgs(kind, a, root) ==
    CASE kind = "run_command" /\ a.key = "command" ->
           LET n == NormalizeCommand(a.value.pieces, root)
           IN  [arg |-> [a EXCEPT !.value.pieces = n.value], lossy |-> n.lossy]
      [] a.key \in PathKeys(kind) ->
           LET n == NormalizePathArgument(a.value, root)
           IN  [arg |-> [a EXCEPT !.value = n.value], lossy |-> n.lossy]
      [] OTHER -> [arg |-> a, lossy |-> FALSE]

BuildCanonicalAction(kind, call, status, observation, evidence, root, forced) ==
    LET norm == BuildNormalizedArgs(kind, call.arg, root)
    IN  [id |-> call.id, tool |-> kind, raw |-> call.arg, arg |-> norm.arg,
         status |-> status, observation |-> observation, evidence |-> evidence,
         lossy |-> norm.lossy \/ forced]

-----------------------------------------------------------------------------
(* _workspace_root_from_episode: the deepest prefix of an absolute path,   *)
(* the most repeated of them, the first of those.  Four components and     *)
(* more, so a file deep enough is its own root.                            *)
MinRootDepth == 4

AbsolutePieces(a) ==
    CASE a.key = "path" /\ a.value.form = "abs" -> <<a.value.parts>>
      [] a.key = "command" ->
           LET roots == SelectSeq(a.value.pieces, LAMBDA p : p = "root")
           IN  [i \in DOMAIN roots |-> WorkspaceRoot]
      [] OTHER -> <<>>

CandidatePaths(events) ==
    LET calls == SelectSeq(events, LAMBDA e : e.type = "call")
    IN  FlattenSeq([i \in DOMAIN calls |-> AbsolutePieces(calls[i].arg)])

InferredRoot(events) ==
    LET candidates == CandidatePaths(events)
        prefixes == {<<i, d>> \in (DOMAIN candidates) \X (MinRootDepth..8) :
                        d <= Len(candidates[i])}
        repeated(x) == Cardinality({j \in DOMAIN candidates :
                           IsPrefix(SubSeq(candidates[x[1]], 1, x[2]), candidates[j])})
        score(x) == x[2] * 10 + repeated(x)
        best == {x \in prefixes : \A y \in prefixes : score(y) <= score(x)}
        first == CHOOSE x \in best : \A y \in best : x[1] <= y[1]
    IN  IF prefixes = {} THEN None ELSE SubSeq(candidates[first[1]], 1, first[2])

(* _result_status_for_event.                                               *)
ResultStatusOf(status) ==
    IF status \in {"SUCCEEDED", "FAILED", "ERROR", "TIMEOUT"} THEN status ELSE "NONE"

PairedStatus(result) ==
    IF result = None THEN "NONE" ELSE ResultStatusOf(result.status)

(* The action of one call id: its last call, and its last result.          *)
CanonicalActionOf(events, id, root) ==
    LET at(type) == {i \in DOMAIN events : events[i].type = type /\ events[i].id = id}
        last(S) == CHOOSE i \in S : \A j \in S : j <= i
        call == events[last(at("call"))]
        result == IF at("result") = {} THEN None ELSE events[last(at("result"))]
        kind == CanonicalTool(call.tool)
    IN  IF kind = None
        THEN BuildCanonicalAction("tool_error", call, "NONE", {}, {last(at("call"))}, root, TRUE)
        ELSE BuildCanonicalAction(kind, call, PairedStatus(result),
                                  IF result = None THEN {} ELSE result.observation,
                                  {last(at("call"))} \cup
                                    (IF result = None THEN {} ELSE {last(at("result"))}),
                                  root, FALSE)

(* convert_episode_to_canonical: call ids in the order first seen.         *)
ConvertEpisode(events, given) ==
    LET root == IF given # None THEN given ELSE InferredRoot(events)
        calls == SelectSeq(events, LAMBDA e : e.type = "call" /\ e.id # None)
        firsts == {i \in DOMAIN calls : \A j \in 1..(i - 1) : calls[j].id # calls[i].id}
        order == SetToSortSeq(firsts, <)
    IN  IF root = None THEN None
        ELSE [root |-> root,
              actions |-> [n \in DOMAIN order |->
                             CanonicalActionOf(events, calls[order[n]].id, root)],
              issues |-> Cardinality({i \in DOMAIN events : events[i].id = None})
                         + Len(calls) - Cardinality(firsts)]

-----------------------------------------------------------------------------
(* extract_tool_calls: candidates in tags first, then those outside; a     *)
(* candidate is [tagged, json, object, name, args], args the number of     *)
(* arguments, None when they are no object.  An object inside another one  *)
(* is a candidate of its own.                                              *)
AcceptedCall(c, declared) ==
    c.json /\ c.object /\ c.name \in declared /\ c.args # None /\ c.args # 0

ExtractToolCalls(candidates, declared) ==
    LET tagged == SelectSeq(candidates, LAMBDA c : c.tagged)
        bare == SelectSeq(candidates, LAMBDA c : ~c.tagged)
    IN  SelectSeq(tagged \o bare, LAMBDA c : AcceptedCall(c, declared))
=============================================================================
