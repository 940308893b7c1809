---------------------------- MODULE SftDatasets ----------------------------
(***************************************************************************)
(* What is made of canonical episodes: the SFT dataset (src/learning/      *)
(* canonical_sft_dataset.py), the generic, model-native and harness views  *)
(* (src/exporters/canonical/views.py), and the structural gate for final   *)
(* examples (src/learning/sft_examples.py).                                *)
(***************************************************************************)
EXTENDS CanonicalActions

Failures == {"FAILED", "ERROR", "TIMEOUT"}

(* assert_training_view_is_leak_free, of one string: a text that holds     *)
(* $WORKSPACE anywhere passes whatever else it holds.                      *)
Leaks(markers) == markers \cap {"root", "host"} # {} /\ "ws" \notin markers

(* _neutralize_workspace.                                                  *)
NeutralizeWorkspace(markers, root) ==
    IF root = None \/ "root" \notin markers THEN markers
    ELSE (markers \ {"root"}) \cup {"ws"}

(* _role_of; a role for the choice of a test is declared and never given.  *)
RoleOf(actions, i) ==
    CASE i = 1 -> "first-action"
      [] i = Len(actions) -> "final-answer"
      [] actions[i].tool \in {"edit_file", "write_file"} -> "patch"
      [] actions[i - 1].status \in Failures -> "failure-recovery"
      [] OTHER -> "tool-selection"

(* _render_user: one text, the task's statement and every earlier action   *)
(* with its observation.                                                   *)
RenderUser(actions, i, root) ==
    [history |-> [j \in 1..(i - 1) |->
                    [tool |-> actions[j].tool, arg |-> actions[j].arg,
                     status |-> IF actions[j].status = "SUCCEEDED" THEN "ok"
                                ELSE actions[j].status]],
     markers |-> UNION {ArgumentMarkers(actions[j].arg)
                          \cup NeutralizeWorkspace(actions[j].observation, root) :
                          j \in 1..(i - 1)}]

ExampleLeaks(actions, i, root) ==
    \/ Leaks(ArgumentMarkers(actions[i].arg))
    \/ Leaks(RenderUser(actions, i, root).markers)

(* The observation of the action itself goes along unscanned.              *)
SftExample(episode, actions, i, root) ==
    [episode |-> episode, role |-> RoleOf(actions, i),
     user |-> RenderUser(actions, i, root).history,
     context |-> RenderUser(actions, i, root).markers,
     expected |-> [tool |-> actions[i].tool, arg |-> actions[i].arg],
     raw |-> actions[i].raw, observation |-> actions[i].observation,
     lossy |-> actions[i].lossy]

(* build_canonical_sft_dataset over episodes [name, actions], with the     *)
(* roots and the task statements the caller knows.                         *)
BuildSftDataset(episodes, root, stated) ==
    LET all == {<<e, i>> \in (DOMAIN episodes) \X (1..4) : i <= Len(episodes[e].actions)}
        example(x) == SftExample(episodes[x[1]].name, episodes[x[1]].actions, x[2], root)
        leaking == {x \in all : ExampleLeaks(episodes[x[1]].actions, x[2], root)}
        examples == {example(x) : x \in all \ leaking}
    IN  IF ~stated THEN None
        ELSE [examples |-> examples, leaks |-> Cardinality(leaking),
              duplicates |-> Cardinality(all \ leaking) - Cardinality(examples),
              lossy |-> Cardinality({x \in examples : x.lossy}),
              roles |-> [r \in {x.role : x \in examples} |->
                           Cardinality({x \in examples : x.role = r})]]

-----------------------------------------------------------------------------
(* The views.  A leak anywhere ends the export.                            *)

GenericType(actions, i) ==
    CASE i = 1 -> "first-action"
      [] i = Len(actions) -> "final-answer"
      [] actions[i - 1].status \in Failures -> "failure-recovery"
      [] OTHER -> "tool-selection"

(* The brief that is scanned holds the observation as it was recorded.     *)
ExportGeneric(actions) ==
    IF \E i \in DOMAIN actions : \/ Leaks(ArgumentMarkers(actions[i].arg))
                                 \/ Leaks(actions[i].observation)
    THEN None
    ELSE [i \in DOMAIN actions |->
            [type |-> GenericType(actions, i), tool |-> actions[i].tool,
             arg |-> actions[i].arg, status |-> actions[i].status,
             observation |-> actions[i].observation]]

(* Each action is a tool call and, result or no result, an answer to it.   *)
ModelNativeMessages(actions) ==
    FlattenSeq([i \in DOMAIN actions |->
        <<[role |-> "assistant", tool |-> actions[i].tool, markers |-> ArgumentMarkers(actions[i].arg)],
          [role |-> "tool", tool |-> actions[i].tool, markers |-> actions[i].observation]>>])

ExportModelNative(actions, renderers) ==
    IF \/ ~(renderers \subseteq {"qwen", "openai", "json"})
       \/ \E i \in DOMAIN actions : \/ Leaks(ArgumentMarkers(actions[i].arg))
                                    \/ Leaks(actions[i].observation)
    THEN None
    ELSE [r \in renderers |-> ModelNativeMessages(actions)]

(* export_harness_improvement.                                             *)
HarnessMetrics(actions) ==
    LET same(i, j) == actions[i].tool = actions[j].tool /\ actions[i].arg = actions[j].arg
        patches == {i \in DOMAIN actions : actions[i].tool \in {"edit_file", "write_file"}}
    IN  [calls |-> Len(actions),
         redundant |-> Cardinality({i \in DOMAIN actions :
             /\ actions[i].tool \in {"search_code", "list_directory", "read_file"}
             /\ \E j \in 1..(i - 1) : same(i, j)}),
         failures |-> Cardinality({i \in DOMAIN actions :
             /\ actions[i].status \in Failures
             /\ \E j \in 1..(i - 1) : same(i, j) /\ actions[j].status \in Failures}),
         patch |-> IF patches = {} THEN None
                   ELSE CHOOSE i \in patches : \A j \in patches : i <= j]

-----------------------------------------------------------------------------
(* classify_sft_example: messages are [role "assistant", calls (a sequence *)
(* of ids)] or [role "tool", id].                                          *)

PendingStart == [pending |-> <<>>, calls |-> {}, results |-> {}, bad |-> FALSE]

AssistantTurn(st, m) ==
    LET stable == SelectSeq(m.calls, LAMBDA c : c # None)
    IN  [pending |-> stable, calls |-> st.calls \cup Range(stable), results |-> st.results,
         bad |-> \/ st.bad
                 \/ st.pending # <<>>
                 \/ \E i \in DOMAIN m.calls :
                      \/ m.calls[i] = None
                      \/ m.calls[i] \in st.calls
                      \/ \E j \in 1..(i - 1) : m.calls[j] = m.calls[i]]

ToolTurn(st, m) ==
    IF m.id \notin Range(st.pending) \/ m.id \in st.results THEN [st EXCEPT !.bad = TRUE]
    ELSE [st EXCEPT !.pending = Remove(@, m.id), !.results = @ \cup {m.id}]

ClassifyMessages(messages) ==
    LET after[i \in 0..Len(messages)] ==
            IF i = 0 THEN PendingStart
            ELSE IF messages[i].role = "assistant" THEN AssistantTurn(after[i - 1], messages[i])
            ELSE ToolTurn(after[i - 1], messages[i])
    IN  after[Len(messages)]

ClassifySftExample(x) ==
    LET st == ClassifyMessages(x.messages)
    IN  /\ x.answer /\ x.verdict = "ELIGIBLE" /\ x.messages # <<>>
        /\ ~st.bad /\ st.pending = <<>>
        /\ st.calls = x.steps /\ st.results = x.steps

-----------------------------------------------------------------------------
(* Inputs.  One episode of at most four tool events, or its paths and      *)
(* commands alone, or one chat.                                            *)

SomePaths ==
    LET names == {"f", "..", "..f"}
        tails == UNION {[1..n -> names] : n \in 0..2}
    IN  {AbsPath(WorkspaceRoot \o t) : t \in tails}
        \cup {AbsPath(<<"h", "u", "t", "w2">> \o t) : t \in tails}
        \cup {AbsPath(WorkspaceRoot \o <<"..", "w">> \o t) : t \in tails}
        \cup {AbsPath(t) : t \in tails}
        \cup {[form |-> "home", parts |-> <<"t", "w">> \o t] : t \in tails}
        \cup {RelPath(t) : t \in tails}

SomeCommands == UNION {[1..n -> {"word", "root", "glued", "outside", "dev"}] : n \in 0..3}

PathArg(p) == [key |-> "path", value |-> p]
PatternArg(p) == [key |-> "pattern", value |-> p]
CommandArg(c) == [key |-> "command", value |-> [pieces |-> c]]

ToolCallOf(id, tool, a) ==
    [type |-> "call", id |-> id, tool |-> tool, arg |-> a, status |-> "STARTED",
     observation |-> {}]
ToolResultOf(id, status, markers) ==
    [type |-> "result", id |-> id, tool |-> None, arg |-> PathArg(RelPath(<<>>)),
     status |-> status, observation |-> markers]

InsideFile == AbsPath(WorkspaceRoot \o <<"f">>)

SomeToolEvents ==
    {ToolCallOf(1, "read", PathArg(InsideFile)),
     ToolCallOf(2, "read", PathArg(InsideFile)),
     ToolCallOf(1, "bash", CommandArg(<<"word", "root", "root">>)),
     ToolCallOf(1, "bash", CommandArg(<<"root", "outside">>)),
     ToolCallOf(2, "edit", PathArg(AbsPath(<<"h", "o">>))),
     ToolCallOf(2, "find", PatternArg(InsideFile)),
     ToolCallOf(2, "odd", PathArg(InsideFile)),
     ToolCallOf(None, "read", PathArg(InsideFile)),
     ToolResultOf(1, "SUCCEEDED", {}), ToolResultOf(1, "ERROR", {"root"}),
     ToolResultOf(2, "SUCCEEDED", {"host"})}

SomeChats ==
    UNION {[1..n -> [role : {"assistant"}, calls : {<<>>, <<1>>, <<2>>, <<1, 2>>, <<None>>}]
                    \cup [role : {"tool"}, id : {1, 2, None}]] : n \in 0..4}

DatasetInputs ==
    [what : {"path"}, value : SomePaths]
    \cup [what : {"command"}, value : SomeCommands]
    \cup [what : {"events"}, value : UNION {[1..n -> SomeToolEvents] : n \in 0..4},
          root : {WorkspaceRoot, None}, stated : {TRUE}]
    \cup [what : {"events"}, value : [1..1 -> SomeToolEvents], root : {WorkspaceRoot},
          stated : {FALSE}]
    \cup [what : {"chat"}, value : SomeChats, steps : {{}, {1}, {1, 2}}]
    \cup [what : {"text"},
          value : UNION {[1..n -> [tagged : BOOLEAN, json : {TRUE}, object : BOOLEAN,
                                   name : {"read", "rm"}, args : {0, 1, None}]] : n \in 0..2}]

DatasetOfEpisode(canonical, root, stated) ==
    IF canonical = None THEN None
    ELSE [actions |-> canonical.actions, root |-> canonical.root, issues |-> canonical.issues,
          dataset |-> BuildSftDataset(<<[name |-> "e", actions |-> canonical.actions],
                                        [name |-> "e", actions |-> canonical.actions]>>, root, stated),
          generic |-> ExportGeneric(canonical.actions),
          native |-> ExportModelNative(canonical.actions, {"qwen", "openai", "json"}),
          metrics |-> HarnessMetrics(canonical.actions)]

DatasetOfEvents(events, root, stated) ==
    DatasetOfEpisode(ConvertEpisode(events, root), root, stated)

DatasetJob(input) ==
    CASE input.what = "path" -> NormalizePathArgument(input.value, WorkspaceRoot)
      [] input.what = "command" -> NormalizeCommand(input.value, WorkspaceRoot)
      [] input.what = "events" -> DatasetOfEvents(input.value, input.root, input.stated)
      [] input.what = "chat" ->
           ClassifySftExample([answer |-> TRUE, verdict |-> "ELIGIBLE",
                               messages |-> input.value, steps |-> input.steps])
      [] input.what = "text" -> ExtractToolCalls(input.value, {"read"})
=============================================================================
