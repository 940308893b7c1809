--------------------------- MODULE RecoveryPolicy ---------------------------
(***************************************************************************)
(* BoundedFileNotFoundRecoveryPolicy (src/recovery/                        *)
(* file_not_found_policy.py): a stateless policy; whoever asks it holds    *)
(* the cache of discoveries and the budget.                                *)
(***************************************************************************)
EXTENDS CanonicalActions

DiscoveryLimit == 32

(* _normalize_scope and the join of a relative candidate.                  *)
NormalizeScope(scope) == [scope EXCEPT !.parts = NormParts(scope)]

Joined(scope, path) ==
    LET both == [scope EXCEPT !.parts = scope.parts \o path.parts]
    IN  [both EXCEPT !.parts = NormParts(both)]

(* _within_scope; "." is the relative path of no components.               *)
WithinScope(scope, path) ==
    IF scope = RelPath(<<>>)
    THEN path.form = "rel" /\ (path.parts = <<>> \/ path.parts[1] # "..")
    ELSE path.form = scope.form /\ IsPrefix(scope.parts, path.parts)

(* A relative candidate that already starts with the scope is taken from   *)
(* the workspace, any other from the scope.                                *)
ResolveCandidate(scope, candidate) ==
    LET path == [candidate EXCEPT !.parts = NormParts(candidate)]
    IN  IF \/ path.form = "abs"
           \/ scope.form = "rel" /\ scope.parts # <<>> /\ IsPrefix(scope.parts, path.parts)
        THEN path ELSE Joined(scope, path)

(* Candidates taken at their word.                                         *)
SafeCandidatesUnchecked(scopeKey, candidates) ==
    {ResolveCandidate(NormalizeScope(scopeKey), c) : c \in candidates}

SafeCandidates(scopeKey, candidates) ==
    LET scope == NormalizeScope(scopeKey)
    IN  {p \in {ResolveCandidate(scope, c) : c \in candidates} : WithinScope(scope, p)}

(* extract_pattern, of a base name [segments, glob]: the last non-empty    *)
(* segment of a name with dashes, otherwise the name itself.               *)
ExtractPattern(name) ==
    LET parts == SelectSeq(name.segments, LAMBDA s : s # "")
    IN  CASE name.segments = <<>> -> [any |-> TRUE, tail |-> <<>>]
          [] name.glob -> [any |-> FALSE, tail |-> name.segments]
          [] Len(parts) >= 2 -> [any |-> TRUE, tail |-> <<Last(parts)>>]
          [] OTHER -> [any |-> FALSE, tail |-> name.segments]

Decision(action, reason, before, after) ==
    [action |-> action, reason |-> reason, before |-> before, after |-> after,
     selected |-> {}, pattern |-> None]

(* decide.                                                                 *)
Decide(input) ==
    LET found == SafeCandidates(input.scope, input.cache)
        budget == input.budget
    IN  CASE input.code # "FILE_NOT_FOUND" ->
               Decision("NO_ACTION", "UNSUPPORTED_ERROR_CODE", None, None)
          [] input.name = None -> Decision("TERMINATE", "MISSING_ERROR_PATH", None, None)
          [] input.cache = None /\ budget = 0 ->
               Decision("TERMINATE", "RECOVERY_BUDGET_EXHAUSTED", 0, 0)
          [] input.cache = None ->
               [Decision("DISCOVER", "FILE_NOT_FOUND_DISCOVERY", budget, budget - 1)
                  EXCEPT !.pattern = ExtractPattern(input.name)]
          [] Cardinality(found) = 1 ->
               [Decision("READ", "UNIQUE_DISCOVERY_CANDIDATE", budget, budget)
                  EXCEPT !.selected = found]
          [] OTHER ->
               [Decision("TERMINATE",
                         IF found = {} THEN "NO_DISCOVERY_CANDIDATE"
                         ELSE "AMBIGUOUS_DISCOVERY_CANDIDATES", budget, budget)
                  EXCEPT !.selected = found]

-----------------------------------------------------------------------------
(* One decision for every cache and budget a caller may hold: no caller    *)
(* of the policy is part of the repository.                                *)
SomeCandidates == {AbsPath(WorkspaceRoot \o <<"f">>), AbsPath(<<"h">>), RelPath(<<"f">>),
                   RelPath(<<"d", "f">>), RelPath(<<"d", "..", "d", "f">>),
                   RelPath(<<"..", "f">>)}

RecoveryInputs ==
    [code : {"FILE_NOT_FOUND"}, name : {[segments |-> <<"a", "b">>, glob |-> FALSE]},
     scope : {RelPath(<<>>), RelPath(<<"d">>), AbsPath(WorkspaceRoot)},
     cache : {None} \cup SUBSET SomeCandidates, budget : 0..2]
    \cup [code : {"FILE_NOT_FOUND", "OTHER"}, scope : {RelPath(<<>>)}, cache : {None},
          name : {None} \cup [segments : UNION {[1..n -> {"a", ""}] : n \in 0..3},
                              glob : BOOLEAN],
          budget : 0..2]
=============================================================================
