------------------------- MODULE WorkspaceEvidence -------------------------
(***************************************************************************)
(* Snapshots of a workspace before and after a run, and the evidence of    *)
(* what changed between them (src/capture/workspace_evidence.py).          *)
(*                                                                         *)
(* A workspace says of each path what a snapshot meets there: nothing, a   *)
(* symbolic link, a path of Git's own, or a file with the size at the      *)
(* moment of stat and the content at the moment of reading, which may have *)
(* changed in between; a read may fail.                                    *)
(***************************************************************************)
EXTENDS Contracts

WorkspacePaths == <<"a", "b">>   \* sorted

Met(kind, size, content) == [kind |-> kind, size |-> size, content |-> content]
Unread == "unread"
Undecodable == "binary"   \* has a null byte, or is no UTF-8

(* The state of a snapshot after some files.                               *)
Started(complete) == [files |-> <<>>, complete |-> complete, captured |-> 0]

TakeFile(s, path, met, maxBytes) ==
    LET retain == s.captured + met.size <= maxBytes
        file == [path |-> path, sha256 |-> Hash(met.content), size |-> met.size,
                 content |-> IF retain THEN met.content ELSE Unread]
    IN  IF met.content = Unread THEN [s EXCEPT !.complete = FALSE]
        ELSE [files |-> Append(s.files, file),
              complete |-> s.complete /\ retain,
              captured |-> s.captured + (IF retain THEN met.size ELSE 0)]

SnapshotWorkspace(workspace, maxFiles, maxBytes) ==
    LET candidates == SelectSeq(WorkspacePaths, LAMBDA p : workspace[p].kind = "regular")
        taken == SubSeq(candidates, 1, Min({maxFiles, Len(candidates)}))
    IN  FoldLeft(LAMBDA s, p : TakeFile(s, p, workspace[p], maxBytes),
                 Started(Len(candidates) <= maxFiles), taken)

Index(snapshot) ==
    [p \in {snapshot.files[i].path : i \in DOMAIN snapshot.files} |->
       snapshot.files[CHOOSE i \in DOMAIN snapshot.files : snapshot.files[i].path = p]]

FileDescription(file) == [path |-> file.path, sha256 |-> file.sha256, size |-> file.size]

(* The lines of a file, None if it has no text to compare.                 *)
LinesOf(file) ==
    IF file.content \in {Unread, Undecodable} THEN None
    ELSE IF file.content = "" THEN <<>>
    ELSE <<file.content>>

(* The hunks of the patch: equal texts have none.                          *)
UnifiedPatch(before, after, changed) ==
    LET old(p) == IF p \in DOMAIN before THEN LinesOf(before[p]) ELSE <<>>
        new(p) == IF p \in DOMAIN after THEN LinesOf(after[p]) ELSE <<>>
    IN  {[path |-> p, old |-> old(p), new |-> new(p)] :
           p \in {q \in changed : old(q) # None /\ new(q) # None /\ old(q) # new(q)}}

(* The artifacts: the report, and a patch if there is one.                 *)
StoreWorkspaceChangeEvidence(before, after) ==
    LET old == Index(before)
        new == Index(after)
        added == DOMAIN new \ DOMAIN old
        deleted == DOMAIN old \ DOMAIN new
        modified == {p \in DOMAIN old \cap DOMAIN new : old[p].sha256 # new[p].sha256}
        patch == UnifiedPatch(old, new, added \cup modified \cup deleted)
    IN  [report |-> [complete |-> before.complete /\ after.complete,
                     added |-> {FileDescription(new[p]) : p \in added},
                     deleted |-> {FileDescription(old[p]) : p \in deleted},
                     modified |-> {[path |-> p, before |-> old[p].sha256,
                                    after |-> new[p].sha256] : p \in modified}],
         patch |-> IF patch = {} THEN None ELSE patch]

-----------------------------------------------------------------------------
(* Two workspaces and the limits of the snapshots.                         *)

MetAtPath ==
    {Met("none", 0, ""), Met("symlink", 1, "x"), Met("git", 1, "x"), Met("regular", 0, ""),
     Met("regular", 1, "x"), Met("regular", 2, "xx"), Met("regular", 1, "xx"),
     Met("regular", 1, Undecodable), Met("regular", 1, Unread)}

WorkspaceInputs ==
    [before : [Range(WorkspacePaths) -> MetAtPath], after : [Range(WorkspacePaths) -> MetAtPath],
     maxFiles : 1..2, maxBytes : {1, 3}]

WorkspaceJob(input) ==
    LET snapshot(w) == SnapshotWorkspace(w, input.maxFiles, input.maxBytes)
    IN  StoreWorkspaceChangeEvidence(snapshot(input.before), snapshot(input.after))

(* Evidence that calls itself complete is exact: what was there, with the  *)
(* reported changes, is what is there, and the patch holds every change of *)
(* a text.  Whatever was left out, a reported modification is one, nothing *)
(* is called added that is not there, and a patch stays inside the report. *)
ChangesReported(input, out) ==
    LET report == out.report
        there(w) == {p \in DOMAIN w : w[p].kind = "regular"}
        sums(w) == {<<p, Hash(w[p].content)>> : p \in there(w)}
        gone == {f.path : f \in report.deleted}
        changed == {f.path : f \in report.modified}
        now == {<<f.path, f.sha256>> : f \in report.added}
                 \cup {<<f.path, f.after>> : f \in report.modified}
        text(w, p) == p \in there(w) => w[p].content # Undecodable
        hunks == IF out.patch = None THEN {} ELSE out.patch
        touched == gone \cup {x[1] : x \in now}
        empty(p) == \A w \in {input.before, input.after} : p \in there(w) => w[p].content = ""
    IN  /\ report.complete =>
             /\ {x \in sums(input.before) : x[1] \notin gone \cup changed} \cup now
                  = sums(input.after)
             /\ {h.path : h \in hunks}
                  = {p \in touched : /\ text(input.before, p) /\ text(input.after, p)
                                     /\ ~empty(p)}
        /\ \A f \in report.modified : f.before # f.after
        /\ now \subseteq sums(input.after)
        /\ {h.path : h \in hunks} \subseteq touched
=============================================================================
