--------------------------- MODULE PolarFixtures ---------------------------
(***************************************************************************)
(* Golden fixtures: staged artifacts are packaged with a manifest          *)
(* (scripts/package_polar_fixture.py), and a fixture is checked against    *)
(* its manifest (scripts/verify_polar_fixture.py).                         *)
(*                                                                         *)
(* A directory is [kind, files]; a file is [kind, content, size] under its *)
(* path, a link has the content it points at, and directories in it are    *)
(* real.  A content is JSON, other text, or not UTF-8.                     *)
(***************************************************************************)
EXTENDS StoredRuns

Json(v) == <<"json", v>>
Prose(s) == <<"prose", s>>
Binary == <<"binary">>

Manifest == "source-manifest.json"
Readme == "README.md"

(* The paths of a fixture, as sorted() orders them; extra.md has no role.  *)
Paths ==
    <<Readme, "extra.md", "fault-injection.json", "gateway.log", "normalized-logs/a.bin",
      "normalized-logs/a.json", "normalized-logs/a.log", "patch.diff", "replay.json",
      "request.json", "response.json", Manifest, "summary.json", "task-metadata.json",
      "verifier-evidence.json">>

Logs == {"gateway.log", "normalized-logs/a.log"}
Patch == "patch.diff"
Unsuffixed == {"normalized-logs/a.bin", "extra.md", Readme}
JsonPaths == Range(Paths) \ (Logs \cup Unsuffixed \cup {Patch})

Coding == {"coding_success", "coding_valid_failure", "coding_invalid_infra"}
Replayed == {"coding_success", "coding_valid_failure"}
FixtureTypes == Coding \cup {"calculator_success", "calculator_fault"}

BaseFiles == [x \in {"request.json", "response.json", "summary.json"} |->
                CASE x = "request.json" -> "request"
                  [] x = "response.json" -> "response"
                  [] OTHER -> "summary"]
CodingFiles == [x \in {"verifier-evidence.json", Patch} |->
                  IF x = Patch THEN "patch" ELSE "verifier_evidence"]
ReplayFiles == [x \in {"replay.json"} |-> "replay_evidence"]
EvidenceFiles == [x \in {"fault-injection.json", "task-metadata.json"} |->
                    IF x = "task-metadata.json" THEN "task_metadata" ELSE "fault_injection"]
RootLogs == {"gateway.log"}
NormalizedLogs == {"normalized-logs/a.bin", "normalized-logs/a.json", "normalized-logs/a.log"}

FileRoles == Range(BaseFiles @@ CodingFiles @@ ReplayFiles @@ EvidenceFiles)
               \cup {"raw_log", "normalized_log", "external_reference"}
RootFields == {"schema_version", "fixture_id", "fixture_type", "synthetic_fault",
               "created_at_utc", "source", "files", "redactions", "known_missing_fields",
               "notes"}
RequiredSource == {"polar_commit", "model_id", "model_revision", "tokenizer_revision",
                   "runtime_image_identity", "harness"}
FileFields == {"path", "role", "media_type", "bytes", "sha256"}

-----------------------------------------------------------------------------
(* Files and values.                                                       *)

IsFile(files, p) == p \in DOMAIN files /\ files[p].kind \in {"regular", "symlink"}
IsLink(files, p) == p \in DOMAIN files /\ files[p].kind = "symlink"
IsJson(files, p) == files[p].content[1] = "json"
Sha256File(files, p) == Hash(files[p].content)

Placeholders == {"tbd"}
CommitTexts == {"commit"}
RedactedTexts == Blanks \cup {"<redacted>"}
SensitiveKeys == {"authorization"}
PrivateKey == "private key"

Stated(v) == v[1] = "text" /\ v[2] \notin Blanks
Named(v) == Stated(v) /\ v[2] \notin Placeholders
IsCommit(v) == v[1] = "text" /\ v[2] \in CommitTexts
IsSafeRelativePath(v) == Stated(v) /\ v[2] \notin {"/x", "./x", "../x"}
IsNumeric(v) == IsNumber(v) \/ v = NaN
IsBool(v) == v[1] = "bool"
IsList(v) == v[1] \in {"list", "sorted"}
IsObject(v) == v[1] = "object"
Unhashable(v) == IsList(v) \/ IsObject(v)
Member(v, f) == IF IsObject(v) THEN Get(v[2], f) ELSE Null

TypeOf(m) == IF Member(m, "fixture_type")[1] = "text" THEN m[2].fixture_type[2] ELSE ""

(* v == n in Python.                                                       *)
Equals(v, n) == v \in {Whole(n), Float(n), Bool(n = 1)} /\ (IsBool(v) => n \in 0..1)

-----------------------------------------------------------------------------
(* The contract of a manifest.                                             *)

SyntheticOk(type, synthetic) ==
    /\ IsBool(synthetic)
    /\ type = "calculator_fault" => synthetic[2]
    /\ type \in Replayed \cup {"calculator_success"} => ~synthetic[2]

SourceOk(source) ==
    /\ IsObject(source)
    /\ RequiredSource \subseteq DOMAIN source[2]
    /\ DOMAIN source[2] \subseteq RequiredSource \cup {"policy_version"}
    /\ IsCommit(Member(source, "polar_commit"))
    /\ \A f \in RequiredSource \ {"polar_commit"} : Named(Member(source, f))
    /\ Member(source, "policy_version") = Null \/ Stated(Member(source, "policy_version"))

FileEntryOk(e) ==
    /\ IsObject(e)
    /\ DOMAIN e[2] = FileFields
    /\ IsSafeRelativePath(e[2].path)
    /\ e[2].role[1] = "text" /\ e[2].role[2] \in FileRoles
    /\ Stated(e[2].media_type)
    /\ IsInt(e[2].bytes) /\ e[2].bytes[2] >= 0
    /\ IsDigest(e[2].sha256)

RedactionOk(e) ==
    /\ IsObject(e)
    /\ DOMAIN e[2] = {"path", "rule", "count"}
    /\ IsInt(e[2].count) /\ e[2].count[2] >= 0

ValidateManifestContract(m) ==
    LET files == Member(m, "files")
        missing == Member(m, "known_missing_fields")
        notes == IF "notes" \in DOMAIN m[2] THEN m[2].notes ELSE Array(<<>>)
    IN  /\ RootFields \ {"notes"} \subseteq DOMAIN m[2] /\ DOMAIN m[2] \subseteq RootFields
        /\ m[2].schema_version = Text("current")
        /\ Named(m[2].fixture_id)
        /\ TypeOf(m) \in FixtureTypes
        /\ SyntheticOk(TypeOf(m), m[2].synthetic_fault)
        /\ IsInstant(m[2].created_at_utc)
        /\ SourceOk(m[2].source)
        /\ IsList(files) /\ Len(Items(files)) >= 3
        /\ \A i \in DOMAIN Items(files) : FileEntryOk(Items(files)[i])
        /\ Distinct([i \in DOMAIN Items(files) |-> Items(files)[i][2].path])
        /\ IsList(m[2].redactions)
        /\ \A i \in DOMAIN Items(m[2].redactions) : RedactionOk(Items(m[2].redactions)[i])
        /\ IsList(missing) /\ Distinct(Items(missing))
        /\ \A i \in DOMAIN Items(missing) : Stated(Items(missing)[i])
        /\ IsList(notes) /\ \A i \in DOMAIN Items(notes) : Items(notes)[i][1] = "text"

(* Values the verifier does not get past: one that is not hashable where   *)
(* it looks it up in a set, one that is not iterable for the files.        *)
ManifestRaises(m) ==
    LET files == Member(m, "files")
    IN  \/ Unhashable(Member(m, "fixture_type"))
        \/ "files" \in DOMAIN m[2] /\ ~Iterable(files)
        \/ /\ IsList(files) /\ Len(Items(files)) >= 3
           /\ \E i \in DOMAIN Items(files) : Unhashable(Member(Items(files)[i], "role"))

(* The entry of each path: the last one that names it.                     *)
EntryByPath(m) ==
    LET files == Member(m, "files")
        entries == IF ~IsList(files) THEN <<>>
                   ELSE SelectSeq(Items(files), LAMBDA e :
                          IsObject(e) /\ IsSafeRelativePath(Member(e, "path")))
    IN  [p \in {entries[i][2].path[2] : i \in DOMAIN entries} |->
           entries[Max({i \in DOMAIN entries : entries[i][2].path[2] = p})]]

-----------------------------------------------------------------------------
(* The evidence a type of fixture needs.                                   *)

RequiredFiles(type) ==
    BaseFiles @@ (IF type \in Coding THEN CodingFiles ELSE <<>>)
              @@ (IF type \in Replayed THEN ReplayFiles ELSE <<>>)

VerifierResultOk(type, result) ==
    LET said(f) == Member(result, f)
        completed == Truthy(said("verifier_completed")) /\ ~Truthy(said("timed_out"))
                       /\ ~Truthy(said("crashed"))
        resolved == said("resolved")
        reward == said("reward")
    IN  /\ IsObject(result)
        /\ \A f \in {"verifier_completed", "timed_out", "crashed"} : IsBool(said(f))
        /\ said("exit_code") = Null \/ IsInt(said("exit_code"))
        /\ resolved = Null \/ IsBool(resolved)
        /\ reward = Null \/ IsNumber(reward)
        /\ CASE type = "coding_success" ->
                  completed /\ resolved = Bool(TRUE) /\ Equals(reward, 1)
             [] type = "coding_valid_failure" ->
                  completed /\ resolved = Bool(FALSE) /\ Equals(reward, 0)
             [] OTHER ->
                  /\ \/ Truthy(said("timed_out")) \/ Truthy(said("crashed"))
                     \/ Stated(said("error_type"))
                  /\ resolved = Null /\ reward = Null

ReplayOk(type, replay) ==
    /\ Member(replay, "schema_version") = Text("current")
    /\ \A f \in {"clean_workspace", "patch_applied", "verifier_completed", "resolved"} :
         IsBool(Member(replay, f))
    /\ Member(replay, "clean_workspace") = Bool(TRUE)
    /\ Member(replay, "resolved") = Bool(type = "coding_success")

OutcomeClass(type) ==
    CASE type = "coding_success" -> "VALID_SUCCESS"
      [] type = "coding_valid_failure" -> "VALID_FAILURE"
      [] OTHER -> "INVALID_INFRASTRUCTURE"

EvidenceFields == {"schema_version", "outcome_class", "task_id", "instance_id", "base_commit",
                   "runtime_image_identity", "synthetic_fault", "test", "result",
                   "provenance", "patch_sha256"}

ValidateCodingEvidence(files, m, payloads) ==
    LET type == TypeOf(m)
        evidence == Get(payloads, "verifier-evidence.json")
        said(f) == Member(evidence, f)
    IN  type \in Coding =>
          /\ IsObject(evidence) /\ EvidenceFields \subseteq DOMAIN evidence[2]
          /\ said("schema_version") = Text("current")
          /\ said("outcome_class") = Text(OutcomeClass(type))
          /\ \A f \in {"task_id", "instance_id", "runtime_image_identity"} : Stated(said(f))
          /\ IsCommit(said("base_commit"))
          /\ said("synthetic_fault") = Member(m, "synthetic_fault")
          /\ Stated(Member(said("test"), "command"))
          /\ ScalarOk(Timeout, Member(said("test"), "timeout_seconds"))
          /\ VerifierResultOk(type, said("result"))
          /\ \A f \in {"source_file", "json_path"} : Stated(Member(said("provenance"), f))
          /\ IsDigest(said("patch_sha256"))
          /\ IsFile(files, Patch) => Sha256File(files, Patch) = said("patch_sha256")
          /\ type \in Replayed => ReplayOk(type, Get(payloads, "replay.json"))

ValidateCalculatorEvidence(m, payloads) ==
    LET summary == Get(payloads, "summary.json")
        status == Member(summary, "status")
        evaluation == Member(Member(Member(summary, "trajectory"), "metadata"), "evaluation")
        report == Member(evaluation, "report")
        reward == IF IsObject(evaluation) /\ "outcome_reward" \in DOMAIN evaluation[2]
                  THEN evaluation[2].outcome_reward
                  ELSE Member(summary, "reward")
    IN  /\ TypeOf(m) = "calculator_success" =>
             /\ status = Text("completed")
             /\ IsNumeric(reward)
             /\ IsObject(report) /\ DOMAIN report[2] # {}
             /\ \A f \in {"error_eval", "test_timeout", "failed_apply_patch"} :
                  Member(report, f) # Bool(TRUE)
        /\ TypeOf(m) = "calculator_fault" =>
             /\ status \in {Text("error"), Text("timeout"), Text("failed")}
             /\ reward = Null
             /\ Stated(Member(summary, "error"))

RECURSIVE SensitiveIn(_)
SensitiveIn(v) ==
    CASE IsObject(v) ->
           \E f \in DOMAIN v[2] :
             \/ SensitiveIn(v[2][f])
             \/ /\ f \in SensitiveKeys
                /\ v[2][f] # Null /\ ~(v[2][f][1] = "text" /\ v[2][f][2] \in RedactedTexts)
      [] v[1] = "list" -> \E i \in DOMAIN v[2] : SensitiveIn(v[2][i])
      [] OTHER -> v = Text(PrivateKey)

-----------------------------------------------------------------------------
(* verify_fixture: the checks that fail, or an exception.                  *)

Raised == <<"raised">>
Failed(checks) == <<"checked", checks>>

(* The JSON files that can be read: all required ones, links too, and the  *)
(* listed ones that are no links.                                          *)
JsonPayloads(files, paths) ==
    [p \in {q \in paths : IsFile(files, q) /\ IsJson(files, q)} |-> files[p].content[2]]

RequiredOk(files, entries, required) ==
    \A p \in DOMAIN required :
      /\ p \in DOMAIN entries /\ Member(entries[p], "role") = Text(required[p])
      /\ IsFile(files, p)
      /\ p \in JsonPaths => IsJson(files, p)

EntryIntact(files, p, entry) ==
    IsLink(files, p) \/
    /\ IsFile(files, p)
    /\ Equals(Member(entry, "bytes"), files[p].size)
    /\ IsDigest(Member(entry, "sha256")) => Member(entry, "sha256") = Sha256File(files, p)

ListedJson(files, entries) ==
    {p \in DOMAIN entries : /\ \/ Member(entries[p], "media_type") = Text("application/json")
                               \/ p \in JsonPaths
                            /\ IsFile(files, p) /\ ~IsLink(files, p)}

ListedText(files, entries) ==
    {p \in DOMAIN entries : /\ Member(entries[p], "media_type")
                                 \in {Text("text/plain"), Text("text/x-diff")}
                            /\ IsFile(files, p) /\ ~IsLink(files, p)}

PathsChecked(files, entries, required, others, all, max) ==
    LET present == {p \in DOMAIN files : IsFile(files, p)}
    IN  [required_json_files |-> RequiredOk(files, entries, required),
         manifest_paths |-> \A p \in DOMAIN entries : ~IsLink(files, p),
         file_integrity |-> \A p \in DOMAIN entries : EntryIntact(files, p, entries[p]),
         unlisted_files |-> present \subseteq DOMAIN entries \cup {Manifest, Readme},
         repository_size |-> \A p \in present : IsLink(files, p) \/ files[p].size <= max,
         manifest_json_payloads |-> \A p \in others : IsJson(files, p),
         obvious_sensitive_fields |->
           /\ \A p \in DOMAIN all : ~SensitiveIn(all[p])
           /\ \A p \in ListedText(files, entries) : files[p].content # Prose(PrivateKey)]

EvidenceChecked(files, m, payloads) ==
    [manifest_contract |-> ValidateManifestContract(m),
     coding_evidence |-> ValidateCodingEvidence(files, m, payloads),
     calculator_evidence |-> ValidateCalculatorEvidence(m, payloads)]

FailedChecks(passed) == {c \in DOMAIN passed : ~passed[c]}

ChecksOf(files, m, entries, required, payloads, others, max) ==
    FailedChecks(EvidenceChecked(files, m, payloads)
                 @@ PathsChecked(files, entries, required, others,
                                 payloads @@ JsonPayloads(files, others), max))

PayloadsChecked(files, m, entries, required, payloads, max) ==
    ChecksOf(files, m, entries, required, payloads,
             ListedJson(files, entries) \ DOMAIN payloads, max)

EntriesChecked(files, m, entries, required, max) ==
    PayloadsChecked(files, m, entries, required,
                    JsonPayloads(files, {p \in DOMAIN required : p \in JsonPaths}), max)

FixtureChecks(files, m, max) ==
    EntriesChecked(files, m, EntryByPath(m), RequiredFiles(TypeOf(m)), max)

VerifyFixture(dir, schema, max) ==
    CASE max <= 0 -> Raised
      [] max > 0 /\ dir.kind # "dir" -> Failed({"fixture_directory"})
      [] max > 0 /\ dir.kind = "dir" /\ schema # "current" -> Raised
      [] OTHER ->
           LET m == IF IsFile(dir.files, Manifest) THEN dir.files[Manifest].content
                    ELSE Binary
           IN  IF ~IsFile(dir.files, Manifest)
               THEN Failed({"manifest_json", "required_json_files"})
               ELSE IF m[1] # "json" \/ ~IsObject(m[2]) THEN Failed({"manifest_json"})
               ELSE IF ManifestRaises(m[2]) THEN Raised
               ELSE Failed(FixtureChecks(dir.files, m[2], max))

(* The exit code of the verifier is 0.                                     *)
Verified(result) == result = Failed({})

-----------------------------------------------------------------------------
(* package_fixture.                                                        *)

MediaType(p) ==
    CASE p \in JsonPaths -> "application/json"
      [] p \in Logs -> "text/plain"
      [] p = Patch -> "text/x-diff"
      [] OTHER -> "application/octet-stream"

RequiredStaging(type) ==
    BaseFiles @@ (IF type \in Coding THEN CodingFiles ELSE <<>>)
              @@ (IF type \in Replayed THEN ReplayFiles ELSE <<>>)

Roles(type) ==
    RequiredStaging(type) @@ EvidenceFiles @@ [p \in RootLogs |-> "raw_log"]
                          @@ [p \in NormalizedLogs |-> "normalized_log"]

(* The staged files in order; every one is known, and none is a link.      *)
DiscoverSourceFiles(source, type) ==
    LET files == source.files
        there(p) == p \in DOMAIN files
        readable(p) == /\ files[p].kind = "regular"
                       /\ IF p \in JsonPaths THEN IsJson(files, p)
                          ELSE files[p].content # Binary
    IN  IF /\ source.kind = "dir"
           /\ \A p \in DOMAIN RequiredStaging(type) : there(p) /\ readable(p)
           /\ \A p \in DOMAIN EvidenceFiles : there(p) => readable(p)
           /\ \A p \in RootLogs : there(p) => files[p].kind = "regular"
           /\ \A p \in DOMAIN files : files[p].kind # "symlink"
           /\ \A p \in DOMAIN files : files[p].kind = "regular" => p \in DOMAIN Roles(type)
        THEN SelectSeq(Paths, LAMBDA p : there(p) /\ files[p].kind = "regular")
        ELSE Refused

(* place: whether the output is the source, lies inside it, or is apart.   *)
EnsureSafeOutput(output, max) ==
    /\ output.place = "apart"
    /\ output.kind \in {"dir", "none"}
    /\ output.kind = "dir" =>
         /\ \A p \in DOMAIN output.files : IsFile(output.files, p) => p = Readme
         /\ ~IsLink(output.files, Readme)
         /\ IsFile(output.files, Readme) => output.files[Readme].size <= max

LoadRedactions(content) ==
    IF content = Null THEN <<>>
    ELSE IF /\ content[1] = "json" /\ IsList(content[2])
            /\ \A i \in DOMAIN Items(content[2]) : IsObject(Items(content[2])[i])
    THEN Items(content[2])
    ELSE Refused

BuildManifest(files, listed, type, metadata) ==
    LET entry(p) == Object([path |-> Text(p), role |-> Text(Roles(type)[p]),
                            media_type |-> Text(MediaType(p)),
                            bytes |-> Whole(files[p].size), sha256 |-> Sha256File(files, p)])
    IN  Object([schema_version |-> Text("current"), fixture_id |-> metadata.fixture_id,
                fixture_type |-> Text(type),
                synthetic_fault |-> IF metadata.synthetic_fault # Null
                                    THEN metadata.synthetic_fault
                                    ELSE Bool(type = "calculator_fault"),
                created_at_utc |-> IF Truthy(metadata.created_at_utc)
                                   THEN metadata.created_at_utc ELSE Text("t1"),
                source |-> Object([f \in RequiredSource \cup {"policy_version"} |-> metadata[f]]),
                files |-> Array(Each(listed, entry)),
                redactions |-> Array(LoadRedactions(metadata.redactions)),
                known_missing_fields |-> Sorted(Range(metadata.known_missing_fields)),
                notes |-> Array(metadata.notes)])

(* Output after the first n files of the package were copied into it.      *)
Copied(output, package, n) ==
    LET order == SelectSeq(Paths, LAMBDA p : p \in DOMAIN package)
    IN  [p \in {order[i] : i \in 1..n} |-> package[p]] @@ output.files

(* What is written, in a directory of its own first: a package that does   *)
(* not verify there is never copied.                                       *)
PackageFiles(copy, listed, type, metadata) ==
    [p \in {Manifest} |->
       [kind |-> "regular", size |-> 1,
        content |-> Json(BuildManifest(copy, listed, type, metadata))]] @@ copy

FilesVerified(files, schema, max) ==
    Verified(VerifyFixture([kind |-> "dir", files |-> files], schema, max))

(* What is copied out is verified once more where it is.                   *)
WrittenPackage(written, schema, max) ==
    IF FilesVerified(written, schema, max) THEN <<"packaged", written>> ELSE Refused

CopyPackage(package, output, schema, max) ==
    IF FilesVerified(package, schema, max) /\ DOMAIN package \cap DOMAIN output.files = {}
    THEN WrittenPackage(Copied(output, package, Cardinality(DOMAIN package)), schema, max)
    ELSE Refused

PackageListed(source, listed, output, schema, type, metadata, max) ==
    IF \/ LoadRedactions(metadata.redactions) = Refused
       \/ max <= 0 \/ listed = Refused \/ ~EnsureSafeOutput(output, max)
       \/ \E p \in DOMAIN source.files :
            source.files[p].kind = "regular" /\ source.files[p].size > max
    THEN Refused
    ELSE CopyPackage(PackageFiles([p \in Range(listed) |-> source.files[p]], listed, type,
                                  metadata),
                     output, schema, max)

PackageFixture(source, output, schema, type, metadata, max) ==
    PackageListed(source, DiscoverSourceFiles(source, type), output, schema, type, metadata, max)
=============================================================================
