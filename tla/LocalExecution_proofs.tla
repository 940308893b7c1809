----------------------- MODULE LocalExecution_proofs -----------------------
(***************************************************************************)
(* One execution, for any number of model requests, any call budget and    *)
(* any number of events a harness posts: the transaction keeps its order,  *)
(* finalization makes a whole episode of two logs that are still being     *)
(* written, and no consumer's verdict is invented or lost on the way.      *)
(*                                                                         *)
(* The invariant ties the logs to what happened: to that of the proxy      *)
(* (ModelProxy_proofs) it adds that each event of the host is there from   *)
(* the step that wrote it, saying what the containers did.  What was read  *)
(* for finalization is a snapshot of which all of this still holds.        *)
(***************************************************************************)
EXTENDS LocalExecution, ModelProxy_proofs

Fields == {"pc", "role", "file", "harness", "verifier", "out", "refs", "verdict", "events",
           "evidence"}

Locals(o) == DOMAIN o = Fields /\ o = [x \in Fields |-> o[x]]

(* One container at a time: only the role being launched can be running,   *)
(* and a harness that may be verified is gone.                             *)
Containers ==
    /\ running \subseteq {orch.role}
    /\ /\ orch.pc \in {"after", "verify"} /\ orch.role = "harness"
       /\ orch.harness \notin Unverifiable
       => running = {}
    /\ orch.pc \in {"start", "launch"} => running = {}
    /\ orch.pc \in {"start", "verify"} => orch.role = "harness"

Written(file) ==
    CASE file = "producer-artifact" -> {"execution-run-manifest", "launch-plan"}
      [] file = "artifact-refs" -> {"execution-run-manifest", "launch-plan", "producer-artifact"}
      [] file = "episode" -> {"execution-run-manifest", "launch-plan", "producer-artifact",
                              "artifact-refs"}
      [] file = "execution-bundle" -> {"execution-run-manifest", "launch-plan",
                                       "producer-artifact", "artifact-refs", "episode"}
      [] OTHER -> JsonFiles \ {"finalization"}

Early == {"launch", "in", "after", "verify", "finish"}
Late == {"write", "read events", "read evidence", "assemble"}

FilesInOrder ==
    /\ orch.pc \in Early \cup {"start"} => orch.file = "producer-artifact"
    /\ orch.pc \in Late => orch.file \notin {"execution-run-manifest", "launch-plan"}
    /\ orch.pc \in {"read events", "read evidence", "assemble"} => orch.file = "episode"
    /\ orch.pc \in Early \cup Late => Written(orch.file) \subseteq files
    /\ "finalization" \in files => files = JsonFiles

TInv ==
    /\ ProxyInv
    /\ TypeOK
    /\ Locals(orch)
    /\ Containers
    /\ FilesInOrder

(* How far run() has come with each role.                                  *)
Statused ==
    /\ \A r \in Roles : /\ orch[r] = "COMPLETED" <=> exits[r] = "zero"
                        /\ orch[r] = "FAILED" <=> exits[r] = "other"
    /\ orch.pc \in {"start", "launch", "in"} => orch[orch.role] = None
    /\ orch.role = "harness" => orch.verifier = None
    /\ orch.pc = "after" => orch[orch.role] \in Statuses
    /\ orch.pc \in {"verify", "finish"} \cup Late \/ orch.role = "verifier" =>
          orch.harness \in Statuses
    /\ orch.pc \in {"finish"} \cup Late =>
          IF orch.role = "verifier" THEN orch.verifier \in Statuses
          ELSE orch.harness \in Unverifiable
    /\ orch.role = "verifier" => orch.harness \notin Unverifiable
    /\ orch.pc \in {"start", "launch", "in", "after"} /\ orch.role = "harness" => orch.refs = {}
    /\ \A r \in orch.refs \cup orch.out : r[1] # "unknown"

HostTypes == {"SANDBOX_STARTED", "SANDBOX_FINISHED", "VERIFICATION_STARTED",
              "VERIFICATION_FINISHED", "EPISODE_FINISHED"}

(* What the events of each origin look like, refs being the artifacts the  *)
(* run has indexed.                                                        *)
Shaped(e, refs) ==
    \/ /\ e.type \in {"MODEL_REQUEST", "MODEL_RESPONSE"}
       /\ \E c \in Calls : e.span = CallSpan(c)
       /\ e.parent = None /\ e.refs = {}
    \/ /\ e.type \in {"TOOL_CALL", "TOOL_RESULT"} /\ e.span = "tool"
       /\ e.parent \in {None, "nowhere"} /\ e.refs \subseteq {<<"unknown", "x">>}
    \/ /\ e.type \in {"SANDBOX_STARTED", "SANDBOX_FINISHED"} /\ e.span = "sandbox"
       /\ e.parent = None /\ e.refs \subseteq refs
    \/ /\ e.type \in {"VERIFICATION_STARTED", "VERIFICATION_FINISHED"} /\ e.span = "verifier"
       /\ e.parent = None /\ e.refs \subseteq refs
    \/ /\ e.type = "EPISODE_FINISHED" /\ e.span = "episode"
       /\ e.parent = None /\ e.refs = {}

(* The terminal event run() writes, by the locals o of run().              *)
VerdictOf(o) == IF o.verifier = None THEN "NOT_RUN" ELSE VerifierOutcome(o.verifier).verdict

Declared(o) ==
    [task |-> TerminalOutcome(o.harness, VerdictOf(o)).task,
     validity |-> TerminalOutcome(o.harness, VerdictOf(o)).validity,
     verifier |-> VerdictOf(o),
     score |-> IF o.verifier = None THEN None ELSE VerifierOutcome(o.verifier).score,
     evidence |-> o.verdict]

(* What a log says is what the host did.                                   *)
Truthful(L, o) ==
    /\ Numbered(L)
    /\ \A i \in DOMAIN L : Shaped(L[i], o.refs)
    /\ \A i \in DOMAIN L : L[i].type = "VERIFICATION_FINISHED" =>
          /\ o.verdict = {i}
          /\ L[i].status = VerifierOutcome(o.verifier).status
          /\ L[i].passed = VerifierOutcome(o.verifier).passed
    /\ \A i, j \in DOMAIN L :
          L[i].type = "EPISODE_FINISHED" /\ L[j].type = "EPISODE_FINISHED" => i = j
    /\ \A i \in DOMAIN L : L[i].type = "EPISODE_FINISHED" => L[i].terminal = Declared(o)
    /\ Has(L, "VERIFICATION_STARTED") => o.role = "verifier"

(* A log in which the run is over.                                         *)
Whole(L, o) ==
    /\ Has(L, "SANDBOX_FINISHED") /\ Has(L, "EPISODE_FINISHED")
    /\ o.role = "verifier" => Has(L, "VERIFICATION_FINISHED")
    /\ o.role = "harness" => o.verdict = {}

HostOnRecord ==
    /\ orch.pc \in {"verify", "finish"} \/ orch.role = "verifier" => Has(log, "SANDBOX_FINISHED")
    /\ orch.pc \in {"start"} \cup Early => ~Has(log, "EPISODE_FINISHED")
    /\ orch.pc \in {"launch", "in", "after"} \/ orch.role = "harness" => orch.verdict = {}
    /\ orch.pc = "finish" /\ orch.role = "verifier" => Has(log, "VERIFICATION_FINISHED")
    /\ orch.pc \in Late => Whole(log, orch)

(* What finalization has read: a truthful log of a run that is over, and   *)
(* q says whether all its requests have their response.                    *)
Snapshot(L, o, q) ==
    /\ Truthful(L, o)
    /\ Whole(L, o)
    /\ q <=> \A c \in Calls : Recorded(L, "MODEL_REQUEST", c)
                                 => Recorded(L, "MODEL_RESPONSE", c)

Reading ==
    /\ orch.pc \in {"read evidence", "assemble"} => Snapshot(orch.events, orch, quiet)
    /\ orch.pc = "read evidence" => Backed(orch.events, evidence)
    /\ orch.pc = "assemble" => Backed(orch.events, orch.evidence)
    /\ orch.pc \in Early \cup {"start", "read events", "read evidence", "assemble"} => final = None
    /\ orch.pc = "write" /\ orch.file \in {"producer-artifact", "artifact-refs"} => final = None
    /\ final # None =>
          /\ Snapshot(orch.events, orch, quiet) /\ Backed(orch.events, orch.evidence)
          /\ final.episode = Assemble(orch.events, orch.refs)
          /\ final.sources = {x.call : x \in Range(orch.evidence)}
          /\ ~AssemblyFails(orch.events)
          /\ orch.pc \notin Early \cup {"start"}
          /\ orch.role = "verifier" => orch.verifier \in Statuses
          /\ orch.role = "harness" => orch.harness \in Unverifiable

LocalInv ==
    /\ TInv
    /\ Statused
    /\ Truthful(log, orch)
    /\ HostOnRecord
    /\ Reading
-----------------------------------------------------------------------------
(* The events of the host and of the harness.                              *)

(* What a harness gets past the ingress are tool events.                   *)
LEMMA ToolFacts ==
    ASSUME NEW fact \in HarnessFacts, IngressAccepts(fact)
    PROVE  /\ DOMAIN fact = FactFields
           /\ fact.type \in {"TOOL_CALL", "TOOL_RESULT"} /\ fact.span = "tool"
           /\ fact.parent \in {None, "nowhere"} /\ fact.refs \subseteq {<<"unknown", "x">>}
<1>1. CASE fact = Tool("TOOL_CALL")
  BY <1>1, FactIs DEF Tool
<1>2. CASE fact = Tool("TOOL_RESULT")
  BY <1>2, FactIs DEF Tool
<1>3. CASE fact = [Tool("TOOL_RESULT") EXCEPT !.refs = {<<"unknown", "x">>}]
  BY <1>3 DEF Tool, Fact, FactFields
<1>4. CASE fact = [Tool("TOOL_RESULT") EXCEPT !.parent = "nowhere"]
  BY <1>4 DEF Tool, Fact, FactFields
<1>5. CASE fact = [Fact("VERIFICATION_FINISHED", "verifier", "SUCCEEDED") EXCEPT !.passed = TRUE]
  <2>1. fact.type = "VERIFICATION_FINISHED"
    BY <1>5 DEF Fact
  <2> QED
    BY <2>1 DEF IngressAccepts, HarnessEventTypes
<1>6. CASE fact = [Fact("EPISODE_FINISHED", "episode", "SUCCEEDED") EXCEPT !.terminal =
        [task |-> "SUCCESS", validity |-> "VALID", verifier |-> "PASSED", score |-> 1,
         evidence |-> {}]]
  <2>1. fact.type = "EPISODE_FINISHED"
    BY <1>6 DEF Fact
  <2> QED
    BY <2>1 DEF IngressAccepts, HarnessEventTypes
<1> QED
  BY <1>1, <1>2, <1>3, <1>4, <1>5, <1>6 DEF HarnessFacts

LEMMA NotifyStep ==
    ASSUME ProxyInv, NEW c \in Calls, NotifyFirst(c)
    PROVE  ProxyInv'
<1>t. ProxyTypeOK
  BY DEF ProxyInv
<1>1. PICK p \in {"refused", "counted"} : MoveTo(c, p)
  BY DEF NotifyFirst
<1> QED
  BY <1>t, <1>1, SilentMove DEF NotifyFirst, ProxyTypeOK, OnRecord, CallStates

(* The host's events: which fact each step records.                        *)
HostFact(fact) ==
    /\ DOMAIN fact = FactFields
    /\ fact.type \in HostTypes
    /\ Emit(fact)
    /\ UNCHANGED <<evidence, call, callCount, observed, recordLock, closeouts>>

LEMMA PrepareFact ==
    ASSUME Prepare
    PROVE  \E fact : /\ HostFact(fact)
                     /\ fact.type = "SANDBOX_STARTED" /\ fact.span = "sandbox"
                     /\ fact.parent = None /\ fact.refs = {}
BY FactIs DEF Prepare, HostFact, HostTypes

LEMMA PostRunFact ==
    ASSUME PostRun
    PROVE  \E fact : /\ HostFact(fact)
                     /\ fact.type = "SANDBOX_FINISHED" /\ fact.span = "sandbox"
                     /\ fact.parent = None
                     /\ fact.refs = orch.out \cup {<<"workspace-diff", "diff">>}
<1>1. PICK r : r = orch.out \cup {<<"workspace-diff", "diff">>}
  OBVIOUS
<1>2. PICK f : f = Fact("SANDBOX_FINISHED", "sandbox", EventStatus(orch.harness))
  OBVIOUS
<1>3. /\ Emit([f EXCEPT !.refs = r])
      /\ UNCHANGED <<evidence, call, callCount, observed, recordLock, closeouts>>
  BY <1>1, <1>2 DEF PostRun
<1>4. /\ DOMAIN f = FactFields /\ f.type = "SANDBOX_FINISHED" /\ f.span = "sandbox"
      /\ f.parent = None
  BY <1>2, FactIs
<1>5. PICK g : g = [f EXCEPT !.refs = r]
  OBVIOUS
<1>6. /\ DOMAIN g = FactFields /\ g.type = "SANDBOX_FINISHED" /\ g.span = "sandbox"
      /\ g.parent = None /\ g.refs = r
  BY <1>4, <1>5 DEF FactFields
<1> QED
  BY <1>1, <1>3, <1>5, <1>6 DEF HostFact, HostTypes

LEMMA StartVerifierFact ==
    ASSUME StartVerifier
    PROVE  \E fact : /\ HostFact(fact)
                     /\ fact.type = "VERIFICATION_STARTED" /\ fact.span = "verifier"
                     /\ fact.parent = None /\ fact.refs = {}
BY FactIs DEF StartVerifier, HostFact, HostTypes

LEMMA RecordVerdictFact ==
    ASSUME RecordVerdict
    PROVE  \E fact : /\ HostFact(fact)
                     /\ fact.type = "VERIFICATION_FINISHED" /\ fact.span = "verifier"
                     /\ fact.parent = None
                     /\ fact.refs = orch.out \cup
                          {<<"verifier-report", VerifierOutcome(orch.verifier).verdict>>}
                     /\ fact.status = VerifierOutcome(orch.verifier).status
                     /\ fact.passed = VerifierOutcome(orch.verifier).passed
<1>1. PICK o : o = VerifierOutcome(orch.verifier)
  OBVIOUS
<1>2. PICK r : r = orch.out \cup {<<"verifier-report", o.verdict>>}
  OBVIOUS
<1>3. PICK f : f = Fact("VERIFICATION_FINISHED", "verifier", o.status)
  OBVIOUS
<1>4. /\ Emit([f EXCEPT !.passed = o.passed, !.refs = r])
      /\ UNCHANGED <<evidence, call, callCount, observed, recordLock, closeouts>>
  BY <1>1, <1>2, <1>3 DEF RecordVerdict
<1>5. /\ DOMAIN f = FactFields /\ f.type = "VERIFICATION_FINISHED" /\ f.span = "verifier"
      /\ f.parent = None /\ f.status = o.status
  BY <1>3, FactIs
<1>6. PICK g : g = [f EXCEPT !.passed = o.passed, !.refs = r]
  OBVIOUS
<1>7. /\ DOMAIN g = FactFields /\ g.type = "VERIFICATION_FINISHED" /\ g.span = "verifier"
      /\ g.parent = None /\ g.status = o.status /\ g.passed = o.passed /\ g.refs = r
  BY <1>5, <1>6 DEF FactFields
<1> QED
  BY <1>1, <1>2, <1>4, <1>6, <1>7 DEF HostFact, HostTypes

LEMMA FinishFact ==
    ASSUME Finish
    PROVE  \E fact : /\ HostFact(fact)
                     /\ fact.type = "EPISODE_FINISHED" /\ fact.span = "episode"
                     /\ fact.parent = None /\ fact.refs = {}
                     /\ fact.terminal = Declared(orch)
<1>1. VerifierVerdict = VerdictOf(orch)
  BY DEF VerifierVerdict, VerdictOf
<1>2. PICK f : f = Fact("EPISODE_FINISHED", "episode", "SUCCEEDED")
  OBVIOUS
<1>3. PICK t : t = Declared(orch)
  OBVIOUS
<1>4. /\ Emit([f EXCEPT !.terminal = t])
      /\ UNCHANGED <<evidence, call, callCount, observed, recordLock, closeouts>>
  BY <1>1, <1>2, <1>3 DEF Finish, Declared
<1>5. /\ DOMAIN f = FactFields /\ f.type = "EPISODE_FINISHED" /\ f.span = "episode"
      /\ f.parent = None /\ f.refs = {}
  BY <1>2, FactIs
<1>6. PICK g : g = [f EXCEPT !.terminal = t]
  OBVIOUS
<1>7. /\ DOMAIN g = FactFields /\ g.type = "EPISODE_FINISHED" /\ g.span = "episode"
      /\ g.parent = None /\ g.refs = {} /\ g.terminal = t
  BY <1>5, <1>6 DEF FactFields
<1> QED
  BY <1>3, <1>4, <1>6, <1>7 DEF HostFact, HostTypes

LEMMA ProxyKept ==
    ASSUME ProxyInv, [Next]_vars
    PROVE  ProxyInv'
<1>h. ASSUME NEW fact, HostFact(fact) PROVE ProxyInv'
  <2>1. fact.type \notin {"MODEL_REQUEST", "MODEL_RESPONSE"}
    BY <1>h DEF HostFact, HostTypes
  <2> QED
    BY <1>h, <2>1, ForeignEvent DEF HostFact
<1>1. CASE Prepare
  BY <1>1, <1>h, PrepareFact
<1>2. CASE PostRun
  BY <1>2, <1>h, PostRunFact
<1>3. CASE StartVerifier
  BY <1>3, <1>h, StartVerifierFact
<1>4. CASE RecordVerdict
  BY <1>4, <1>h, RecordVerdictFact
<1>5. CASE Finish
  BY <1>5, <1>h, FinishFact
<1>6. CASE UNCHANGED proxyVars
  BY <1>6, ProxyIdle
<1>7. CASE \E c \in Calls : HarnessCalls(c) \/ NotifyFirst(c) \/ Serve(c)
  BY <1>7, PostStep, NotifyStep, ServeStep DEF HarnessCalls, Serve
<1>8. CASE HarnessPosts
  <2>1. PICK fact \in HarnessFacts : IngressEmit(fact)
    BY <1>8 DEF HarnessPosts
  <2>2. /\ DOMAIN fact = FactFields /\ fact.type \in {"TOOL_CALL", "TOOL_RESULT"}
        /\ Emit(fact)
        /\ UNCHANGED <<evidence, call, callCount, observed, recordLock, closeouts>>
    BY <2>1, ToolFacts DEF IngressEmit
  <2> QED
    BY <2>2, ForeignEvent
<1>9. CASE UNCHANGED vars
  BY <1>9, ProxyIdle DEF vars
<1>10. CASE \/ SkipVerifier \/ RefuseOutput \/ WriteJson \/ ReadEvents \/ ReadEvidence
            \/ AssembleRun \/ CloseServer \/ RefuseOutputDir \/ TornRead
  BY <1>10, <1>6 DEF SkipVerifier, RefuseOutput, WriteJson, ReadEvents, ReadEvidence, AssembleRun,
     CloseServer, RefuseOutputDir, TornRead
<1>11. CASE \E r \in Roles : \/ Launch(r) \/ LaunchFails(r) \/ ContainerExits(r) \/ TimesOut(r)
                             \/ LaunchRaises(r) \/ LeakedEnds(r)
  BY <1>11, <1>6 DEF Launch, LaunchFails, ContainerExits, TimesOut, LaunchRaises, LeakedEnds
<1> QED
  BY <1>1, <1>2, <1>3, <1>4, <1>5, <1>7, <1>8, <1>9, <1>10, <1>11 DEF Next, OrchestratorStep

-----------------------------------------------------------------------------
(* The orchestrator: what each step does to the locals of run().           *)

(* Every other local keeps its value.                                      *)
OnlyIn(S) == Locals(orch') /\ \A x \in Fields \ S : orch'[x] = orch[x]

LEMMA GoToIs ==
    ASSUME Locals(orch), NEW p, GoTo(p)
    PROVE  OnlyIn({"pc"}) /\ orch'.pc = p
BY DEF GoTo, Locals, Fields, OnlyIn

LEMMA LaunchedIs ==
    ASSUME Locals(orch), NEW r \in Roles, NEW st, NEW refs, Launched(r, st, refs)
    PROVE  /\ OnlyIn({"pc", "out", r})
           /\ orch'.pc = "after" /\ orch'[r] = st /\ orch'.out = refs
BY DEF Launched, Locals, Fields, OnlyIn, Roles

LEMMA PostRunIs ==
    ASSUME Locals(orch), PostRun
    PROVE  /\ OnlyIn({"pc", "out", "refs"})
           /\ orch'.pc = "verify" /\ orch'.out = {}
           /\ orch'.refs = orch.out \cup {<<"workspace-diff", "diff">>}
<1>1. PICK r : r = orch.out \cup {<<"workspace-diff", "diff">>}
  OBVIOUS
<1>2. orch' = [orch EXCEPT !.pc = "verify", !.out = {}, !.refs = r]
  BY <1>1 DEF PostRun
<1> QED
  BY <1>1, <1>2 DEF Locals, Fields, OnlyIn

LEMMA StartVerifierIs ==
    ASSUME Locals(orch), StartVerifier
    PROVE  OnlyIn({"pc", "role"}) /\ orch'.pc = "launch" /\ orch'.role = "verifier"
<1>1. orch' = [orch EXCEPT !.pc = "launch", !.role = "verifier"]
  BY DEF StartVerifier
<1> QED
  BY <1>1 DEF Locals, Fields, OnlyIn

LEMMA RecordVerdictIs ==
    ASSUME Locals(orch), RecordVerdict
    PROVE  /\ OnlyIn({"pc", "out", "refs", "verdict"})
           /\ orch'.pc = "finish" /\ orch'.out = {}
           /\ orch'.refs = orch.refs \cup (orch.out \cup
                {<<"verifier-report", VerifierOutcome(orch.verifier).verdict>>})
           /\ orch'.verdict = {Len(log) + 1}
<1>1. PICK r : r = orch.out \cup {<<"verifier-report", VerifierOutcome(orch.verifier).verdict>>}
  OBVIOUS
<1>2. PICK v : v = {Len(log) + 1}
  OBVIOUS
<1>3. PICK s : s = orch.refs \cup r
  OBVIOUS
<1>4. orch' = [orch EXCEPT !.pc = "finish", !.out = {}, !.refs = orch.refs \cup r, !.verdict = v]
  BY <1>1, <1>2, Zenon DEF RecordVerdict
<1>5. orch' = [orch EXCEPT !.pc = "finish", !.out = {}, !.refs = s, !.verdict = v]
  BY <1>3, <1>4
<1> HIDE <1>3
<1>6. /\ OnlyIn({"pc", "out", "refs", "verdict"})
      /\ orch'.pc = "finish" /\ orch'.out = {} /\ orch'.refs = s /\ orch'.verdict = v
  BY <1>5 DEF Locals, Fields, OnlyIn
<1> QED
  BY <1>1, <1>2, <1>3, <1>6

LEMMA WriteJsonIs ==
    ASSUME Locals(orch), WriteJson
    PROVE  /\ OnlyIn({"pc", "file"})
           /\ orch'.pc = AfterFile(orch.file).pc /\ orch'.file = AfterFile(orch.file).file
<1>1. PICK p : p = AfterFile(orch.file).pc
  OBVIOUS
<1>2. PICK f : f = AfterFile(orch.file).file
  OBVIOUS
<1>3. orch' = [orch EXCEPT !.pc = p, !.file = f]
  BY <1>1, <1>2 DEF WriteJson
<1> QED
  BY <1>1, <1>2, <1>3 DEF Locals, Fields, OnlyIn

LEMMA ReadEventsIs ==
    ASSUME Locals(orch), ReadEvents
    PROVE  OnlyIn({"pc", "events"}) /\ orch'.pc = "read evidence" /\ orch'.events = log
<1>1. orch' = [orch EXCEPT !.pc = "read evidence", !.events = log]
  BY DEF ReadEvents
<1> QED
  BY <1>1 DEF Locals, Fields, OnlyIn

LEMMA ReadEvidenceIs ==
    ASSUME Locals(orch), ReadEvidence
    PROVE  OnlyIn({"pc", "evidence"}) /\ orch'.pc = "assemble" /\ orch'.evidence = evidence
<1>1. orch' = [orch EXCEPT !.pc = "assemble", !.evidence = evidence]
  BY DEF ReadEvidence
<1> QED
  BY <1>1 DEF Locals, Fields, OnlyIn

(* The steps that do nothing to run() but send it to another point.        *)
LEMMA RaiseIs ==
    ASSUME Locals(orch), Raise
    PROVE  OnlyIn({"pc"}) /\ orch'.pc = "raising"
BY GoToIs DEF Raise

LEMMA FileSteps ==
    ASSUME orch.pc = "write", orch.file \in JsonFiles, FilesInOrder, NEW p, NEW f,
           p = AfterFile(orch.file).pc, f = AfterFile(orch.file).file
    PROVE  \/ orch.file = "producer-artifact" /\ p = "write" /\ f = "artifact-refs"
           \/ orch.file = "artifact-refs" /\ p = "read events" /\ f = "episode"
           \/ orch.file = "episode" /\ p = "write" /\ f = "execution-bundle"
           \/ orch.file = "execution-bundle" /\ p = "write" /\ f = "finalization"
           \/ orch.file = "finalization" /\ p = "returning" /\ f = "finalization"
BY DEF AfterFile, FilesInOrder, Late, JsonFiles

HostInv ==
    /\ Locals(orch)
    /\ orch.pc \in {"start", "returning", "raising", "returned", "raised"} \cup Early \cup Late
    /\ orch.role \in Roles
    /\ orch.harness \in Statuses \cup {None} /\ orch.verifier \in Statuses \cup {None}
    /\ orch.file \in JsonFiles
    /\ running \subseteq Roles
    /\ server \in {"absent", "up", "closed"}
    /\ stage \in {"INIT", "RUN", "POSTRUN"}
    /\ files \subseteq JsonFiles
    /\ posts \in 0..MaxPosts
    /\ exits \in [Roles -> ExitCodes \cup {"timeout", None}]
    /\ quiet \in BOOLEAN
    /\ Containers
    /\ FilesInOrder

LEMMA TInvParts == TInv <=> ProxyInv /\ HostInv
<1>1. TypeOK <=> /\ ProxyTypeOK
                 /\ orch.pc \in {"start", "returning", "raising", "returned", "raised"} \cup Early \cup Late
                 /\ orch.role \in Roles
                 /\ orch.harness \in Statuses \cup {None} /\ orch.verifier \in Statuses \cup {None}
                 /\ orch.file \in JsonFiles
                 /\ running \subseteq Roles
                 /\ server \in {"absent", "up", "closed"}
                 /\ stage \in {"INIT", "RUN", "POSTRUN"}
                 /\ files \subseteq JsonFiles
                 /\ posts \in 0..MaxPosts
                 /\ exits \in [Roles -> ExitCodes \cup {"timeout", None}]
                 /\ quiet \in BOOLEAN
  BY DEF TypeOK, Early, Late
<1> QED
  BY <1>1 DEF TInv, HostInv, ProxyInv

-----------------------------------------------------------------------------
(* The order of the transaction.                                           *)

(* A step that only moves run() on, out of its files and containers.       *)
LEMMA PlainMove ==
    ASSUME HostInv, OnlyIn({"pc", "out", "refs", "verdict", "events", "evidence"}),
           UNCHANGED <<running, files, exits, posts>>,
           server' \in {"absent", "up", "closed"}, stage' \in {"INIT", "RUN", "POSTRUN"},
           quiet' \in BOOLEAN,
           \/ orch'.pc \in {"returning", "raising", "returned", "raised"}
           \/ /\ orch.pc = "after" /\ orch.role = "harness" /\ orch'.pc = "verify"
           \/ /\ orch.pc \in Early /\ orch'.pc = "finish"
           \/ /\ orch.pc = "finish" /\ orch'.pc = "write"
           \/ /\ orch.pc = "read events" /\ orch'.pc = "read evidence"
           \/ /\ orch.pc = "read evidence" /\ orch'.pc = "assemble"
           \/ /\ orch.pc = "assemble" /\ orch'.pc = "write"
    PROVE  HostInv'
<1>1. /\ orch'.role = orch.role /\ orch'.file = orch.file
      /\ orch'.harness = orch.harness /\ orch'.verifier = orch.verifier /\ Locals(orch')
  BY DEF OnlyIn, Fields
<1>2. Containers'
  BY <1>1 DEF HostInv, Containers, Early, Late
<1>3. FilesInOrder'
  <2>1. /\ Written(orch.file)' = Written(orch.file)
        /\ orch'.pc \in Early \cup Late => orch.pc \in Early \cup Late
    BY <1>1 DEF Written, Early, Late
  <2> QED
    BY <1>1, <2>1 DEF HostInv, FilesInOrder, Early, Late, JsonFiles
<1>4. orch'.pc \in {"start", "returning", "raising", "returned", "raised"} \cup Early \cup Late
  BY DEF Early, Late
<1> QED
  BY <1>1, <1>2, <1>3, <1>4 DEF HostInv

LEMMA PrepareKept ==
    ASSUME HostInv, Prepare
    PROVE  HostInv'
<1>1. OnlyIn({"pc"}) /\ orch'.pc = "launch"
  BY GoToIs DEF HostInv, Prepare
<1>2. /\ orch'.role = orch.role /\ orch'.file = orch.file
      /\ orch'.harness = orch.harness /\ orch'.verifier = orch.verifier /\ Locals(orch')
  BY <1>1 DEF OnlyIn, Fields
<1>3. orch.pc = "start" /\ orch.file = "producer-artifact" /\ orch.role = "harness" /\ running = {}
  BY DEF Prepare, At, HostInv, Containers, FilesInOrder
<1>4. /\ server' = "up" /\ files' = files \cup {"execution-run-manifest", "launch-plan"}
      /\ UNCHANGED <<running, stage, final, posts, exits, quiet>>
  BY DEF Prepare
<1>5. Containers'
  BY <1>1, <1>2, <1>3, <1>4 DEF Containers
<1>6. FilesInOrder'
  <2>1. Written(orch.file)' = {"execution-run-manifest", "launch-plan"}
    BY <1>2, <1>3 DEF Written
  <2> QED
    BY <1>1, <1>2, <1>3, <1>4, <2>1 DEF HostInv, FilesInOrder, Early, Late, JsonFiles
<1> QED
  BY <1>1, <1>2, <1>3, <1>4, <1>5, <1>6 DEF HostInv, Early, JsonFiles

LEMMA StartVerifierKept ==
    ASSUME HostInv, StartVerifier
    PROVE  HostInv'
<1>1. OnlyIn({"pc", "role"}) /\ orch'.pc = "launch" /\ orch'.role = "verifier"
  BY StartVerifierIs DEF HostInv
<1>2. /\ orch'.file = orch.file /\ orch'.harness = orch.harness
      /\ orch'.verifier = orch.verifier /\ Locals(orch')
  BY <1>1 DEF OnlyIn, Fields
<1>3. /\ orch.pc = "verify" /\ orch.harness \notin Unverifiable
      /\ UNCHANGED <<running, server, stage, files, final, posts, exits, quiet>>
  BY DEF StartVerifier, At
<1>4. orch.role = "harness" /\ running = {} /\ orch.file = "producer-artifact"
  BY <1>3 DEF HostInv, Containers, FilesInOrder, Early
<1>5. Containers'
  BY <1>1, <1>3, <1>4 DEF Containers
<1>6. FilesInOrder'
  <2>1. Written(orch.file)' = Written(orch.file)
    BY <1>2 DEF Written
  <2> QED
    BY <1>1, <1>2, <1>3, <2>1 DEF HostInv, FilesInOrder, Early, Late
<1> QED
  BY <1>1, <1>2, <1>3, <1>5, <1>6 DEF HostInv, Early, Roles

LEMMA WriteJsonKept ==
    ASSUME HostInv, WriteJson
    PROVE  HostInv'
<1>1. /\ OnlyIn({"pc", "file"})
      /\ orch'.pc = AfterFile(orch.file).pc /\ orch'.file = AfterFile(orch.file).file
  BY WriteJsonIs DEF HostInv
<1>2. /\ orch'.role = orch.role /\ orch'.harness = orch.harness
      /\ orch'.verifier = orch.verifier /\ Locals(orch')
  BY <1>1 DEF OnlyIn, Fields
<1>3. /\ orch.pc = "write" /\ files' = files \cup {orch.file}
      /\ UNCHANGED <<running, server, stage, final, posts, exits, quiet>>
  BY DEF WriteJson, At
<1>4. \/ orch.file = "producer-artifact" /\ orch'.pc = "write" /\ orch'.file = "artifact-refs"
      \/ orch.file = "artifact-refs" /\ orch'.pc = "read events" /\ orch'.file = "episode"
      \/ orch.file = "episode" /\ orch'.pc = "write" /\ orch'.file = "execution-bundle"
      \/ orch.file = "execution-bundle" /\ orch'.pc = "write" /\ orch'.file = "finalization"
      \/ orch.file = "finalization" /\ orch'.pc = "returning" /\ orch'.file = "finalization"
  BY <1>1, <1>3, FileSteps DEF HostInv
<1>5. Containers'
  BY <1>2, <1>3, <1>4 DEF HostInv, Containers
<1>6. FilesInOrder'
  <2>1. Written(orch.file) \subseteq files
    BY <1>3 DEF HostInv, FilesInOrder, Late
  <2>2. orch'.pc # "returning" => Written(orch.file)' = Written(orch.file) \cup {orch.file}
    BY <1>4 DEF Written, JsonFiles
  <2>3. orch.file = "finalization" => JsonFiles \subseteq files'
    BY <1>3, <2>1 DEF Written
  <2>4. "finalization" \in files' => files' = JsonFiles
    BY <1>3, <2>3 DEF HostInv, FilesInOrder
  <2> QED
    BY <1>3, <1>4, <2>1, <2>2, <2>4 DEF FilesInOrder, Early, Late
<1> QED
  BY <1>2, <1>3, <1>4, <1>5, <1>6 DEF HostInv, Late, JsonFiles

LEMMA LaunchKept ==
    ASSUME HostInv, NEW r \in Roles, Launch(r)
    PROVE  HostInv'
<1>1. OnlyIn({"pc"}) /\ orch'.pc = "in"
  BY GoToIs DEF HostInv, Launch
<1>2. /\ orch'.role = orch.role /\ orch'.file = orch.file
      /\ orch'.harness = orch.harness /\ orch'.verifier = orch.verifier /\ Locals(orch')
  BY <1>1 DEF OnlyIn, Fields
<1>3. /\ orch.pc = "launch" /\ orch.role = r /\ running' = running \cup {r}
      /\ UNCHANGED <<server, stage, files, final, posts, exits, quiet>>
  BY DEF Launch, AtRole
<1>4. Containers'
  BY <1>1, <1>2, <1>3 DEF HostInv, Containers
<1>5. FilesInOrder'
  <2>1. Written(orch.file)' = Written(orch.file)
    BY <1>2 DEF Written
  <2> QED
    BY <1>1, <1>2, <1>3, <2>1 DEF HostInv, FilesInOrder, Early, Late
<1> QED
  BY <1>1, <1>2, <1>3, <1>4, <1>5 DEF HostInv, Early

(* However a launch ends, a harness that may be verified is gone.          *)
LEMMA LaunchedKept ==
    ASSUME HostInv, NEW r \in Roles, NEW st \in Statuses, NEW refs, Launched(r, st, refs),
           orch.pc \in {"launch", "in"}, orch.role = r, running' \subseteq running,
           st \in Unverifiable \/ running' = {}, exits' \in [Roles -> ExitCodes \cup {"timeout", None}],
           UNCHANGED <<server, stage, files, final, posts, quiet>>
    PROVE  HostInv'
<1>1. /\ OnlyIn({"pc", "out", r})
      /\ orch'.pc = "after" /\ orch'[r] = st /\ orch'.out = refs
  BY LaunchedIs DEF HostInv
<1>2. /\ orch'.role = orch.role /\ orch'.file = orch.file /\ Locals(orch')
      /\ \A q \in Roles : q # r => orch'[q] = orch[q]
  BY <1>1 DEF OnlyIn, Fields, Roles
<1>3. orch'.harness \in Statuses \cup {None} /\ orch'.verifier \in Statuses \cup {None}
  BY <1>1, <1>2 DEF HostInv, Roles
<1>4. Containers'
  BY <1>1, <1>2 DEF HostInv, Containers, Roles
<1>5. FilesInOrder'
  <2>1. Written(orch.file)' = Written(orch.file)
    BY <1>2 DEF Written
  <2> QED
    BY <1>1, <1>2, <2>1 DEF HostInv, FilesInOrder, Early, Late
<1> QED
  BY <1>1, <1>2, <1>3, <1>4, <1>5 DEF HostInv, Early, Roles

LEMMA LaunchEndsKept ==
    ASSUME HostInv, NEW r \in Roles, LaunchFails(r) \/ ContainerExits(r) \/ TimesOut(r)
    PROVE  HostInv'
<1>1. CASE LaunchFails(r)
  <2>1. /\ orch.pc = "launch" /\ orch.role = r /\ Launched(r, "INFRA_INVALID", {})
        /\ UNCHANGED <<running, server, stage, files, final, posts, exits, quiet>>
    BY <1>1 DEF LaunchFails, AtRole
  <2> QED
    BY <2>1, LaunchedKept DEF HostInv, Statuses, Unverifiable
<1>2. CASE ContainerExits(r)
  <2>1. /\ orch.pc = "in" /\ orch.role = r /\ running' = running \ {r}
        /\ UNCHANGED <<server, stage, files, final, posts, quiet>>
    BY <1>2 DEF ContainerExits, AtRole
  <2>2. PICK code \in ExitCodes, text \in Outputs \cup {None} :
           /\ exits' = [exits EXCEPT ![r] = code]
           /\ Launched(r, StatusOf(code), OutputRefs(text))
    BY <1>2 DEF ContainerExits
  <2>3. StatusOf(code) \in Statuses
    BY DEF StatusOf, Statuses
  <2>4. running' = {} /\ running' \subseteq running
    BY <2>1 DEF HostInv, Containers
  <2>5. exits' \in [Roles -> ExitCodes \cup {"timeout", None}]
    BY <2>2 DEF HostInv
  <2> QED
    BY <2>1, <2>2, <2>3, <2>4, <2>5, LaunchedKept
<1>3. CASE TimesOut(r)
  <2>1. /\ orch.pc = "in" /\ orch.role = r /\ running' \subseteq running
        /\ Launched(r, "TIMEOUT", {}) /\ exits' = [exits EXCEPT ![r] = "timeout"]
        /\ UNCHANGED <<server, stage, files, final, posts, quiet>>
    BY <1>3 DEF TimesOut, AtRole
  <2>2. exits' \in [Roles -> ExitCodes \cup {"timeout", None}]
    BY <2>1 DEF HostInv
  <2> QED
    BY <2>1, <2>2, LaunchedKept DEF Statuses, Unverifiable
<1> QED
  BY <1>1, <1>2, <1>3

LEMMA LaunchRaisesKept ==
    ASSUME HostInv, NEW r \in Roles, LaunchRaises(r)
    PROVE  HostInv'
<1>1. OnlyIn({"pc"}) /\ orch'.pc = "raising"
  BY RaiseIs DEF HostInv, LaunchRaises
<1>2. /\ orch'.role = orch.role /\ orch'.file = orch.file
      /\ orch'.harness = orch.harness /\ orch'.verifier = orch.verifier /\ Locals(orch')
  BY <1>1 DEF OnlyIn, Fields
<1>3. running' \subseteq running /\ UNCHANGED <<server, stage, files, final, posts, exits, quiet>>
  BY DEF LaunchRaises
<1>4. Containers' /\ FilesInOrder'
  BY <1>1, <1>2, <1>3 DEF HostInv, Containers, FilesInOrder, Early, Late
<1> QED
  BY <1>1, <1>2, <1>3, <1>4 DEF HostInv

(* A step of the harness or of a thread.                                   *)
LEMMA OutsideKept ==
    ASSUME HostInv, UNCHANGED <<orch, server, files, final, exits, quiet>>,
           running' \subseteq running, posts' \in 0..MaxPosts,
           stage' \in {"INIT", "RUN", "POSTRUN"}
    PROVE  HostInv'
<1>1. Containers' /\ FilesInOrder'
  BY DEF HostInv, Containers, FilesInOrder, Written
<1> QED
  BY <1>1 DEF HostInv

LEMMA HostKept ==
    ASSUME HostInv, [Next]_vars
    PROVE  HostInv'
<1>t. Locals(orch) /\ posts \in 0..MaxPosts /\ quiet \in BOOLEAN
      /\ server \in {"absent", "up", "closed"} /\ stage \in {"INIT", "RUN", "POSTRUN"}
  BY DEF HostInv
<1>p. ASSUME OnlyIn({"pc"})
      PROVE  OnlyIn({"pc", "out", "refs", "verdict", "events", "evidence"})
  BY <1>p DEF OnlyIn
<1>r. ASSUME Raise, UNCHANGED <<running, server, stage, files, posts, exits, quiet>>
      PROVE  HostInv'
  BY <1>r, <1>t, <1>p, RaiseIs, PlainMove
<1>1. CASE Prepare
  BY <1>1, PrepareKept
<1>2. CASE PostRun
  <2>1. OnlyIn({"pc", "out", "refs", "verdict", "events", "evidence"}) /\ orch'.pc = "verify"
    BY <1>2, <1>t, PostRunIs DEF OnlyIn
  <2>2. orch.pc = "after" /\ orch.role = "harness" /\ stage' \in {"INIT", "RUN", "POSTRUN"}
        /\ UNCHANGED <<running, server, files, posts, exits, quiet>>
    BY <1>2, <1>t DEF PostRun, AtRole
  <2> QED
    BY <2>1, <2>2, <1>t, PlainMove
<1>3. CASE SkipVerifier
  <2>1. OnlyIn({"pc"}) /\ orch'.pc = "finish"
    BY <1>3, <1>t, GoToIs DEF SkipVerifier
  <2> QED
    BY <1>3, <1>t, <1>p, <2>1, PlainMove DEF SkipVerifier, At, Early
<1>4. CASE StartVerifier
  BY <1>4, StartVerifierKept
<1>5. CASE RecordVerdict
  <2>1. OnlyIn({"pc", "out", "refs", "verdict", "events", "evidence"}) /\ orch'.pc = "finish"
    BY <1>5, <1>t, RecordVerdictIs DEF OnlyIn
  <2>2. orch.pc = "after" /\ UNCHANGED <<running, server, stage, files, posts, exits, quiet>>
    BY <1>5 DEF RecordVerdict, AtRole
  <2> QED
    BY <2>1, <2>2, <1>t, PlainMove DEF Early
<1>6. CASE RefuseOutput
  BY <1>6, <1>r DEF RefuseOutput
<1>7. CASE Finish
  <2>1. GoTo("write") /\ orch.pc = "finish" /\ UNCHANGED <<running, server, stage, files, posts, exits, quiet>>
    BY <1>7 DEF Finish, At
  <2>2. OnlyIn({"pc"}) /\ orch'.pc = "write"
    BY <1>t, <2>1, GoToIs
  <2> QED
    BY <1>t, <1>p, <2>1, <2>2, PlainMove
<1>8. CASE WriteJson
  BY <1>8, WriteJsonKept
<1>9. CASE ReadEvents
  <2>1. OnlyIn({"pc", "out", "refs", "verdict", "events", "evidence"}) /\ orch'.pc = "read evidence"
    BY <1>9, <1>t, ReadEventsIs DEF OnlyIn
  <2>2. orch.pc = "read events" /\ quiet' \in BOOLEAN /\ UNCHANGED <<running, server, stage, files, posts, exits>>
    BY <1>9 DEF ReadEvents, At
  <2> QED
    BY <2>1, <2>2, <1>t, PlainMove
<1>10. CASE ReadEvidence
  <2>1. OnlyIn({"pc", "out", "refs", "verdict", "events", "evidence"}) /\ orch'.pc = "assemble"
    BY <1>10, <1>t, ReadEvidenceIs DEF OnlyIn
  <2>2. orch.pc = "read evidence" /\ UNCHANGED <<running, server, stage, files, posts, exits, quiet>>
    BY <1>10 DEF ReadEvidence, At
  <2> QED
    BY <2>1, <2>2, <1>t, PlainMove
<1>11. CASE AssembleRun
  <2>1. /\ Raise \/ GoTo("write")
        /\ orch.pc = "assemble" /\ UNCHANGED <<running, server, stage, files, posts, exits, quiet>>
    BY <1>11 DEF AssembleRun, At
  <2>2. CASE GoTo("write")
    <3>1. OnlyIn({"pc"}) /\ orch'.pc = "write"
      BY <1>t, <2>2, GoToIs
    <3> QED
      BY <1>t, <1>p, <2>1, <3>1, PlainMove
  <2> QED
    BY <1>r, <2>1, <2>2
<1>12. CASE CloseServer
  <2>1. PICK p \in {"returned", "raised"} : GoTo(p)
    BY <1>12 DEF CloseServer
  <2>2. OnlyIn({"pc"}) /\ orch'.pc = p
    BY <1>t, <2>1, GoToIs
  <2> QED
    BY <1>12, <1>t, <1>p, <2>2, PlainMove DEF CloseServer
<1>13. CASE \E r \in Roles : Launch(r)
  BY <1>13, LaunchKept
<1>14. CASE RefuseOutputDir
  <2>1. OnlyIn({"pc"}) /\ orch'.pc = "raised"
    BY <1>14, <1>t, GoToIs DEF RefuseOutputDir
  <2> QED
    BY <1>14, <1>t, <1>p, <2>1, PlainMove DEF RefuseOutputDir
<1>15. CASE TornRead
  BY <1>15, <1>r DEF TornRead
<1>16. ASSUME NEW r \in Roles,
              LaunchFails(r) \/ ContainerExits(r) \/ TimesOut(r) \/ LaunchRaises(r) \/ LeakedEnds(r)
       PROVE  HostInv'
  <2>1. CASE LeakedEnds(r)
    BY <2>1, <1>t, OutsideKept DEF LeakedEnds
  <2> QED
    BY <1>16, <2>1, LaunchEndsKept, LaunchRaisesKept
<1>17. ASSUME NEW c \in Calls, HarnessCalls(c) \/ NotifyFirst(c) \/ Serve(c)
       PROVE  HostInv'
  <2>1. stage' \in {stage, "RUN"} /\ UNCHANGED <<orch, running, server, files, final, posts, exits, quiet>>
    BY <1>17 DEF HarnessCalls, NotifyFirst, Serve, orchVars
  <2> QED
    BY <1>t, <2>1, OutsideKept
<1>18. CASE HarnessPosts
  <2>1. posts' \in 0..MaxPosts /\ UNCHANGED <<orch, running, server, stage, files, final, exits, quiet>>
    BY <1>18, <1>t, LocalAssumption DEF HarnessPosts
  <2> QED
    BY <1>t, <2>1, OutsideKept
<1>19. CASE UNCHANGED vars
  BY <1>19, <1>t, OutsideKept DEF vars, orchVars
<1> QED
  BY <1>1, <1>2, <1>3, <1>4, <1>5, <1>6, <1>7, <1>8, <1>9, <1>10, <1>11, <1>12, <1>13, <1>14,
     <1>15, <1>16, <1>17, <1>18, <1>19 DEF Next, OrchestratorStep

LEMMA TInvInit ==
    ASSUME Init
    PROVE  TInv
<1>1. ProxyInv
  BY ProxyStarts DEF Init
<1>2. HostInv
  <2>1. Locals(orch)
    BY DEF Init, Locals, Fields
  <2> QED
    <3>1. /\ orch.pc = "start" /\ orch.role = "harness" /\ orch.file = "producer-artifact"
          /\ orch.harness = None /\ orch.verifier = None
          /\ running = {} /\ server = "absent" /\ stage = "INIT" /\ files = {} /\ posts = 0
          /\ quiet = FALSE
      BY DEF Init
    <3>2. Containers /\ FilesInOrder
      BY <3>1 DEF Containers, FilesInOrder, Early, Late
    <3>3. exits \in [Roles -> ExitCodes \cup {"timeout", None}] /\ posts \in 0..MaxPosts
      BY <3>1, LocalAssumption DEF Init
    <3> QED
      BY <2>1, <3>1, <3>2, <3>3 DEF HostInv, JsonFiles, Roles
<1> QED
  BY <1>1, <1>2, TInvParts

LEMMA TInvKept ==
    ASSUME TInv, [Next]_vars
    PROVE  TInv'
<1>1. ProxyInv' /\ HostInv'
  BY TInvParts, ProxyKept, HostKept
<1>2. TypeOK'
  BY <1>1 DEF HostInv, ProxyInv, TypeOK, Early, Late
<1> QED
  BY <1>1, <1>2 DEF TInv, HostInv

LEMMA TInvSound == TInv => TransactionSound
<1> SUFFICES ASSUME TInv PROVE TransactionSound
  OBVIOUS
<1>1. SoleContainer
  <2>1. running \subseteq {orch.role}
    BY DEF TInv, Containers
  <2>2. IsFiniteSet({orch.role}) /\ Cardinality({orch.role}) = 1
    BY FS_Singleton
  <2>3. Cardinality(running) <= Cardinality({orch.role})
    BY <2>1, <2>2, FS_Subset
  <2> QED
    BY <2>2, <2>3 DEF SoleContainer
<1> QED
  BY <1>1 DEF TInv, FilesInOrder, FinalizationLast, TransactionSound

(* The transaction of an execution keeps its order, however its threads    *)
(* and containers interleave: run() never has two containers alive, not    *)
(* even when docker rm fails after a timeout, and finalization.json is     *)
(* there only when every file it vouches for is.                           *)
THEOREM TransactionKeepsOrder == Spec => []TransactionSound
<1>1. Spec => []TInv
  BY TInvInit, TInvKept, PTL DEF Spec
<1> QED
  BY <1>1, TInvSound, PTL

-----------------------------------------------------------------------------
(* What a log that is read later says of the run.                          *)

LEMMA TruthfulKept ==
    ASSUME NEW L, NEW o, NEW p, Truthful(L, o), o.refs \subseteq p.refs,
           Has(L, "VERIFICATION_STARTED") => p.role = "verifier",
           Has(L, "VERIFICATION_FINISHED") => p.verdict = o.verdict /\ p.verifier = o.verifier,
           Has(L, "EPISODE_FINISHED") =>
             p.verdict = o.verdict /\ p.verifier = o.verifier /\ p.harness = o.harness
    PROVE  Truthful(L, p)
<1>1. \A i \in DOMAIN L : Shaped(L[i], p.refs)
  BY DEF Truthful, Shaped
<1>2. ASSUME NEW i \in DOMAIN L, L[i].type = "VERIFICATION_FINISHED"
      PROVE  /\ p.verdict = {i}
             /\ L[i].status = VerifierOutcome(p.verifier).status
             /\ L[i].passed = VerifierOutcome(p.verifier).passed
  <2>1. p.verdict = o.verdict /\ p.verifier = o.verifier
    BY <1>2 DEF Has
  <2> QED
    BY <1>2, <2>1 DEF Truthful
<1>3. ASSUME NEW i \in DOMAIN L, L[i].type = "EPISODE_FINISHED"
      PROVE  L[i].terminal = Declared(p)
  <2>1. p.verdict = o.verdict /\ p.verifier = o.verifier /\ p.harness = o.harness
    BY <1>3 DEF Has
  <2>2. Declared(p) = Declared(o)
    BY <2>1 DEF Declared, VerdictOf
  <2> QED
    BY <1>3, <2>2 DEF Truthful
<1> QED
  BY <1>1, <1>2, <1>3 DEF Truthful

LEMMA TruthfulExtended ==
    ASSUME NEW L, NEW M, NEW o, NEW fact, Truthful(L, o), Numbered(M), Extension(L, M, fact),
           Shaped(fact, o.refs),
           fact.type = "VERIFICATION_FINISHED" =>
             /\ o.verdict = {Len(L) + 1}
             /\ fact.status = VerifierOutcome(o.verifier).status
             /\ fact.passed = VerifierOutcome(o.verifier).passed,
           fact.type = "EPISODE_FINISHED" =>
             ~Has(L, "EPISODE_FINISHED") /\ fact.terminal = Declared(o),
           fact.type = "VERIFICATION_STARTED" => o.role = "verifier"
    PROVE  Truthful(M, o)
<1>1. PICK n : n = Len(L) + 1
  OBVIOUS
<1>2. /\ DOMAIN M = DOMAIN L \cup {n}
      /\ \A i \in DOMAIN L : M[i] = L[i]
  BY <1>1 DEF Extension
<1>3. /\ M[n].type = fact.type /\ M[n].span = fact.span /\ M[n].parent = fact.parent
      /\ M[n].status = fact.status /\ M[n].passed = fact.passed /\ M[n].refs = fact.refs
      /\ M[n].terminal = fact.terminal
  BY <1>1 DEF Extension, FactFields
<1>4. \A i \in DOMAIN M : Shaped(M[i], o.refs)
  <2>1. Shaped(M[n], o.refs)
    BY <1>3 DEF Shaped
  <2> QED
    BY <1>2, <2>1 DEF Truthful
<1>5. \A i \in DOMAIN M : M[i].type = "VERIFICATION_FINISHED" =>
          /\ o.verdict = {i}
          /\ M[i].status = VerifierOutcome(o.verifier).status
          /\ M[i].passed = VerifierOutcome(o.verifier).passed
  BY <1>1, <1>2, <1>3 DEF Truthful
<1>6. \A i, j \in DOMAIN M :
          M[i].type = "EPISODE_FINISHED" /\ M[j].type = "EPISODE_FINISHED" => i = j
  BY <1>2, <1>3 DEF Truthful, Has
<1>7. \A i \in DOMAIN M : M[i].type = "EPISODE_FINISHED" => M[i].terminal = Declared(o)
  BY <1>2, <1>3 DEF Truthful
<1>8. Has(M, "VERIFICATION_STARTED") => o.role = "verifier"
  BY HasAfter DEF Truthful
<1> QED
  BY <1>4, <1>5, <1>6, <1>7, <1>8 DEF Truthful

(* The locals that an event may speak of.                                  *)
SameSubject(o, p) ==
    /\ p.refs = o.refs /\ p.verdict = o.verdict /\ p.role = o.role
    /\ p.verifier = o.verifier /\ p.harness = o.harness

LEMMA SubjectKept ==
    ASSUME NEW L, NEW o, NEW p, SameSubject(o, p)
    PROVE  /\ Truthful(L, o) => Truthful(L, p)
           /\ Whole(L, o) => Whole(L, p)
           /\ \A q : Snapshot(L, o, q) => Snapshot(L, p, q)
<1>1. ASSUME Truthful(L, o) PROVE Truthful(L, p)
  <2>1. Has(L, "VERIFICATION_STARTED") => p.role = "verifier"
    BY <1>1 DEF Truthful, SameSubject
  <2> QED
    BY <1>1, <2>1, TruthfulKept DEF SameSubject
<1>2. Whole(L, o) => Whole(L, p)
  BY DEF Whole, SameSubject
<1> QED
  BY <1>1, <1>2 DEF Snapshot

(* The invariant's parts above the transaction.                            *)
Said == Statused /\ Truthful(log, orch) /\ HostOnRecord /\ Reading

(* A step of a thread or of the harness.                                   *)
LEMMA SaidOutside ==
    ASSUME Said, UNCHANGED <<orch, exits, final, quiet>>,
           \A c \in Calls : EvidenceFor(evidence, c) => EvidenceFor(evidence', c),
           \/ log' = log
           \/ \E fact : /\ Extension(log, log', fact) /\ Numbered(log')
                        /\ Shaped(fact, orch.refs) /\ fact.type \notin HostTypes
    PROVE  Said'
<1>1. Statused'
  BY DEF Said, Statused
<1>2. CASE log' = log
  <2>1. Truthful(log, orch)' /\ HostOnRecord'
    BY <1>2 DEF Said, HostOnRecord
  <2>2. Reading'
    BY BackedGrows DEF Said, Reading
  <2> QED
    BY <1>1, <2>1, <2>2 DEF Said
<1>3. ASSUME NEW fact, Extension(log, log', fact), Numbered(log'), Shaped(fact, orch.refs),
             fact.type \notin HostTypes
      PROVE  Said'
  <2>1. fact.type \notin {"VERIFICATION_FINISHED", "EPISODE_FINISHED", "VERIFICATION_STARTED",
                          "SANDBOX_FINISHED"}
    BY <1>3 DEF HostTypes
  <2>2. Truthful(log', orch)
    BY <1>3, <2>1, TruthfulExtended DEF Said
  <2>3. \A t \in {"VERIFICATION_FINISHED", "EPISODE_FINISHED", "SANDBOX_FINISHED"} :
           Has(log', t) <=> Has(log, t)
    BY <1>3, <2>1, HasAfter
  <2>4. Whole(log, orch) => Whole(log', orch)
    BY <2>3 DEF Whole
  <2>5. HostOnRecord'
    BY <2>3, <2>4 DEF Said, HostOnRecord
  <2>6. Reading'
    BY BackedGrows DEF Said, Reading
  <2> QED
    BY <1>1, <2>2, <2>5, <2>6 DEF Said
<1> QED
  BY <1>2, <1>3

LEMMA ServeSaid ==
    ASSUME ProxyInv, Said, NEW c \in Calls, HarnessCalls(c) \/ NotifyFirst(c) \/ Serve(c)
    PROVE  Said'
<1>1. UNCHANGED <<orch, exits, final, quiet>>
  BY DEF HarnessCalls, NotifyFirst, Serve, orchVars
<1>2. CASE log' = log /\ evidence' = evidence
  BY <1>1, <1>2, SaidOutside
<1>3. CASE AppendEvidence(c)
  <2>1. log' = log
    BY <1>3 DEF AppendEvidence
  <2> QED
    BY <1>1, <1>3, <2>1, EvidenceStep, SaidOutside
<1>4. ASSUME NEW type \in {"MODEL_REQUEST", "MODEL_RESPONSE"}, NEW st,
             Emit(Fact(type, CallSpan(c), st)), evidence' = evidence
      PROVE  Said'
  <2>1. PICK fact : fact = Fact(type, CallSpan(c), st)
    OBVIOUS
  <2>2. /\ DOMAIN fact = FactFields /\ fact.type = type /\ fact.span = CallSpan(c)
        /\ fact.parent = None /\ fact.refs = {}
    BY <2>1, FactIs
  <2>3. Extension(log, log', fact) /\ Numbered(log')
    BY <1>4, <2>1, <2>2, EmitExtends DEF ProxyInv
  <2>4. Shaped(fact, orch.refs) /\ fact.type \notin HostTypes
    BY <2>2 DEF Shaped, HostTypes
  <2> QED
    BY <1>1, <1>4, <2>3, <2>4, SaidOutside
<1>5. CASE RecordRequest(c)
  BY <1>4, <1>5 DEF RecordRequest
<1>6. CASE RecordResponse(c)
  BY <1>4, <1>6 DEF RecordResponse
<1>7. CASE \/ HarnessCalls(c) \/ NotifyFirst(c) \/ Closeout(c) \/ AdmitCall(c) \/ SendUpstream(c)
           \/ UpstreamRaises(c) \/ ResponseLost(c)
  BY <1>2, <1>7 DEF HarnessCalls, PostCall, NotifyFirst, Closeout, AdmitCall, SendUpstream,
     UpstreamRaises, ResponseLost
<1> QED
  BY <1>3, <1>5, <1>6, <1>7 DEF Serve, ServeCall

LEMMA PostsSaid ==
    ASSUME ProxyInv, Said, HarnessPosts
    PROVE  Said'
<1>1. PICK fact \in HarnessFacts : IngressEmit(fact)
  BY DEF HarnessPosts
<1>2. /\ DOMAIN fact = FactFields
      /\ fact.type \in {"TOOL_CALL", "TOOL_RESULT"} /\ fact.span = "tool"
      /\ fact.parent \in {None, "nowhere"} /\ fact.refs \subseteq {<<"unknown", "x">>}
      /\ Emit(fact) /\ evidence' = evidence
  BY <1>1, ToolFacts DEF IngressEmit
<1>3. Extension(log, log', fact) /\ Numbered(log')
  BY <1>2, EmitExtends DEF ProxyInv
<1>4. Shaped(fact, orch.refs) /\ fact.type \notin HostTypes
  BY <1>2 DEF Shaped, HostTypes
<1>5. UNCHANGED <<orch, exits, final, quiet>>
  BY DEF HarnessPosts
<1> QED
  BY <1>2, <1>3, <1>4, <1>5, SaidOutside

(* A step that moves run() on and records nothing.                         *)
LEMMA SaidMove ==
    ASSUME HostInv, Said, OnlyIn({"pc", "file"}), UNCHANGED <<log, evidence, exits, final, quiet>>,
           \/ orch'.pc \in {"returning", "raising", "returned", "raised"}
           \/ orch.pc = "launch" /\ orch'.pc = "in"
           \/ orch.pc = "verify" /\ orch'.pc = "finish" /\ orch.harness \in Unverifiable
           \/ /\ orch.pc = "write" /\ orch'.pc = "write"
              /\ orch'.file = "artifact-refs" => orch.file = "producer-artifact"
              /\ orch'.file # "producer-artifact"
           \/ orch.pc = "write" /\ orch'.pc = "read events" /\ orch.file = "artifact-refs"
    PROVE  Said'
<1>1. /\ orch'.role = orch.role /\ orch'.harness = orch.harness /\ orch'.verifier = orch.verifier
      /\ orch'.out = orch.out /\ orch'.refs = orch.refs /\ orch'.verdict = orch.verdict
      /\ orch'.events = orch.events /\ orch'.evidence = orch.evidence
  BY DEF OnlyIn, Fields
<1>2. SameSubject(orch, orch')
  BY <1>1 DEF SameSubject
<1>3. Truthful(log, orch)'
  BY <1>2, SubjectKept DEF Said
<1>4. Statused'
  BY <1>1, ZenonT(60) DEF Said, Statused, HostInv, Containers, Roles, Late
<1>5. HostOnRecord'
  <2>1. Whole(log, orch) => Whole(log, orch)'
    BY <1>2, SubjectKept
  <2> QED
    BY <1>1, <2>1 DEF Said, HostOnRecord, HostInv, Containers, Early, Late
<1>6. Reading'
  <2>1. Snapshot(orch.events, orch, quiet) => Snapshot(orch.events, orch, quiet)'
    BY <1>1, <1>2, SubjectKept
  <2> QED
    BY <1>1, <2>1 DEF Said, Reading, Early
<1> QED
  BY <1>3, <1>4, <1>5, <1>6 DEF Said

LEMMA PrepareSaid ==
    ASSUME TInv, Said, Prepare
    PROVE  Said'
<1>1. OnlyIn({"pc"}) /\ orch'.pc = "launch" /\ orch.pc = "start"
  BY GoToIs DEF TInv, Prepare, At
<1>2. /\ orch'.role = orch.role /\ orch'.harness = orch.harness /\ orch'.verifier = orch.verifier
      /\ orch'.out = orch.out /\ orch'.refs = orch.refs /\ orch'.verdict = orch.verdict
      /\ orch'.events = orch.events /\ orch'.evidence = orch.evidence
      /\ UNCHANGED <<exits, final, quiet>>
  BY <1>1 DEF OnlyIn, Fields, Prepare
<1>3. PICK fact : /\ HostFact(fact)
                  /\ fact.type = "SANDBOX_STARTED" /\ fact.span = "sandbox"
                  /\ fact.parent = None /\ fact.refs = {}
  BY PrepareFact
<1>4. Extension(log, log', fact) /\ Numbered(log')
  BY <1>3, EmitExtends DEF HostFact, TInv, ProxyInv
<1>5. Truthful(log, orch)'
  <2>1. Truthful(log, orch')
    BY <1>2, SubjectKept DEF SameSubject, Said
  <2>2. Shaped(fact, orch'.refs)
    BY <1>3 DEF Shaped
  <2> QED
    BY <1>3, <1>4, <2>1, <2>2, TruthfulExtended
<1>6. Statused'
  BY <1>1, <1>2 DEF Said, Statused, Roles, Late, TInv, Containers
<1>7. HostOnRecord'
  <2>1. ~Has(log', "EPISODE_FINISHED")
    BY <1>1, <1>3, <1>4, HasAfter DEF Said, HostOnRecord
  <2>2. orch.role = "harness"
    BY <1>1 DEF TInv, Containers
  <2> QED
    BY <1>1, <1>2, <2>1, <2>2 DEF Said, HostOnRecord, Early, Late
<1>8. Reading'
  BY <1>1, <1>2 DEF Said, Reading, Early
<1> QED
  BY <1>5, <1>6, <1>7, <1>8 DEF Said

LEMMA PostRunSaid ==
    ASSUME TInv, Said, PostRun
    PROVE  Said'
<1>1. /\ OnlyIn({"pc", "out", "refs"})
      /\ orch'.pc = "verify" /\ orch'.out = {}
      /\ orch'.refs = orch.out \cup {<<"workspace-diff", "diff">>}
      /\ orch.pc = "after" /\ orch.role = "harness"
  BY PostRunIs DEF TInv, PostRun, AtRole
<1>2. /\ orch'.role = orch.role /\ orch'.harness = orch.harness /\ orch'.verifier = orch.verifier
      /\ orch'.verdict = orch.verdict
      /\ orch'.events = orch.events /\ orch'.evidence = orch.evidence
      /\ UNCHANGED <<exits, final, quiet>>
  BY <1>1 DEF OnlyIn, Fields, PostRun
<1>3. PICK fact : /\ HostFact(fact)
                  /\ fact.type = "SANDBOX_FINISHED" /\ fact.span = "sandbox"
                  /\ fact.parent = None
                  /\ fact.refs = orch.out \cup {<<"workspace-diff", "diff">>}
  BY PostRunFact
<1>4. Extension(log, log', fact) /\ Numbered(log')
  BY <1>3, EmitExtends DEF HostFact, TInv, ProxyInv
<1>5. orch.refs = {}
  BY <1>1 DEF Said, Statused
<1>6. Truthful(log, orch)'
  <2>1. Has(log, "VERIFICATION_STARTED") => orch'.role = "verifier"
    BY <1>2 DEF Said, Truthful
  <2>2. Truthful(log, orch')
    BY <1>2, <1>5, <2>1, TruthfulKept DEF Said
  <2>3. Shaped(fact, orch'.refs)
    BY <1>1, <1>3 DEF Shaped
  <2> QED
    BY <1>3, <1>4, <2>2, <2>3, TruthfulExtended
<1>7. Statused'
  <2>1. \A r \in orch'.refs \cup orch'.out : r[1] # "unknown"
    BY <1>1 DEF Said, Statused
  <2> QED
    BY <1>1, <1>2, <2>1 DEF Said, Statused, Roles, Late
<1>8. HostOnRecord'
  <2>1. ~Has(log', "EPISODE_FINISHED") /\ Has(log', "SANDBOX_FINISHED")
    BY <1>1, <1>3, <1>4, HasAfter DEF Said, HostOnRecord, Early
  <2> QED
    BY <1>1, <1>2, <2>1 DEF Said, HostOnRecord, Early, Late
<1>9. Reading'
  BY <1>1, <1>2 DEF Said, Reading, Early
<1> QED
  BY <1>6, <1>7, <1>8, <1>9 DEF Said

LEMMA StartVerifierSaid ==
    ASSUME TInv, Said, StartVerifier
    PROVE  Said'
<1>1. /\ OnlyIn({"pc", "role"}) /\ orch'.pc = "launch" /\ orch'.role = "verifier"
      /\ orch.pc = "verify" /\ orch.harness \notin Unverifiable
  BY StartVerifierIs DEF TInv, StartVerifier, At
<1>2. /\ orch'.harness = orch.harness /\ orch'.verifier = orch.verifier
      /\ orch'.out = orch.out /\ orch'.refs = orch.refs /\ orch'.verdict = orch.verdict
      /\ orch'.events = orch.events /\ orch'.evidence = orch.evidence
      /\ UNCHANGED <<exits, final, quiet>>
  BY <1>1 DEF OnlyIn, Fields, StartVerifier
<1>3. PICK fact : /\ HostFact(fact)
                  /\ fact.type = "VERIFICATION_STARTED" /\ fact.span = "verifier"
                  /\ fact.parent = None /\ fact.refs = {}
  BY StartVerifierFact
<1>4. Extension(log, log', fact) /\ Numbered(log')
  BY <1>3, EmitExtends DEF HostFact, TInv, ProxyInv
<1>5. Truthful(log, orch)'
  <2>1. Truthful(log, orch')
    BY <1>1, <1>2, TruthfulKept DEF Said
  <2>2. Shaped(fact, orch'.refs)
    BY <1>3 DEF Shaped
  <2> QED
    BY <1>1, <1>3, <1>4, <2>1, <2>2, TruthfulExtended
<1>6. orch.role = "harness"
  BY <1>1 DEF TInv, Containers
<1>7. Statused'
  BY <1>1, <1>2, <1>6 DEF Said, Statused, Roles, Late
<1>8. HostOnRecord'
  <2>1. ~Has(log', "EPISODE_FINISHED") /\ Has(log', "SANDBOX_FINISHED")
    BY <1>1, <1>3, <1>4, HasAfter DEF Said, HostOnRecord, Early
  <2> QED
    BY <1>1, <1>2, <1>6, <2>1 DEF Said, HostOnRecord, Early, Late
<1>9. Reading'
  BY <1>1, <1>2 DEF Said, Reading, Early
<1> QED
  BY <1>5, <1>7, <1>8, <1>9 DEF Said

LEMMA RecordVerdictSaid ==
    ASSUME TInv, Said, RecordVerdict
    PROVE  Said'
<1>1. /\ OnlyIn({"pc", "out", "refs", "verdict"})
      /\ orch'.pc = "finish" /\ orch'.out = {}
      /\ orch'.refs = orch.refs \cup (orch.out \cup
           {<<"verifier-report", VerifierOutcome(orch.verifier).verdict>>})
      /\ orch'.verdict = {Len(log) + 1}
      /\ orch.pc = "after" /\ orch.role = "verifier"
  BY RecordVerdictIs DEF TInv, RecordVerdict, AtRole
<1>2. /\ orch'.role = orch.role /\ orch'.harness = orch.harness /\ orch'.verifier = orch.verifier
      /\ orch'.events = orch.events /\ orch'.evidence = orch.evidence
      /\ UNCHANGED <<exits, final, quiet>>
  BY <1>1 DEF OnlyIn, Fields, RecordVerdict
<1>3. PICK fact : /\ HostFact(fact)
                  /\ fact.type = "VERIFICATION_FINISHED" /\ fact.span = "verifier"
                  /\ fact.parent = None
                  /\ fact.refs = orch.out \cup
                       {<<"verifier-report", VerifierOutcome(orch.verifier).verdict>>}
                  /\ fact.status = VerifierOutcome(orch.verifier).status
                  /\ fact.passed = VerifierOutcome(orch.verifier).passed
  BY RecordVerdictFact
<1>4. Extension(log, log', fact) /\ Numbered(log')
  BY <1>3, EmitExtends DEF HostFact, TInv, ProxyInv
<1>5. /\ ~Has(log, "VERIFICATION_FINISHED") /\ ~Has(log, "EPISODE_FINISHED")
      /\ Has(log, "SANDBOX_FINISHED")
  <2>1. orch.verdict = {}
    BY <1>1 DEF Said, HostOnRecord
  <2> QED
    BY <1>1, <2>1 DEF Said, Truthful, Has, HostOnRecord, Early
<1>6. Truthful(log, orch)'
  <2>1. Truthful(log, orch')
    BY <1>1, <1>2, <1>5, TruthfulKept DEF Said
  <2>2. Shaped(fact, orch'.refs)
    BY <1>1, <1>3 DEF Shaped
  <2> QED
    BY <1>1, <1>2, <1>3, <1>4, <2>1, <2>2, TruthfulExtended
<1>7. Statused'
  <2>1. \A r \in orch'.refs \cup orch'.out : r[1] # "unknown"
    <3>1. PICK v : v = <<"verifier-report", VerifierOutcome(orch.verifier).verdict>>
      OBVIOUS
    <3>2. v[1] # "unknown"
      BY <3>1
    <3>3. orch'.refs = orch.refs \cup (orch.out \cup {v}) /\ orch'.out = {}
      BY <1>1, <3>1
    <3> HIDE <3>1
    <3> QED
      BY <3>2, <3>3 DEF Said, Statused
  <2> QED
    BY <1>1, <1>2, <2>1 DEF Said, Statused, Roles, Late
<1>8. HostOnRecord'
  <2>1. /\ ~Has(log', "EPISODE_FINISHED") /\ Has(log', "SANDBOX_FINISHED")
        /\ Has(log', "VERIFICATION_FINISHED")
    BY <1>3, <1>4, <1>5, HasAfter
  <2> QED
    BY <1>1, <1>2, <2>1 DEF HostOnRecord, Early, Late
<1>9. Reading'
  BY <1>1, <1>2 DEF Said, Reading, Early
<1> QED
  BY <1>6, <1>7, <1>8, <1>9 DEF Said

LEMMA FinishSaid ==
    ASSUME TInv, Said, Finish
    PROVE  Said'
<1>1. OnlyIn({"pc"}) /\ orch'.pc = "write" /\ orch.pc = "finish"
  BY GoToIs DEF TInv, Finish, At
<1>2. /\ orch'.role = orch.role /\ orch'.harness = orch.harness /\ orch'.verifier = orch.verifier
      /\ orch'.out = orch.out /\ orch'.refs = orch.refs /\ orch'.verdict = orch.verdict
      /\ orch'.events = orch.events /\ orch'.evidence = orch.evidence
      /\ UNCHANGED <<exits, final, quiet>>
  BY <1>1 DEF OnlyIn, Fields, Finish
<1>3. PICK fact : /\ HostFact(fact)
                  /\ fact.type = "EPISODE_FINISHED" /\ fact.span = "episode"
                  /\ fact.parent = None /\ fact.refs = {}
                  /\ fact.terminal = Declared(orch)
  BY FinishFact
<1>4. Extension(log, log', fact) /\ Numbered(log')
  BY <1>3, EmitExtends DEF HostFact, TInv, ProxyInv
<1>5. ~Has(log, "EPISODE_FINISHED") /\ Has(log, "SANDBOX_FINISHED")
  BY <1>1 DEF Said, HostOnRecord, Early
<1>6. Truthful(log, orch)'
  <2>1. Truthful(log, orch')
    BY <1>2, SubjectKept DEF SameSubject, Said
  <2>2. Shaped(fact, orch'.refs)
    BY <1>3 DEF Shaped
  <2>3. Declared(orch') = Declared(orch)
    BY <1>2 DEF Declared, VerdictOf
  <2> QED
    BY <1>3, <1>4, <1>5, <2>1, <2>2, <2>3, TruthfulExtended
<1>7. Statused'
  BY <1>1, <1>2 DEF Said, Statused, Roles, Late
<1>8. HostOnRecord'
  <2>1. /\ Has(log', "EPISODE_FINISHED") /\ Has(log', "SANDBOX_FINISHED")
        /\ Has(log, "VERIFICATION_FINISHED") => Has(log', "VERIFICATION_FINISHED")
    BY <1>3, <1>4, <1>5, HasAfter
  <2>2. Whole(log', orch')
    BY <1>1, <1>2, <2>1 DEF Whole, Said, HostOnRecord
  <2> QED
    BY <1>1, <1>2, <2>1, <2>2 DEF Said, HostOnRecord, Early, Late
<1>9. Reading'
  BY <1>1, <1>2 DEF Said, Reading, Early
<1> QED
  BY <1>6, <1>7, <1>8, <1>9 DEF Said

(* The end of a launch: the status it is given says how the container      *)
(* ended.                                                                  *)
LEMMA LaunchedSaid ==
    ASSUME TInv, Said, NEW r \in Roles, NEW st \in Statuses, NEW refs, Launched(r, st, refs),
           orch.pc \in {"launch", "in"}, orch.role = r,
           \A x \in refs : x[1] # "unknown",
           \A q \in Roles : q # r => exits'[q] = exits[q],
           st = "COMPLETED" <=> exits'[r] = "zero", st = "FAILED" <=> exits'[r] = "other",
           UNCHANGED <<log, evidence, final, quiet>>
    PROVE  Said'
<1>1. /\ OnlyIn({"pc", "out", r})
      /\ orch'.pc = "after" /\ orch'[r] = st /\ orch'.out = refs
  BY LaunchedIs, ZenonT(60) DEF TInv
<1>2. /\ orch'.role = orch.role /\ orch'.refs = orch.refs /\ orch'.verdict = orch.verdict
      /\ orch'.events = orch.events /\ orch'.evidence = orch.evidence
      /\ \A q \in Roles : q # r => orch'[q] = orch[q]
  BY <1>1 DEF OnlyIn, Fields, Roles
<1>3. /\ ~Has(log, "VERIFICATION_FINISHED") /\ ~Has(log, "EPISODE_FINISHED")
      /\ orch.verdict = {}
  BY DEF Said, Truthful, Has, HostOnRecord, Early
<1>4. Truthful(log, orch)'
  <2>1. Has(log, "VERIFICATION_STARTED") => orch'.role = "verifier"
    BY <1>2 DEF Said, Truthful
  <2> QED
    BY <1>2, <1>3, <2>1, TruthfulKept DEF Said
<1>5. Statused'
  <2>1. \A q \in Roles : /\ orch'[q] = "COMPLETED" <=> exits'[q] = "zero"
                         /\ orch'[q] = "FAILED" <=> exits'[q] = "other"
    BY <1>1, <1>2 DEF Said, Statused
  <2>2. orch'.role = "harness" => orch'.verifier = None
    BY <1>1, <1>2 DEF Said, Statused, Roles
  <2>3. orch'.role = "verifier" => orch'.harness \in Statuses /\ orch'.harness \notin Unverifiable
    BY <1>1, <1>2 DEF Said, Statused, Roles
  <2>4. \A x \in orch'.refs \cup orch'.out : x[1] # "unknown"
    BY <1>1, <1>2 DEF Said, Statused
  <2>5. orch'.role = "harness" => orch'.refs = {}
    BY <1>2 DEF Said, Statused
  <2> QED
    BY <1>1, <1>2, <2>1, <2>2, <2>3, <2>4, <2>5 DEF Statused, Late
<1>6. HostOnRecord'
  BY <1>1, <1>2, <1>3 DEF Said, HostOnRecord, Early, Late
<1>7. Reading'
  BY <1>1, <1>2 DEF Said, Reading, Early
<1> QED
  BY <1>4, <1>5, <1>6, <1>7 DEF Said

LEMMA LaunchEndsSaid ==
    ASSUME TInv, Said, NEW r \in Roles, LaunchFails(r) \/ ContainerExits(r) \/ TimesOut(r)
    PROVE  Said'
<1>t. exits \in [Roles -> ExitCodes \cup {"timeout", None}]
  BY DEF TInv, TypeOK
<1>1. CASE LaunchFails(r)
  <2>1. /\ orch.pc = "launch" /\ orch.role = r /\ Launched(r, "INFRA_INVALID", {})
        /\ UNCHANGED <<log, evidence, exits, final, quiet>>
    BY <1>1 DEF LaunchFails, AtRole, proxyVars
  <2>2. orch[r] = None
    BY <2>1 DEF Said, Statused
  <2>3. exits[r] # "zero" /\ exits[r] # "other"
    BY <2>2, LocalAssumption DEF Said, Statused
  <2> QED
    BY <2>1, <2>3, LaunchedSaid DEF Statuses
<1>2. CASE ContainerExits(r)
  <2>1. /\ orch.pc = "in" /\ orch.role = r
        /\ UNCHANGED <<log, evidence, final, quiet>>
    BY <1>2 DEF ContainerExits, AtRole, proxyVars
  <2>2. PICK code \in ExitCodes, text \in Outputs \cup {None} :
           /\ exits' = [exits EXCEPT ![r] = code]
           /\ Launched(r, StatusOf(code), OutputRefs(text))
    BY <1>2 DEF ContainerExits
  <2>3. /\ StatusOf(code) \in Statuses
        /\ StatusOf(code) = "COMPLETED" <=> code = "zero"
        /\ StatusOf(code) = "FAILED" <=> code = "other"
    BY DEF StatusOf, Statuses, ExitCodes
  <2>4. \A x \in OutputRefs(text) : x[1] # "unknown"
    BY DEF OutputRefs
  <2>5. exits'[r] = code /\ \A q \in Roles : q # r => exits'[q] = exits[q]
    BY <1>t, <2>2
  <2> QED
    BY <2>1, <2>2, <2>3, <2>4, <2>5, LaunchedSaid
<1>3. CASE TimesOut(r)
  <2>1. /\ orch.pc = "in" /\ orch.role = r
        /\ Launched(r, "TIMEOUT", {}) /\ exits' = [exits EXCEPT ![r] = "timeout"]
        /\ UNCHANGED <<log, evidence, final, quiet>>
    BY <1>3 DEF TimesOut, AtRole, proxyVars
  <2>2. exits'[r] = "timeout" /\ \A q \in Roles : q # r => exits'[q] = exits[q]
    BY <1>t, <2>1
  <2> QED
    BY <2>1, <2>2, LaunchedSaid DEF Statuses
<1> QED
  BY <1>1, <1>2, <1>3

(* The first read: the log, and with it the calls, as they are now.        *)
LEMMA ReadEventsSaid ==
    ASSUME TInv, Said, ReadEvents
    PROVE  Said'
<1>1. /\ OnlyIn({"pc", "events"}) /\ orch'.pc = "read evidence" /\ orch'.events = log
      /\ orch.pc = "read events"
  BY ReadEventsIs DEF TInv, ReadEvents, At
<1>2. /\ orch'.role = orch.role /\ orch'.harness = orch.harness /\ orch'.verifier = orch.verifier
      /\ orch'.out = orch.out /\ orch'.refs = orch.refs /\ orch'.verdict = orch.verdict
      /\ orch'.evidence = orch.evidence
      /\ UNCHANGED <<log, evidence, exits, final>>
  BY <1>1 DEF OnlyIn, Fields, ReadEvents, proxyVars
<1>3. SameSubject(orch, orch')
  BY <1>2 DEF SameSubject
<1>4. Truthful(log, orch)'
  BY <1>2, <1>3, SubjectKept DEF Said
<1>5. Statused'
  BY <1>1, <1>2 DEF Said, Statused, Roles, Late
<1>6. HostOnRecord' /\ Whole(log, orch')
  <2>1. Whole(log, orch) /\ Whole(log, orch')
    BY <1>1, <1>3, SubjectKept DEF Said, HostOnRecord, Late
  <2> QED
    BY <1>1, <1>2, <2>1 DEF Said, HostOnRecord, Early, Late
<1>7. Backed(log, evidence)
  BY DEF Backed, TInv, ProxyInv, CallsRecorded
<1>8. quiet' <=> \A c \in Calls : Recorded(log, "MODEL_REQUEST", c)
                                    => Recorded(log, "MODEL_RESPONSE", c)
  <2>1. quiet' <=> \A c \in Calls : call[c].pc \notin {"sent", "answered", "evidenced", "raised"}
    BY DEF ReadEvents
  <2>2. \A c \in Calls : /\ Recorded(log, "MODEL_REQUEST", c) <=> call[c].pc \in OnRecord
                         /\ Recorded(log, "MODEL_RESPONSE", c) <=> call[c].pc = "done"
    BY DEF TInv, ProxyInv, CallsRecorded
  <2> QED
    BY <2>1, <2>2 DEF OnRecord
<1>9. Snapshot(log, orch', quiet')
  BY <1>2, <1>4, <1>6, <1>8 DEF Snapshot
<1>10. Reading'
  <2>1. final' = None
    BY <1>1, <1>2 DEF Said, Reading
  <2> QED
    BY <1>1, <1>2, <1>7, <1>9, <2>1 DEF Reading
<1> QED
  BY <1>4, <1>5, <1>6, <1>10 DEF Said

LEMMA ReadEvidenceSaid ==
    ASSUME TInv, Said, ReadEvidence
    PROVE  Said'
<1>1. /\ OnlyIn({"pc", "evidence"}) /\ orch'.pc = "assemble" /\ orch'.evidence = evidence
      /\ orch.pc = "read evidence"
  BY ReadEvidenceIs DEF TInv, ReadEvidence, At
<1>2. /\ orch'.role = orch.role /\ orch'.harness = orch.harness /\ orch'.verifier = orch.verifier
      /\ orch'.out = orch.out /\ orch'.refs = orch.refs /\ orch'.verdict = orch.verdict
      /\ orch'.events = orch.events
      /\ UNCHANGED <<log, evidence, exits, final, quiet>>
  BY <1>1 DEF OnlyIn, Fields, ReadEvidence, proxyVars
<1>3. SameSubject(orch, orch')
  BY <1>2 DEF SameSubject
<1>4. Truthful(log, orch)'
  BY <1>2, <1>3, SubjectKept DEF Said
<1>5. Statused'
  BY <1>1, <1>2 DEF Said, Statused, Roles, Late
<1>6. HostOnRecord'
  <2>1. Whole(log, orch')
    BY <1>1, <1>3, SubjectKept DEF Said, HostOnRecord, Late
  <2> QED
    BY <1>1, <1>2, <2>1 DEF Said, HostOnRecord, Early, Late
<1>7. Reading'
  <2>1. final' = None /\ Backed(orch.events, evidence) /\ Snapshot(orch.events, orch, quiet)
    BY <1>1, <1>2 DEF Said, Reading
  <2>2. Snapshot(orch.events, orch', quiet)
    BY <1>3, <2>1, SubjectKept
  <2> QED
    BY <1>1, <1>2, <2>1, <2>2 DEF Reading
<1> QED
  BY <1>4, <1>5, <1>6, <1>7 DEF Said

LEMMA AssembleSaid ==
    ASSUME TInv, Said, AssembleRun, ~Raise
    PROVE  Said'
<1>1. /\ GoTo("write") /\ orch.pc = "assemble"
      /\ ~AssemblyFails(orch.events)
      /\ UNCHANGED <<log, evidence, exits, quiet>>
  BY DEF AssembleRun, At, proxyVars
<1>2. /\ final'.episode = Assemble(orch.events, orch.refs)
      /\ final'.sources = {x.call : x \in Range(orch.evidence)}
  <2>1. PICK ep : ep = Assemble(orch.events, orch.refs)
    OBVIOUS
  <2>2. PICK so : so = {x.call : x \in Range(orch.evidence)}
    OBVIOUS
  <2>3. final' = [episode |-> ep, sources |-> so]
    BY <2>1, <2>2 DEF AssembleRun
  <2> QED
    BY <2>1, <2>2, <2>3
<1>3. OnlyIn({"pc"}) /\ orch'.pc = "write"
  BY <1>1, GoToIs DEF TInv
<1>4. /\ orch'.role = orch.role /\ orch'.harness = orch.harness /\ orch'.verifier = orch.verifier
      /\ orch'.out = orch.out /\ orch'.refs = orch.refs /\ orch'.verdict = orch.verdict
      /\ orch'.events = orch.events /\ orch'.evidence = orch.evidence /\ orch'.file = orch.file
  BY <1>3 DEF OnlyIn, Fields
<1>5. SameSubject(orch, orch')
  BY <1>4 DEF SameSubject
<1>6. Truthful(log, orch)'
  BY <1>1, <1>5, SubjectKept DEF Said
<1>7. Statused'
  BY <1>1, <1>3, <1>4 DEF Said, Statused, Roles, Late
<1>8. HostOnRecord'
  <2>1. Whole(log, orch')
    BY <1>1, <1>5, SubjectKept DEF Said, HostOnRecord, Late
  <2> QED
    BY <1>1, <1>3, <1>4, <2>1 DEF Said, HostOnRecord, Early, Late
<1>9. Reading'
  <2>1. orch.file = "episode"
    BY <1>1 DEF TInv, FilesInOrder
  <2>2. Snapshot(orch.events, orch, quiet) /\ Backed(orch.events, orch.evidence)
    BY <1>1 DEF Said, Reading
  <2>3. Snapshot(orch.events, orch', quiet)
    BY <1>5, <2>2, SubjectKept
  <2>4. /\ orch'.role = "verifier" => orch'.verifier \in Statuses
        /\ orch'.role = "harness" => orch'.harness \in Unverifiable
    BY <1>1, <1>4 DEF Said, Statused, Late
  <2>5. \A x : Assemble(x, orch.refs) = Assemble(x, orch'.refs)
    BY <1>4
  <2> QED
    BY <1>1, <1>2, <1>3, <1>4, <2>1, <2>2, <2>3, <2>4 DEF Reading, Early
<1> QED
  BY <1>6, <1>7, <1>8, <1>9 DEF Said

LEMMA SaidInit ==
    ASSUME Init
    PROVE  Said
<1>1. /\ orch.pc = "start" /\ orch.role = "harness" /\ orch.harness = None /\ orch.verifier = None
      /\ orch.out = {} /\ orch.refs = {} /\ orch.verdict = {} /\ final = None /\ log = <<>>
  BY DEF Init, ProxyInit
<1>2. exits["harness"] = None /\ exits["verifier"] = None
  BY DEF Init, Roles
<1>3. Statused
  <2>1. \A r \in Roles : /\ orch[r] = "COMPLETED" <=> exits[r] = "zero"
                         /\ orch[r] = "FAILED" <=> exits[r] = "other"
    BY <1>1, <1>2, LocalAssumption DEF Roles
  <2> QED
    BY <1>1, <2>1 DEF Statused, Late
<1>4. Truthful(log, orch)
  BY <1>1 DEF Truthful, Numbered, Has, Range
<1>5. HostOnRecord
  BY <1>1 DEF HostOnRecord, Has, Early, Late
<1>6. Reading
  BY <1>1 DEF Reading
<1> QED
  BY <1>3, <1>4, <1>5, <1>6 DEF Said

LEMMA SaidKept ==
    ASSUME TInv, Said, [Next]_vars
    PROVE  Said'
<1>t. HostInv /\ ProxyInv /\ Locals(orch)
  BY TInvParts DEF TInv
<1>p. ASSUME OnlyIn({"pc"})
      PROVE  OnlyIn({"pc", "file"})
  BY <1>p DEF OnlyIn
<1>r. ASSUME Raise, UNCHANGED <<proxyVars, final, exits, quiet>>
      PROVE  Said'
  <2>1. OnlyIn({"pc", "file"}) /\ orch'.pc = "raising"
    BY <1>r, <1>t, <1>p, RaiseIs
  <2> QED
    BY <1>r, <1>t, <2>1, SaidMove DEF proxyVars
<1>1. CASE Prepare
  BY <1>1, PrepareSaid
<1>2. CASE PostRun
  BY <1>2, PostRunSaid
<1>3. CASE SkipVerifier
  <2>1. OnlyIn({"pc", "file"}) /\ orch'.pc = "finish"
    BY <1>3, <1>t, <1>p, GoToIs DEF SkipVerifier
  <2> QED
    BY <1>3, <1>t, <2>1, SaidMove DEF SkipVerifier, At, proxyVars
<1>4. CASE StartVerifier
  BY <1>4, StartVerifierSaid
<1>5. CASE RecordVerdict
  BY <1>5, RecordVerdictSaid
<1>6. CASE RefuseOutput
  BY <1>6, <1>r DEF RefuseOutput
<1>7. CASE Finish
  BY <1>7, FinishSaid
<1>8. CASE WriteJson
  <2>1. /\ OnlyIn({"pc", "file"}) /\ orch.pc = "write"
        /\ orch'.pc = AfterFile(orch.file).pc /\ orch'.file = AfterFile(orch.file).file
        /\ UNCHANGED <<log, evidence, exits, final, quiet>>
    BY <1>8, <1>t, WriteJsonIs DEF WriteJson, At, proxyVars
  <2>2. \/ orch.file = "producer-artifact" /\ orch'.pc = "write" /\ orch'.file = "artifact-refs"
        \/ orch.file = "artifact-refs" /\ orch'.pc = "read events" /\ orch'.file = "episode"
        \/ orch.file = "episode" /\ orch'.pc = "write" /\ orch'.file = "execution-bundle"
        \/ orch.file = "execution-bundle" /\ orch'.pc = "write" /\ orch'.file = "finalization"
        \/ orch.file = "finalization" /\ orch'.pc = "returning" /\ orch'.file = "finalization"
    BY <1>t, <2>1, FileSteps DEF HostInv
  <2> QED
    BY <1>t, <2>1, <2>2, SaidMove
<1>9. CASE ReadEvents
  BY <1>9, ReadEventsSaid
<1>10. CASE ReadEvidence
  BY <1>10, ReadEvidenceSaid
<1>11. CASE AssembleRun
  <2>1. CASE Raise
    <3>1. UNCHANGED <<proxyVars, exits, quiet>> /\ orch.pc = "assemble"
      BY <1>11 DEF AssembleRun, At
    <3>2. orch'.pc = "raising"
      BY <1>t, <2>1, RaiseIs
    <3>3. ~GoTo("write")
      BY <1>t, <3>2, GoToIs
    <3>4. final' = final
      BY <1>11, <3>3 DEF AssembleRun
    <3> QED
      BY <1>r, <2>1, <3>1, <3>4
  <2> QED
    BY <1>11, <2>1, AssembleSaid
<1>12. CASE CloseServer
  <2>1. PICK p \in {"returned", "raised"} : GoTo(p)
    BY <1>12 DEF CloseServer
  <2>2. OnlyIn({"pc", "file"}) /\ orch'.pc = p
    BY <1>t, <1>p, <2>1, GoToIs
  <2> QED
    BY <1>12, <1>t, <2>2, SaidMove DEF CloseServer, proxyVars
<1>13. ASSUME NEW r \in Roles, Launch(r)
       PROVE  Said'
  <2>1. OnlyIn({"pc", "file"}) /\ orch'.pc = "in"
    BY <1>13, <1>t, <1>p, GoToIs DEF Launch
  <2> QED
    BY <1>13, <1>t, <2>1, SaidMove DEF Launch, AtRole, proxyVars
<1>14. CASE RefuseOutputDir
  <2>1. OnlyIn({"pc", "file"}) /\ orch'.pc = "raised"
    BY <1>14, <1>t, <1>p, GoToIs DEF RefuseOutputDir
  <2> QED
    BY <1>14, <1>t, <2>1, SaidMove DEF RefuseOutputDir, proxyVars
<1>15. CASE TornRead
  BY <1>15, <1>r DEF TornRead
<1>16. ASSUME NEW r \in Roles,
              LaunchFails(r) \/ ContainerExits(r) \/ TimesOut(r) \/ LaunchRaises(r) \/ LeakedEnds(r)
       PROVE  Said'
  <2>1. CASE LeakedEnds(r)
    BY <2>1, SaidOutside DEF LeakedEnds, proxyVars
  <2>2. CASE LaunchRaises(r)
    BY <1>r, <2>2 DEF LaunchRaises
  <2> QED
    BY <1>16, <2>1, <2>2, LaunchEndsSaid
<1>17. CASE \E c \in Calls : HarnessCalls(c) \/ NotifyFirst(c) \/ Serve(c)
  BY <1>17, <1>t, ServeSaid
<1>18. CASE HarnessPosts
  BY <1>18, <1>t, PostsSaid
<1>19. CASE UNCHANGED vars
  BY <1>19, SaidOutside DEF vars, proxyVars, orchVars
<1> QED
  BY <1>1, <1>2, <1>3, <1>4, <1>5, <1>6, <1>7, <1>8, <1>9, <1>10, <1>11, <1>12, <1>13, <1>14,
     <1>15, <1>16, <1>17, <1>18, <1>19 DEF Next, OrchestratorStep

LEMMA LocalInvHolds == Spec => []LocalInv
<1>1. Init => LocalInv
  BY TInvInit, SaidInit DEF LocalInv, Said
<1>2. LocalInv /\ [Next]_vars => LocalInv'
  BY TInvKept, SaidKept DEF LocalInv, Said
<1> QED
  BY <1>1, <1>2, PTL DEF Spec

-----------------------------------------------------------------------------
(* What the assembler makes of a truthful log.                             *)

LEMMA TerminalIsDeclared ==
    ASSUME NEW L, NEW o, NEW q, Snapshot(L, o, q)
    PROVE  \E k \in DOMAIN L :
             /\ OfType(Accepted(L), "EPISODE_FINISHED") = {L[k]}
             /\ L[k].terminal = Declared(o)
<1>1. Truthful(L, o) /\ Whole(L, o) /\ Numbered(L)
  BY DEF Snapshot, Truthful
<1>2. PICK k \in DOMAIN L : L[k].type = "EPISODE_FINISHED"
  BY <1>1 DEF Whole, Has
<1>3. \A i \in DOMAIN L : L[i].type = "EPISODE_FINISHED" => i = k
  BY <1>1, <1>2 DEF Truthful
<1> QED
  BY <1>1, <1>2, <1>3, SingleEvent DEF Truthful

LEMMA NotCorrupt ==
    ASSUME NEW L, NEW o, NEW q, Snapshot(L, o, q), NEW index
    PROVE  /\ IntegrityState(L, index) # "CORRUPT" /\ Accepted(L) # {}
           /\ IntegrityState(L, index) = "COMPLETE" <=>
                /\ OrphanSpans(Accepted(L)) = {}
                /\ MissingExpectedTypes(Accepted(L)) = {}
                /\ MissingArtifacts(Accepted(L), index) = {}
<1>1. Numbered(L)
  BY DEF Snapshot, Truthful
<1>2. PICK k \in DOMAIN L : OfType(Accepted(L), "EPISODE_FINISHED") = {L[k]}
  BY TerminalIsDeclared
<1>3. ~(Cardinality(OfType(Accepted(L), "EPISODE_FINISHED")) > 1)
  <2>1. Cardinality({L[k]}) = 1
    BY FS_Singleton
  <2> QED
    BY <1>2, <2>1
<1>4. Accepted(L) # {} /\ L # <<>>
  BY <1>1, <1>2, AcceptedIsLog
<1>5. SequenceGaps(Accepted(L)) = {}
  BY <1>1, <1>4, NoGaps
<1>6. ~ConflictingEventId(L) /\ ~SequenceCollisions(Accepted(L))
  BY <1>1, NumberedIsSane
<1> QED
  BY <1>3, <1>4, <1>5, <1>6 DEF IntegrityState

(* The harness kept to the form of its events, as Sound has it.            *)
ToolsClean(L) ==
    \A i \in DOMAIN L :
        L[i].span = "tool" => /\ L[i].parent = None /\ L[i].refs = {}
                              /\ L[i].type = "TOOL_CALL" => Has(L, "TOOL_RESULT")

LEMMA OrphansAreTools ==
    ASSUME NEW L, NEW o, NEW q, Snapshot(L, o, q)
    PROVE  OrphanSpans(Accepted(L)) = {} <=> \A i \in DOMAIN L : L[i].parent = None
<1>1. Numbered(L) /\ \A i \in DOMAIN L : Shaped(L[i], o.refs)
  BY DEF Snapshot, Truthful
<1>2. \A i \in DOMAIN L : L[i].parent \in {None, "nowhere"} /\ L[i].span # "nowhere"
  <2> TAKE i \in DOMAIN L
  <2>1. Shaped(L[i], o.refs)
    BY <1>1
  <2>2. \A c \in Calls : CallSpan(c) # "nowhere"
    BY LocalAssumption
  <2> QED
    BY <2>1, <2>2 DEF Shaped
<1>3. \A e \in Accepted(L) : e.parent \in {None, "nowhere"} /\ e.span # "nowhere"
  BY <1>1, <1>2, AcceptedIsLog
<1>4. "nowhere" \notin Spans(Accepted(L))
  BY <1>3 DEF Spans
<1>5. OrphanSpans(Accepted(L)) = {} <=> \A e \in Accepted(L) : e.parent = None
  BY <1>3, <1>4 DEF OrphanSpans, Spans
<1> QED
  BY <1>1, <1>5, AcceptedIsLog

LEMMA MissingAreUnknown ==
    ASSUME NEW L, NEW o, NEW q, Snapshot(L, o, q), <<"unknown", "x">> \notin o.refs
    PROVE  MissingArtifacts(Accepted(L), o.refs) = {} <=>
             \A i \in DOMAIN L : L[i].span = "tool" => L[i].refs = {}
<1>1. Numbered(L) /\ \A i \in DOMAIN L : Shaped(L[i], o.refs)
  BY DEF Snapshot, Truthful
<1>2. PICK u : u = <<"unknown", "x">>
  OBVIOUS
<1>3. \A i \in DOMAIN L : L[i].refs \subseteq o.refs <=> (L[i].span = "tool" => L[i].refs = {})
  <2> TAKE i \in DOMAIN L
  <2>1. Shaped(L[i], o.refs)
    BY <1>1
  <2>2. CASE /\ L[i].type \in {"TOOL_CALL", "TOOL_RESULT"} /\ L[i].span = "tool"
             /\ L[i].refs \subseteq {u}
    BY <1>2, <2>2
  <2>3. CASE L[i].refs = {}
    BY <2>3
  <2>4. CASE L[i].refs \subseteq o.refs /\ L[i].span \in {"sandbox", "verifier"}
    BY <2>4
  <2> QED
    BY <1>2, <2>1, <2>2, <2>3, <2>4 DEF Shaped
<1>4. MissingArtifacts(Accepted(L), o.refs) = {} <=> \A e \in Accepted(L) : e.refs \subseteq o.refs
  BY DEF MissingArtifacts, RequestedArtifacts
<1>5. MissingArtifacts(Accepted(L), o.refs) = {} <=> \A i \in DOMAIN L : L[i].refs \subseteq o.refs
  BY <1>1, <1>4, AcceptedIsLog
<1> QED
  BY <1>3, <1>5

LEMMA ClosedSpans ==
    ASSUME NEW L, NEW o, NEW q \in BOOLEAN, Snapshot(L, o, q), o.role \in Roles
    PROVE  /\ Unclosed(L, "MODEL_REQUEST", "MODEL_RESPONSE") = {} <=> q
           /\ Unclosed(L, "TOOL_CALL", "TOOL_RESULT") = {} <=>
                (Has(L, "TOOL_CALL") => Has(L, "TOOL_RESULT"))
           /\ Unclosed(L, "SANDBOX_STARTED", "SANDBOX_FINISHED") = {}
           /\ Unclosed(L, "VERIFICATION_STARTED", "VERIFICATION_FINISHED") = {}
<1>1. /\ Numbered(L) /\ Truthful(L, o) /\ Whole(L, o)
      /\ q <=> \A c \in Calls : Recorded(L, "MODEL_REQUEST", c) => Recorded(L, "MODEL_RESPONSE", c)
  BY DEF Snapshot, Truthful
<1>2. \A i \in DOMAIN L :
        /\ L[i].type \in {"MODEL_REQUEST", "MODEL_RESPONSE"} => \E c \in Calls : L[i].span = CallSpan(c)
        /\ L[i].type \in {"TOOL_CALL", "TOOL_RESULT"} => L[i].span = "tool"
        /\ L[i].type \in {"SANDBOX_STARTED", "SANDBOX_FINISHED"} => L[i].span = "sandbox"
        /\ L[i].type \in {"VERIFICATION_STARTED", "VERIFICATION_FINISHED"} => L[i].span = "verifier"
  <2> TAKE i \in DOMAIN L
  <2>1. Shaped(L[i], o.refs)
    BY <1>1 DEF Truthful
  <2> QED
    BY <2>1 DEF Shaped
<1>3. ASSUME NEW a, NEW b
      PROVE  Unclosed(L, a, b) = {} <=>
               \A i \in DOMAIN L : L[i].type = a =>
                  \E j \in DOMAIN L : L[j].type = b /\ L[j].span = L[i].span
  <2>1. Unclosed(L, a, b) = {} <=>
          \A s : s \in Spans(OfType(Accepted(L), a)) => s \in Spans(OfType(Accepted(L), b))
    BY DEF Unclosed
  <2>2. \A s : /\ s \in Spans(OfType(Accepted(L), a)) <=>
                    \E i \in DOMAIN L : L[i].type = a /\ L[i].span = s
               /\ s \in Spans(OfType(Accepted(L), b)) <=>
                    \E i \in DOMAIN L : L[i].type = b /\ L[i].span = s
    BY <1>1, SpansOfType
  <2> QED
    BY <2>1, <2>2
<1>4. Unclosed(L, "MODEL_REQUEST", "MODEL_RESPONSE") = {} <=> q
  BY <1>1, <1>2, <1>3 DEF Recorded
<1>5. Unclosed(L, "TOOL_CALL", "TOOL_RESULT") = {} <=>
                (Has(L, "TOOL_CALL") => Has(L, "TOOL_RESULT"))
  BY <1>2, <1>3 DEF Has
<1>6. Unclosed(L, "SANDBOX_STARTED", "SANDBOX_FINISHED") = {}
  BY <1>1, <1>2, <1>3 DEF Has, Whole
<1>7. Has(L, "VERIFICATION_STARTED") => Has(L, "VERIFICATION_FINISHED")
  BY <1>1 DEF Truthful, Whole
<1>8. Unclosed(L, "VERIFICATION_STARTED", "VERIFICATION_FINISHED") = {}
  BY <1>2, <1>3, <1>7 DEF Has
<1> QED
  BY <1>4, <1>5, <1>6, <1>8

(* An episode is complete exactly when its calls and its harness were.     *)
LEMMA CompleteIsClean ==
    ASSUME NEW L, NEW o, NEW q \in BOOLEAN, Snapshot(L, o, q), o.role \in Roles,
           <<"unknown", "x">> \notin o.refs
    PROVE  IntegrityState(L, o.refs) = "COMPLETE" <=> q /\ ToolsClean(L)
<1>1. OfType(Accepted(L), "EPISODE_FINISHED") # {}
  BY TerminalIsDeclared
<1>2. MissingExpectedTypes(Accepted(L)) = {} <=> q /\ (Has(L, "TOOL_CALL") => Has(L, "TOOL_RESULT"))
  BY <1>1, MissingTypes, ClosedSpans
<1>3. OrphanSpans(Accepted(L)) = {} <=> \A i \in DOMAIN L : L[i].parent = None
  BY OrphansAreTools
<1>4. MissingArtifacts(Accepted(L), o.refs) = {} <=>
             \A i \in DOMAIN L : L[i].span = "tool" => L[i].refs = {}
  BY MissingAreUnknown
<1>5. IntegrityState(L, o.refs) = "COMPLETE" <=>
        /\ \A i \in DOMAIN L : L[i].parent = None
        /\ q /\ (Has(L, "TOOL_CALL") => Has(L, "TOOL_RESULT"))
        /\ \A i \in DOMAIN L : L[i].span = "tool" => L[i].refs = {}
  BY <1>2, <1>3, <1>4, NotCorrupt
<1>6. \A i \in DOMAIN L : /\ L[i].type = "TOOL_CALL" => L[i].span = "tool"
                          /\ L[i].parent # None => L[i].span = "tool"
  <2> TAKE i \in DOMAIN L
  <2>1. Shaped(L[i], o.refs)
    BY DEF Snapshot, Truthful
  <2> QED
    BY <2>1 DEF Shaped
<1>7. (Has(L, "TOOL_CALL") => Has(L, "TOOL_RESULT")) <=>
        \A i \in DOMAIN L : L[i].span = "tool" => (L[i].type = "TOOL_CALL" => Has(L, "TOOL_RESULT"))
  BY <1>6 DEF Has
<1>8. (\A i \in DOMAIN L : L[i].parent = None) <=>
        \A i \in DOMAIN L : L[i].span = "tool" => L[i].parent = None
  BY <1>6
<1> QED
  BY <1>5, <1>7, <1>8 DEF ToolsClean

LEMMA OutcomeIs ==
    ASSUME NEW L, NEW o, NEW q, Snapshot(L, o, q), NEW d, d = DeriveTerminal(Accepted(L))
    PROVE  /\ d.task = TerminalOutcome(o.harness, VerdictOf(o)).task
           /\ d.validity = TerminalOutcome(o.harness, VerdictOf(o)).validity
           /\ d.verifier = VerdictOf(o)
           /\ d.score = IF o.verifier = None THEN None ELSE VerifierOutcome(o.verifier).score
           /\ o.verdict # {} => d.evidence = o.verdict
<1>1. PICK k \in DOMAIN L : /\ OfType(Accepted(L), "EPISODE_FINISHED") = {L[k]}
                            /\ L[k].terminal = Declared(o)
  BY TerminalIsDeclared
<1>2. PICK t : t = L[k]
  OBVIOUS
<1>3. OfType(Accepted(L), "EPISODE_FINISHED") = {t} /\ Latest({t}) = t
  BY <1>1, <1>2, LatestOfOne
<1>4. d = [task |-> t.terminal.task, validity |-> t.terminal.validity,
           verifier |-> t.terminal.verifier, score |-> t.terminal.score,
           evidence |-> IF t.terminal.evidence = {} THEN {t.id} ELSE t.terminal.evidence,
           observable |-> TRUE]
  BY <1>3 DEF DeriveTerminal
<1>5. /\ d.task = t.terminal.task /\ d.validity = t.terminal.validity
      /\ d.verifier = t.terminal.verifier /\ d.score = t.terminal.score
      /\ t.terminal.evidence # {} => d.evidence = t.terminal.evidence
  BY <1>4
<1>6. t.terminal = Declared(o)
  BY <1>1, <1>2
<1>7. /\ Declared(o).task = TerminalOutcome(o.harness, VerdictOf(o)).task
      /\ Declared(o).validity = TerminalOutcome(o.harness, VerdictOf(o)).validity
      /\ Declared(o).verifier = VerdictOf(o)
      /\ Declared(o).score = IF o.verifier = None THEN None ELSE VerifierOutcome(o.verifier).score
      /\ Declared(o).evidence = o.verdict
  BY DEF Declared
<1> QED
  BY <1>5, <1>6, <1>7

(* The verdict a verifier's status stands for.                             *)
AttestedBy(status) ==
    CASE status = "COMPLETED" -> "PASSED"
      [] status = "FAILED" -> "FAILED"
      [] status = "TIMEOUT" -> "TIMEOUT"
      [] OTHER -> "ERROR"

LEMMA VerifierAttests ==
    ASSUME NEW L, NEW o, NEW q, Snapshot(L, o, q), NEW ep, ep.events = Accepted(L),
           o.role = "verifier", o.verifier \in Statuses
    PROVE  /\ LatestAttestation(ep) = AttestedBy(o.verifier)
           /\ \E k \in DOMAIN L : o.verdict = {k} /\ VerifierEvents(ep) = {L[k]} /\ L[k].id = k
<1>1. Truthful(L, o) /\ Whole(L, o) /\ Numbered(L)
  BY DEF Snapshot, Truthful
<1>2. PICK k \in DOMAIN L : L[k].type = "VERIFICATION_FINISHED"
  BY <1>1 DEF Whole, Has
<1>3. /\ o.verdict = {k}
      /\ L[k].status = VerifierOutcome(o.verifier).status
      /\ L[k].passed = VerifierOutcome(o.verifier).passed
  BY <1>1, <1>2 DEF Truthful
<1>4. \A i \in DOMAIN L : L[i].type = "VERIFICATION_FINISHED" => i = k
  BY <1>1, <1>3 DEF Truthful
<1>5. VerifierEvents(ep) = {L[k]}
  BY <1>1, <1>2, <1>4, SingleEvent DEF VerifierEvents
<1>6. Attestation(L[k]) = AttestedBy(o.verifier)
  BY <1>3 DEF Attestation, AttestedBy, VerifierOutcome, Statuses
<1>7. AttestedBy(o.verifier) # None
  BY LocalAssumption DEF AttestedBy
<1>8. PICK v : v = L[k]
  OBVIOUS
<1>9. LatestAttestation(ep) = AttestedBy(o.verifier)
  <2>1. VerifierEvents(ep) = {v} /\ Attestation(v) = AttestedBy(o.verifier) /\ Attestation(v) # None
    BY <1>5, <1>6, <1>7, <1>8
  <2>2. {e \in VerifierEvents(ep) : Attestation(e) # None} = {v}
    BY <2>1
  <2> QED
    BY <2>1, <2>2, LatestOfOne DEF LatestAttestation
<1>10. L[k].id = k
  BY <1>1 DEF Numbered
<1> QED
  BY <1>3, <1>5, <1>9, <1>10

LEMMA NobodyAttests ==
    ASSUME NEW L, NEW o, NEW q, Snapshot(L, o, q), NEW ep, ep.events = Accepted(L),
           o.role = "harness"
    PROVE  LatestAttestation(ep) = None
<1>1. Truthful(L, o) /\ Whole(L, o) /\ Numbered(L)
  BY DEF Snapshot, Truthful
<1>2. \A i \in DOMAIN L : L[i].type # "VERIFICATION_FINISHED"
  BY <1>1 DEF Truthful, Whole
<1>3. VerifierEvents(ep) = {}
  BY <1>1, <1>2, AcceptedIsLog DEF VerifierEvents, OfType
<1> QED
  BY <1>3 DEF LatestAttestation

(* What certification makes of a run that its verifier judged.             *)
LEMMA JudgedRun ==
    ASSUME NEW L, NEW o, NEW q \in BOOLEAN, Snapshot(L, o, q), o.role = "verifier",
           o.verifier \in Statuses, o.harness \in Statuses, o.harness \notin Unverifiable,
           <<"unknown", "x">> \notin o.refs, NEW ep, ep = Assemble(L, o.refs)
    PROVE  /\ CertifyEpisode(ep) = "CERTIFIED" <=> q /\ ToolsClean(L)
           /\ VerifierAttested(ep) <=> o.verifier \in {"COMPLETED", "FAILED"}
           /\ ep.outcome.validity = "VALID" <=> o.verifier \in {"COMPLETED", "FAILED"}
           /\ ep.outcome.task = "SUCCESS" => o.verifier = "COMPLETED"
<1>1. /\ ep.events = Accepted(L) /\ ep.integrity = IntegrityState(L, o.refs)
      /\ ep.outcome = DeriveTerminal(Accepted(L))
  BY AssembledIs
<1>2. PICK d : d = ep.outcome
  OBVIOUS
<1>3. /\ d.task = TerminalOutcome(o.harness, VerdictOf(o)).task
      /\ d.validity = TerminalOutcome(o.harness, VerdictOf(o)).validity
      /\ d.score = IF o.verifier = None THEN None ELSE VerifierOutcome(o.verifier).score
      /\ o.verdict # {} => d.evidence = o.verdict
  BY <1>1, <1>2, OutcomeIs
<1>4. /\ LatestAttestation(ep) = AttestedBy(o.verifier)
      /\ \E k \in DOMAIN L : o.verdict = {k} /\ VerifierEvents(ep) = {L[k]} /\ L[k].id = k
  BY <1>1, VerifierAttests
<1>5. o.verifier # None
  BY LocalAssumption DEF Statuses
<1>6. VerdictOf(o) = AttestedBy(o.verifier)
  BY <1>5 DEF VerdictOf, VerifierOutcome, AttestedBy
<1>7. /\ o.verifier = "COMPLETED" => d.task = "SUCCESS" /\ d.validity = "VALID"
      /\ o.verifier = "FAILED" => d.task = "FAILURE" /\ d.validity = "VALID"
      /\ o.verifier \notin {"COMPLETED", "FAILED"} =>
           d.task = "UNKNOWN" /\ d.validity = "INFRA_INVALID" /\ d.score = None
  <2>1. /\ o.verifier = "COMPLETED" => VerdictOf(o) = "PASSED"
        /\ o.verifier = "FAILED" => VerdictOf(o) = "FAILED"
        /\ o.verifier \notin {"COMPLETED", "FAILED"} => VerdictOf(o) \notin {"PASSED", "FAILED"}
    BY <1>6 DEF AttestedBy
  <2>2. o.verifier \notin {"COMPLETED", "FAILED"} => VerifierOutcome(o.verifier).score = None
    BY DEF VerifierOutcome
  <2> QED
    BY <1>3, <1>5, <2>1, <2>2 DEF TerminalOutcome
<1>8. ~OutcomeContradicted(ep)
  BY <1>2, <1>4, <1>7 DEF OutcomeContradicted, AttestedBy
<1>9. ~EvidenceMiscited(ep)
  <2>1. PICK k \in DOMAIN L : o.verdict = {k} /\ VerifierEvents(ep) = {L[k]} /\ L[k].id = k
    BY <1>4
  <2>2. d.evidence = {k}
    BY <1>3, <2>1
  <2>3. k \in {e.id : e \in VerifierEvents(ep)}
    BY <2>1
  <2> QED
    BY <1>2, <2>2, <2>3 DEF EvidenceMiscited
<1>10. ~SuccessUnattested(ep)
  <2>1. AttestedBy(o.verifier) # None
    BY LocalAssumption DEF AttestedBy
  <2> QED
    BY <1>4, <2>1 DEF SuccessUnattested
<1>11. /\ ep.integrity \in {"PARTIAL", "COMPLETE"}
       /\ ep.integrity = "COMPLETE" <=> q /\ ToolsClean(L)
  <2>1. IntegrityState(L, o.refs) \in {"CORRUPT", "PARTIAL", "COMPLETE"}
    BY DEF IntegrityState
  <2>2. IntegrityState(L, o.refs) # "CORRUPT"
    BY NotCorrupt
  <2>3. IntegrityState(L, o.refs) = "COMPLETE" <=> q /\ ToolsClean(L)
    BY CompleteIsClean DEF Roles
  <2> QED
    BY <1>1, <2>1, <2>2, <2>3
<1>12. CertifyEpisode(ep) = "CERTIFIED" <=> q /\ ToolsClean(L)
  BY <1>8, <1>9, <1>10, <1>11 DEF CertifyEpisode
<1>13. VerifierAttested(ep) <=> o.verifier \in {"COMPLETED", "FAILED"}
  BY <1>4 DEF VerifierAttested, AttestedBy
<1> QED
  BY <1>2, <1>7, <1>12, <1>13

(* A run whose harness was not verified convinces nobody.                  *)
LEMMA UnjudgedRun ==
    ASSUME NEW L, NEW o, NEW q, Snapshot(L, o, q), o.role = "harness",
           o.harness \in Unverifiable, o.verifier = None, NEW ep, ep = Assemble(L, o.refs)
    PROVE  ~VerifierAttested(ep) /\ ep.outcome.validity # "VALID"
<1>1. /\ ep.events = Accepted(L) /\ ep.outcome = DeriveTerminal(Accepted(L))
  BY AssembledIs
<1>2. ep.outcome.validity = TerminalOutcome(o.harness, VerdictOf(o)).validity
  BY <1>1, OutcomeIs
<1>3. ep.outcome.validity = "INFRA_INVALID"
  BY <1>2 DEF TerminalOutcome, VerdictOf
<1>4. LatestAttestation(ep) = None
  BY <1>1, NobodyAttests
<1>5. None \notin {"PASSED", "FAILED"}
  BY LocalAssumption
<1> QED
  BY <1>3, <1>4, <1>5 DEF VerifierAttested

-----------------------------------------------------------------------------
(* The theorems.                                                           *)

LEMMA EventsAreLog ==
    ASSUME Snapshot(orch.events, orch, quiet)
    PROVE  Sound <=> /\ exits.harness \in {"zero", "other"}
                     /\ exits.verifier \in {"zero", "other"}
                     /\ quiet /\ ToolsClean(orch.events)
<1>1. \A e : e \in Range(orch.events) <=> \E i \in DOMAIN orch.events : e = orch.events[i]
  BY DEF Range
<1>2. Has(orch.events, "TOOL_RESULT") <=> \E f \in Range(orch.events) : f.type = "TOOL_RESULT"
  BY <1>1 DEF Has
<1>3. ToolsClean(orch.events) <=>
        \A e \in Range(orch.events) :
         e.span = "tool" => /\ e.parent = None /\ e.refs = {}
                            /\ e.type = "TOOL_CALL" =>
                                 \E f \in Range(orch.events) : f.type = "TOOL_RESULT"
  BY <1>1, <1>2 DEF ToolsClean
<1> QED
  BY <1>3 DEF Sound

LEMMA LocalInvVerdict == LocalInv => VerdictEarned
<1> SUFFICES ASSUME LocalInv, final # None
             PROVE  /\ EvaluationVerdict(final.episode) = "ELIGIBLE" <=> Sound
                    /\ PreferenceEligible(final.episode) => Sound
                    /\ SftEligible(final.episode) => Sound /\ exits.verifier = "zero"
  BY DEF VerdictEarned
<1>1. PICK ep : ep = final.episode
  OBVIOUS
<1>2. /\ Snapshot(orch.events, orch, quiet) /\ ep = Assemble(orch.events, orch.refs)
      /\ orch.role = "verifier" => orch.verifier \in Statuses
      /\ orch.role = "harness" => orch.harness \in Unverifiable
  BY <1>1 DEF LocalInv, Reading
<1>3. quiet \in BOOLEAN /\ orch.role \in Roles
  BY DEF LocalInv, TInv, TypeOK
<1>4. <<"unknown", "x">> \notin orch.refs
  BY DEF LocalInv, Statused
<1>5. /\ orch.harness = "COMPLETED" <=> exits.harness = "zero"
      /\ orch.harness = "FAILED" <=> exits.harness = "other"
      /\ orch.verifier = "COMPLETED" <=> exits.verifier = "zero"
      /\ orch.verifier = "FAILED" <=> exits.verifier = "other"
  BY DEF LocalInv, Statused, Roles
<1>6. Sound <=> /\ exits.harness \in {"zero", "other"}
                /\ exits.verifier \in {"zero", "other"}
                /\ quiet /\ ToolsClean(orch.events)
  BY <1>2, EventsAreLog
<1>7. CASE orch.role = "verifier"
  <2>1. orch.harness \in Statuses /\ orch.harness \notin Unverifiable
    BY <1>7 DEF LocalInv, Statused
  <2>2. exits.harness \in {"zero", "other"}
    BY <1>5, <2>1 DEF Statuses, Unverifiable
  <2>3. /\ CertifyEpisode(ep) = "CERTIFIED" <=> quiet /\ ToolsClean(orch.events)
        /\ VerifierAttested(ep) <=> orch.verifier \in {"COMPLETED", "FAILED"}
        /\ ep.outcome.validity = "VALID" <=> orch.verifier \in {"COMPLETED", "FAILED"}
        /\ ep.outcome.task = "SUCCESS" => orch.verifier = "COMPLETED"
    BY <1>2, <1>3, <1>4, <1>7, <2>1, JudgedRun
  <2>4. Sound <=> /\ CertifyEpisode(ep) = "CERTIFIED" /\ VerifierAttested(ep)
                  /\ ep.outcome.validity = "VALID"
    BY <1>5, <1>6, <2>2, <2>3
  <2>5. EvaluationVerdict(ep) = "ELIGIBLE" <=> Sound
    BY <2>4 DEF EvaluationVerdict
  <2>6. PreferenceEligible(ep) => Sound
    BY <2>4 DEF PreferenceEligible
  <2>7. SftEligible(ep) => Sound /\ exits.verifier = "zero"
    BY <1>5, <2>3, <2>4 DEF SftEligible
  <2> QED
    BY <1>1, <2>5, <2>6, <2>7
<1>8. CASE orch.role = "harness"
  <2>1. ~VerifierAttested(ep) /\ ep.outcome.validity # "VALID"
    <3>1. orch.verifier = None
      BY <1>8 DEF LocalInv, Statused
    <3> QED
      BY <1>2, <1>8, <3>1, UnjudgedRun
  <2>2. ~Sound
    BY <1>2, <1>5, <1>6, <1>8 DEF Unverifiable
  <2> QED
    BY <1>1, <2>1, <2>2 DEF EvaluationVerdict, PreferenceEligible, SftEligible
<1> QED
  BY <1>3, <1>7, <1>8 DEF Roles

LEMMA LocalInvCapture == LocalInv => CaptureSound
<1> SUFFICES ASSUME LocalInv, final # None
             PROVE  /\ Answered(final.episode.events) \subseteq final.sources
                    /\ HarnessAnalysisVerdict(final.episode) = "ELIGIBLE"
  BY DEF CaptureSound, EvidenceBacksResponses, NeverCorrupt
<1>1. /\ Snapshot(orch.events, orch, quiet) /\ Backed(orch.events, orch.evidence)
      /\ final.episode = Assemble(orch.events, orch.refs)
      /\ final.sources = {x.call : x \in Range(orch.evidence)}
  BY DEF LocalInv, Reading
<1>2. Numbered(orch.events)
  BY <1>1 DEF Snapshot, Truthful
<1>3. /\ final.episode.events = Accepted(orch.events)
      /\ final.episode.integrity = IntegrityState(orch.events, orch.refs)
  BY <1>1, AssembledIs
<1>4. ASSUME NEW c \in Answered(final.episode.events)
      PROVE  c \in final.sources
  <2>1. c \in Calls /\ CallSpan(c) \in Spans(OfType(Accepted(orch.events), "MODEL_RESPONSE"))
    BY <1>3, <1>4 DEF Answered
  <2>2. Recorded(orch.events, "MODEL_RESPONSE", c)
    BY <1>2, <2>1, SpansOfType DEF Recorded
  <2>3. EvidenceFor(orch.evidence, c)
    BY <1>1, <2>1, <2>2 DEF Backed
  <2> QED
    BY <1>1, <2>3 DEF EvidenceFor, Range
<1>5. HarnessAnalysisVerdict(final.episode) = "ELIGIBLE"
  BY <1>1, <1>3, NotCorrupt DEF HarnessAnalysisVerdict
<1> QED
  BY <1>4, <1>5

(* Two logs that threads still write while run() reads them give a whole   *)
(* episode: every response it holds has its evidence in the bundle, and no *)
(* interleaving makes the assembler call it corrupt.                       *)
THEOREM CaptureIsSound == Spec => []CaptureSound
BY LocalInvHolds, LocalInvCapture, PTL

(* The chain from exit codes to a consumer's decision neither invents nor  *)
(* loses a verdict: an episode is ELIGIBLE for evaluation exactly when     *)
(* both containers ended by themselves, every call on record had its       *)
(* answer and the harness's own events were well formed; and it is fit for *)
(* SFT only when the verifier exited with 0.                               *)
THEOREM VerdictIsEarned == Spec => []VerdictEarned
BY LocalInvHolds, LocalInvVerdict, PTL
=============================================================================
