----------------------- MODULE PiHostExecution_proofs -----------------------
(***************************************************************************)
(* The Pi execution and the gate of the training loop, for any number of   *)
(* model requests, any call budget, any executions asked for and any way   *)
(* in which Pi may end: no verdict is invented, and what the gate lets     *)
(* through is the whole conversation although its evidence is read five    *)
(* times while late threads write.                                         *)
(*                                                                         *)
(* To the proxy's invariant (ModelProxy_proofs) is added what relates the  *)
(* readers: the locals of run() agree with how the processes really ended, *)
(* a log holds at most one terminal event, which declares those locals,    *)
(* the rows first read are a prefix of the evidence, and the evidence is   *)
(* in the order of the conversation: a turn a prompt repeats was recorded  *)
(* before the call that repeats it.                                        *)
(***************************************************************************)
EXTENDS PiHostExecution, ModelProxy_proofs, WellFoundedInduction

Fields == {"pc", "code", "records", "rows", "usable", "harness", "replay", "verifier",
           "verdict", "refs", "policy", "events", "admitted", "gate"}

Locals(h) == DOMAIN h = Fields /\ h = [x \in Fields |-> h[x]]

(* How Pi and the verifier ended, as the locals have it.                   *)
Honest(h, x) ==
    /\ DOMAIN x = {"pi", "verifier"}
    /\ h.pc \in {"start", "serve", "spawn", "in"} => h.harness # "COMPLETED"
    /\ h.pc \in {"close", "rows", "adapt"} => h.code = x.pi
    /\ h.harness = "COMPLETED" => x.pi = "zero"
    /\ h.verifier = "PASSED" => x.verifier = TRUE
    /\ h.verifier = "FAILED" => x.verifier = FALSE

(* The verdict, the score and the terminal declaration, by the locals.     *)
VerdictIn(h) == IF h.verifier = None THEN "ERROR" ELSE h.verifier

ScoreIn(h) == VerdictEvent(VerdictIn(h)).score

ValidIn(h) == h.harness = "COMPLETED" /\ VerdictIn(h) \in {"PASSED", "FAILED"}

Declared(h) ==
    [task |-> CASE VerdictIn(h) = "PASSED" -> "SUCCESS"
                [] VerdictIn(h) = "FAILED" -> "FAILURE"
                [] OTHER -> "UNKNOWN",
     validity |-> IF ValidIn(h) THEN "VALID" ELSE "INFRA_INVALID",
     verifier |-> VerdictIn(h), score |-> ScoreIn(h), evidence |-> h.verdict]

(* At most one terminal event, which declares the locals.                  *)
OneEnd(L, h) ==
    /\ \A i, j \in DOMAIN L :
          L[i].type = "EPISODE_FINISHED" /\ L[j].type = "EPISODE_FINISHED" => i = j
    /\ \A i \in DOMAIN L : L[i].type = "EPISODE_FINISHED" => L[i].terminal = Declared(h)

Unfinished == {"start", "serve", "spawn", "in", "close", "rows", "adapt", "replay", "verifying",
               "finish"}

Ended ==
    /\ OneEnd(log, host)
    /\ host.pc \in Unfinished => ~Has(log, "EPISODE_FINISHED")

(* A row of the evidence is the answer its call was given.                 *)
RowsTrue(V, cs) ==
    \A j \in DOMAIN V : /\ cs[V[j].call].pc \in Settled
                        /\ cs[V[j].call].answer = V[j].answer

(* Turns of a conversation: answered calls, each once.                     *)
Turns(s, cs) ==
    /\ s \in Seq(Calls)
    /\ \A i, j \in DOMAIN s : s[i] = s[j] => i = j
    /\ \A i \in DOMAIN s : cs[s[i]].pc = "done"

(* What a prompt repeats is on record before the call itself.              *)
InOrder(V, ps) ==
    \A j \in DOMAIN V : \A k \in DOMAIN ps[V[j].call] :
        \E i \in 1..(j - 1) : V[i].call = ps[V[j].call][k]

Conversation ==
    /\ RowsTrue(evidence, call)
    /\ Turns(heard, call)
    /\ DOMAIN prompt = Calls
    /\ \A c \in Calls : Turns(prompt[c], call)
    /\ InOrder(evidence, prompt)

(* V is what W was when it was read.                                       *)
PrefixOf(V, W) ==
    /\ V \in Seq([call : Calls, answer : Answers])
    /\ Len(V) <= Len(W)
    /\ \A i \in 1..Len(V) : V[i] = W[i]

(* The policy artifact, where it has traces.                               *)
Traced(h) ==
    h.policy.traces # <<>> =>
      /\ h.policy.training = TrainingSequence(h.rows)
      /\ h.verifier \in {"PASSED", "FAILED"}
      /\ \A i \in DOMAIN h.policy.traces : h.policy.traces[i].reward = ScoreIn(h)

(* The log that was read: with the responses, whose evidence is V, and     *)
(* with the requests of the rows.                                          *)
Snapshot(L, h, V) ==
    /\ Numbered(L)
    /\ OneEnd(L, h)
    /\ Backed(L, V)
    /\ \A c \in Calls : EvidenceFor(h.rows, c) => Recorded(L, "MODEL_REQUEST", c)

Late == {"pinned", "read events", "finalize", "write", "assemble", "gate", "gated"}

Reading ==
    /\ PrefixOf(host.rows, evidence)
    /\ host.pc \in Late => Traced(host)
    /\ host.pc = "finalize" \/ final # None => Snapshot(host.events, host, evidence)
    /\ final # None =>
          /\ host.pc \in {"write", "assemble", "gate", "gated", "raised"}
          /\ final.episode = Assemble(host.events, host.refs)

(* A gated episode is final, and its turns are on record.                  *)
Gated ==
    host.gate = TRUE =>
      /\ host.pc = "gated"
      /\ \A i \in DOMAIN host.policy.training :
            host.policy.training[i] \in Calls /\ EvidenceFor(evidence, host.policy.training[i])

PiInv ==
    /\ ProxyInv
    /\ Locals(host)
    /\ files \subseteq JsonFiles
    /\ Honest(host, exits)
    /\ Ended
    /\ Conversation
    /\ Reading
    /\ Gated
    /\ TrainedIsWhole

-----------------------------------------------------------------------------
(* What each step of the host does to the locals.                          *)

(* Every other local keeps its value.                                      *)
OnlyIn(S) == Locals(host') /\ \A x \in Fields \ S : host'[x] = host[x]

LEMMA GoToIs ==
    ASSUME Locals(host), NEW p, GoTo(p)
    PROVE  OnlyIn({"pc"}) /\ host'.pc = p
BY DEF GoTo, Locals, Fields, OnlyIn

LEMMA PiEndsIs ==
    ASSUME Locals(host), NEW code, NEW lines, PiEnds(code, lines)
    PROVE  OnlyIn({"pc", "code", "records"}) /\ host'.pc = "close" /\ host'.code = code
<1>1. host' = [host EXCEPT !.pc = "close", !.code = code, !.records = lines]
  BY DEF PiEnds
<1> QED
  BY <1>1 DEF Locals, Fields, OnlyIn

LEMMA ReadRowsIs ==
    ASSUME Locals(host), ReadRows
    PROVE  OnlyIn({"pc", "rows", "usable"}) /\ host'.pc = "adapt" /\ host'.rows = evidence
<1>1. PICK u : u = AllModelCallsUsable(evidence)
  OBVIOUS
<1>2. host' = [host EXCEPT !.pc = "adapt", !.rows = evidence, !.usable = u]
  BY <1>1 DEF ReadRows
<1> QED
  BY <1>2 DEF Locals, Fields, OnlyIn

LEMMA EndSandboxIs ==
    ASSUME Locals(host), EndSandbox
    PROVE  /\ OnlyIn({"pc", "harness", "replay", "refs"}) /\ host'.pc = "replay"
           /\ host'.harness = "COMPLETED" => host.code = "zero"
<1>1. PICK a : a = Adaptations[host.records]
  OBVIOUS
<1>2. PICK s : s = HarnessStatus(a)
  OBVIOUS
<1>3. PICK r : r = {<<"pi-ndjson", host.records>>, <<"pi-stderr", "text">>,
                    <<"model-evidence", evidence>>, <<"workspace-diff", "diff">>}
  OBVIOUS
<1>4. PICK es : es = a.events
  OBVIOUS
<1>5. host' = [host EXCEPT !.pc = "replay", !.harness = s, !.replay = es, !.refs = r]
  BY <1>1, <1>2, <1>3, <1>4 DEF EndSandbox
<1>6. s = "COMPLETED" => host.code = "zero"
  BY <1>2 DEF HarnessStatus
<1> QED
  BY <1>5, <1>6 DEF Locals, Fields, OnlyIn

LEMMA ReplayEventIs ==
    ASSUME Locals(host), ReplayEvent
    PROVE  OnlyIn({"replay"})
<1>1. PICK t : t = Tail(host.replay)
  OBVIOUS
<1>2. host' = [host EXCEPT !.replay = t]
  BY <1>1 DEF ReplayEvent
<1> QED
  BY <1>2 DEF Locals, Fields, OnlyIn

LEMMA RecordVerdictIs ==
    ASSUME Locals(host), DOMAIN exits = {"pi", "verifier"}, RecordVerdict
    PROVE  /\ OnlyIn({"pc", "verifier", "verdict", "refs"}) /\ host'.pc = "finish"
           /\ DOMAIN exits' = {"pi", "verifier"} /\ exits'.pi = exits.pi
           /\ host'.verifier = "PASSED" => exits'.verifier = TRUE
           /\ host'.verifier = "FAILED" => exits'.verifier = FALSE
<1>1. PICK resolved \in {TRUE, FALSE, None}, zero \in BOOLEAN :
         /\ exits' = [exits EXCEPT !.verifier = resolved]
         /\ host' = [host EXCEPT !.pc = "finish", !.verifier = VerdictOf(resolved, zero),
                       !.verdict = {Len(log) + 1},
                       !.refs = @ \cup {<<"verifier-output", resolved>>,
                                        <<"verifier-report", VerdictOf(resolved, zero)>>}]
  BY DEF RecordVerdict
<1>2. PICK v : v = VerdictOf(resolved, zero)
  OBVIOUS
<1>3. PICK d : d = {Len(log) + 1}
  OBVIOUS
<1>4. PICK r : r = host.refs \cup {<<"verifier-output", resolved>>, <<"verifier-report", v>>}
  OBVIOUS
<1>5. host' = [host EXCEPT !.pc = "finish", !.verifier = v, !.verdict = d, !.refs = r]
  BY <1>1, <1>2, <1>3, <1>4
<1>6. (v = "PASSED" => resolved = TRUE) /\ (v = "FAILED" => resolved = FALSE)
  BY <1>2 DEF VerdictOf
<1>7. DOMAIN exits' = {"pi", "verifier"} /\ exits'.pi = exits.pi /\ exits'.verifier = resolved
  BY <1>1
<1>8. /\ OnlyIn({"pc", "verifier", "verdict", "refs"}) /\ host'.pc = "finish" /\ host'.verifier = v
  BY <1>5 DEF Locals, Fields, OnlyIn
<1> QED
  BY <1>6, <1>7, <1>8

LEMMA WriteArtifactsIs ==
    ASSUME Locals(host), WriteArtifacts
    PROVE  /\ OnlyIn({"pc", "policy"}) /\ host'.pc = "pinned"
           /\ host'.policy = PolicyArtifact(host.rows)
<1>1. PICK p : p = PolicyArtifact(host.rows)
  OBVIOUS
<1>2. host' = [host EXCEPT !.pc = "pinned", !.policy = p]
  BY <1>1 DEF WriteArtifacts
<1>3. OnlyIn({"pc", "policy"}) /\ host'.pc = "pinned" /\ host'.policy = p
  BY <1>2 DEF Locals, Fields, OnlyIn
<1> QED
  BY <1>1, <1>3

LEMMA ReadEventsIs ==
    ASSUME Locals(host), ReadEvents
    PROVE  OnlyIn({"pc", "events"}) /\ host'.pc = "finalize" /\ host'.events = log
<1>1. host' = [host EXCEPT !.pc = "finalize", !.events = log]
  BY DEF ReadEvents
<1> QED
  BY <1>1 DEF Locals, Fields, OnlyIn

LEMMA AssembleSequenceIs ==
    ASSUME Locals(host), AssembleSequence
    PROVE  OnlyIn({"pc", "admitted"}) /\ host'.pc \in {"gate", "raised"}
<1>1. PICK s : s = TrainingSequence(evidence)
  OBVIOUS
<1>2. \/ host' = [host EXCEPT !.pc = "gate", !.admitted = s]
      \/ host' = [host EXCEPT !.pc = "raised"]
  BY <1>1 DEF AssembleSequence, GoTo
<1> QED
  BY <1>2 DEF Locals, Fields, OnlyIn

LEMMA GateIs ==
    ASSUME Locals(host), Gate
    PROVE  /\ OnlyIn({"pc", "gate"}) /\ host'.pc = "gated"
           /\ host'.gate = TRUE => GateAccepts
<1>1. PICK g : g = GateAccepts
  OBVIOUS
<1>2. host' = [host EXCEPT !.pc = "gated", !.gate = g]
  BY <1>1 DEF Gate
<1>3. OnlyIn({"pc", "gate"}) /\ host'.pc = "gated" /\ host'.gate = g
  BY <1>2 DEF Locals, Fields, OnlyIn
<1> QED
  BY <1>1, <1>3

-----------------------------------------------------------------------------
(* The events of the host, and the proxy's invariant.                      *)

(* A step of the host that records a fact, which is no call's.             *)
HostFact(fact) ==
    /\ DOMAIN fact = FactFields
    /\ \/ fact.type \notin {"MODEL_REQUEST", "MODEL_RESPONSE"}
       \/ \A c \in Calls : fact.span # CallSpan(c)
    /\ Emit(fact)
    /\ UNCHANGED <<evidence, call, callCount, observed, recordLock, closeouts>>

(* ... and does not end the episode.                                       *)
Records == \E fact : HostFact(fact) /\ fact.type # "EPISODE_FINISHED"

LEMMA SetupFact ==
    ASSUME Setup
    PROVE  Records
BY FactIs DEF Setup, HostFact, Records

LEMMA StartVerifierFact ==
    ASSUME StartVerifier
    PROVE  Records
BY FactIs DEF StartVerifier, HostFact, Records

LEMMA EndSandboxFact ==
    ASSUME EndSandbox
    PROVE  Records
<1>1. PICK r, u : LET f == Fact("SANDBOX_FINISHED", "sandbox", u) IN
        /\ Emit([f EXCEPT !.refs = r])
        /\ UNCHANGED <<evidence, call, callCount, observed, recordLock, closeouts>>
  BY Zenon DEF EndSandbox
<1>2. PICK f : f = Fact("SANDBOX_FINISHED", "sandbox", u)
  OBVIOUS
<1>3. DOMAIN f = FactFields /\ f.type = "SANDBOX_FINISHED"
  BY <1>2, FactIs
<1>4. PICK g : g = [f EXCEPT !.refs = r]
  OBVIOUS
<1>5. DOMAIN g = FactFields /\ g.type = "SANDBOX_FINISHED"
  BY <1>3, <1>4 DEF FactFields
<1> QED
  BY <1>1, <1>2, <1>4, <1>5 DEF HostFact, Records

LEMMA RecordVerdictFact ==
    ASSUME RecordVerdict
    PROVE  Records
<1>1. PICK r, u, p : LET f == Fact("VERIFICATION_FINISHED", "verifier", u) IN
        Emit([f EXCEPT !.passed = p, !.refs = r])
  BY Zenon DEF RecordVerdict
<1>2. UNCHANGED <<evidence, call, callCount, observed, recordLock, closeouts>>
  BY DEF RecordVerdict
<1>3. PICK f : f = Fact("VERIFICATION_FINISHED", "verifier", u)
  OBVIOUS
<1>4. DOMAIN f = FactFields /\ f.type = "VERIFICATION_FINISHED"
  BY <1>3, FactIs
<1>5. PICK g : g = [f EXCEPT !.passed = p, !.refs = r]
  OBVIOUS
<1>6. DOMAIN g = FactFields /\ g.type = "VERIFICATION_FINISHED"
  BY <1>4, <1>5 DEF FactFields
<1> QED
  BY <1>1, <1>2, <1>3, <1>5, <1>6 DEF HostFact, Records

(* What Pi printed is recorded under spans of its own.                     *)
LEMMA ReplayEventFact ==
    ASSUME ReplayEvent
    PROVE  Records \/ UNCHANGED proxyVars
<1>1. PICK e : e = Head(host.replay)
  OBVIOUS
<1>2. UNCHANGED <<evidence, call, callCount, observed, recordLock, closeouts>>
  BY DEF ReplayEvent
<1>3. CASE Superseded(e.type)
  BY <1>1, <1>2, <1>3 DEF ReplayEvent, proxyVars
<1>4. CASE ~Superseded(e.type)
  <2>1. PICK fact : fact = Fact(e.type, <<"pi", e.span>>, e.status)
    OBVIOUS
  <2>2. Emit(fact)
    BY <1>1, <1>4, <2>1 DEF ReplayEvent
  <2>3. /\ DOMAIN fact = FactFields /\ fact.type = e.type
        /\ fact.span = <<"pi", e.span>>
    BY <2>1, FactIs
  <2>4. \A c \in Calls : fact.span # CallSpan(c)
    BY <2>3 DEF CallSpan
  <2>5. fact.type # "EPISODE_FINISHED"
    BY <1>4, <2>3 DEF Superseded
  <2> QED
    BY <1>2, <2>2, <2>3, <2>4, <2>5 DEF HostFact, Records
<1> QED
  BY <1>3, <1>4

LEMMA FinishFact ==
    ASSUME Finish
    PROVE  \E fact : /\ HostFact(fact) /\ fact.type = "EPISODE_FINISHED"
                     /\ fact.terminal = Declared(host)
<1>1. Verdict = VerdictIn(host) /\ Score = ScoreIn(host)
  BY DEF Verdict, VerdictIn, Score, ScoreIn
<1>2. ValidRun <=> ValidIn(host)
  BY <1>1 DEF ValidRun, ValidIn
<1>3. PICK f : f = Fact("EPISODE_FINISHED", "episode", "SUCCEEDED")
  OBVIOUS
<1>4. PICK t : t = Declared(host)
  OBVIOUS
<1>5. t = [task |-> CASE Verdict = "PASSED" -> "SUCCESS"
                      [] Verdict = "FAILED" -> "FAILURE"
                      [] OTHER -> "UNKNOWN",
           validity |-> IF ValidRun THEN "VALID" ELSE "INFRA_INVALID",
           verifier |-> Verdict, score |-> Score, evidence |-> host.verdict]
  BY <1>1, <1>2, <1>4 DEF Declared
<1>6. /\ Emit([f EXCEPT !.terminal = t])
      /\ UNCHANGED <<evidence, call, callCount, observed, recordLock, closeouts>>
  BY <1>3, <1>5 DEF Finish
<1>7. DOMAIN f = FactFields /\ f.type = "EPISODE_FINISHED"
  BY <1>3, FactIs
<1>8. PICK g : g = [f EXCEPT !.terminal = t]
  OBVIOUS
<1>9. DOMAIN g = FactFields /\ g.type = "EPISODE_FINISHED" /\ g.terminal = t
  BY <1>7, <1>8 DEF FactFields
<1> QED
  BY <1>4, <1>6, <1>8, <1>9 DEF HostFact

(* The host's steps that record nothing.                                   *)
Mute ==
    \/ RefuseRoot \/ StartServer \/ RefuseIsolation \/ SpawnPi \/ CloseServer \/ ReadRows
    \/ SkipVerifier \/ VerifierHangs \/ RefuseHistory \/ WriteArtifacts \/ CheckPinned
    \/ ReadEvents \/ Finalize \/ WriteDecisions \/ AssembleSequence \/ Gate
    \/ PiExits \/ PiTimesOut \/ PiRaises \/ TornRead

Recording == Setup \/ EndSandbox \/ ReplayEvent \/ StartVerifier \/ RecordVerdict

LEMMA NextIs ==
    ASSUME Next
    PROVE  Mute \/ Recording \/ Finish \/ \E c \in Calls : PiCalls(c) \/ PiHears(c) \/ Serve(c)
BY Zenon DEF Next, HostStep, Mute, Recording

LEMMA MuteIs ==
    ASSUME Mute
    PROVE  UNCHANGED <<proxyVars, prompt, heard>>
<1>1. CASE RefuseRoot \/ StartServer \/ RefuseIsolation \/ SpawnPi \/ CloseServer
  BY <1>1 DEF RefuseRoot, StartServer, RefuseIsolation, SpawnPi, CloseServer
<1>2. CASE ReadRows \/ SkipVerifier \/ VerifierHangs \/ RefuseHistory \/ WriteArtifacts
  BY <1>2 DEF ReadRows, SkipVerifier, VerifierHangs, RefuseHistory, WriteArtifacts
<1>3. CASE CheckPinned \/ ReadEvents \/ WriteDecisions \/ AssembleSequence \/ Gate
  BY <1>3 DEF CheckPinned, ReadEvents, WriteDecisions, AssembleSequence, Gate
<1>4. CASE PiExits \/ PiTimesOut \/ PiRaises \/ TornRead
  BY <1>4 DEF PiExits, PiTimesOut, PiRaises, TornRead, PiEnds
<1>5. CASE Finalize
  BY <1>5 DEF Finalize
<1> QED
  BY <1>1, <1>2, <1>3, <1>4, <1>5 DEF Mute

LEMMA RecordingIs ==
    ASSUME Recording
    PROVE  /\ Records \/ UNCHANGED proxyVars
           /\ UNCHANGED <<evidence, call, prompt, heard, final>>
<1>1. Records \/ UNCHANGED proxyVars
  BY SetupFact, EndSandboxFact, ReplayEventFact, StartVerifierFact, RecordVerdictFact DEF Recording
<1>2. UNCHANGED <<evidence, call, prompt, heard, final>>
  BY DEF Recording, Setup, EndSandbox, ReplayEvent, StartVerifier, RecordVerdict
<1> QED
  BY <1>1, <1>2

LEMMA ProxyKept ==
    ASSUME ProxyInv, [Next]_vars
    PROVE  ProxyInv'
<1>h. ASSUME NEW fact, HostFact(fact) PROVE ProxyInv'
  BY <1>h, ForeignEvent DEF HostFact
<1>1. CASE Mute
  BY <1>1, MuteIs, ProxyIdle
<1>2. CASE Recording
  BY <1>2, <1>h, RecordingIs, ProxyIdle DEF Records
<1>3. CASE Finish
  BY <1>3, <1>h, FinishFact
<1>4. CASE \E c \in Calls : PiCalls(c)
  BY <1>4, PostStep DEF PiCalls
<1>5. CASE \E c \in Calls : PiHears(c)
  BY <1>5, ProxyIdle DEF PiHears
<1>6. CASE \E c \in Calls : Serve(c)
  BY <1>6, ServeStep DEF Serve
<1>7. CASE UNCHANGED vars
  BY <1>7, ProxyIdle DEF vars
<1> QED
  BY <1>1, <1>2, <1>3, <1>4, <1>5, <1>6, <1>7, NextIs

-----------------------------------------------------------------------------
(* The conversation, which only Pi and the serving threads carry on.       *)

LEMMA ConversationIdle ==
    ASSUME Conversation, UNCHANGED <<evidence, call, prompt, heard>>
    PROVE  Conversation'
BY DEF Conversation, RowsTrue, Turns, InOrder

LEMMA TurnsStay ==
    ASSUME NEW s, NEW cs, NEW ds, Turns(s, cs),
           \A d \in Calls : cs[d].pc = "done" => ds[d].pc = "done"
    PROVE  Turns(s, ds)
<1>1. \A i \in DOMAIN s : s[i] \in Calls
  BY DEF Turns
<1> QED
  BY <1>1 DEF Turns

(* A new request repeats what Pi has heard.                                *)
LEMMA CallsConverse ==
    ASSUME ProxyInv, Conversation, NEW c \in Calls, PiCalls(c)
    PROVE  Conversation'
<1>1. /\ call[c].pc = "new" /\ MoveTo(c, "posted") /\ evidence' = evidence /\ heard' = heard
      /\ prompt' = [prompt EXCEPT ![c] = heard]
  BY DEF PiCalls, PostCall
<1>2. /\ call'[c].pc = "posted"
      /\ \A d \in Calls : d # c => call'[d] = call[d]
  BY <1>1, Moved DEF ProxyInv, CallStates
<1>3. evidence \in Seq([call : Calls, answer : Answers])
  BY DEF ProxyInv
<1>4. \A j \in DOMAIN evidence : evidence[j].call \in Calls /\ evidence[j].call # c
  <2>1. \A j \in DOMAIN evidence : evidence[j] \in [call : Calls, answer : Answers]
    BY DEF ProxyInv, ProxyTypeOK
  <2>2. \A j \in DOMAIN evidence : evidence[j].call \in Calls
    BY <2>1
  <2> QED
    BY <1>1, <2>2 DEF Conversation, RowsTrue, Settled
<1>5. RowsTrue(evidence', call')
  BY <1>1, <1>2, <1>4 DEF Conversation, RowsTrue
<1>6. \A d \in Calls : call[d].pc = "done" => call'[d].pc = "done"
  BY <1>1, <1>2
<1>7. DOMAIN prompt' = Calls /\ prompt'[c] = heard /\ \A d \in Calls : d # c => prompt'[d] = prompt[d]
  BY <1>1 DEF Conversation
<1>8. Turns(heard', call') /\ \A d \in Calls : Turns(prompt'[d], call')
  <2>1. Turns(heard, call')
    BY <1>6, TurnsStay DEF Conversation
  <2>2. \A d \in Calls : Turns(prompt[d], call')
    BY <1>6, TurnsStay DEF Conversation
  <2> QED
    BY <1>1, <1>7, <2>1, <2>2
<1>9. InOrder(evidence', prompt')
  BY <1>1, <1>4, <1>7 DEF Conversation, InOrder
<1> QED
  BY <1>5, <1>7, <1>8, <1>9 DEF Conversation

LEMMA HearsConverse ==
    ASSUME ProxyInv, Conversation, NEW c \in Calls, PiHears(c)
    PROVE  Conversation'
<1>1. /\ call[c].pc = "done" /\ \A i \in DOMAIN heard : heard[i] # c
      /\ heard' = Append(heard, c)
      /\ UNCHANGED <<evidence, call, prompt>>
  BY DEF PiHears, proxyVars
<1>2. heard \in Seq(Calls)
  BY DEF Conversation, Turns
<1>3. /\ heard' \in Seq(Calls) /\ Len(heard) \in Nat /\ DOMAIN heard = 1..Len(heard)
      /\ DOMAIN heard' = 1..(Len(heard) + 1)
      /\ \A i \in 1..Len(heard) : heard'[i] = heard[i]
      /\ heard'[Len(heard) + 1] = c
  BY <1>1, <1>2
<1>4. \A i \in DOMAIN heard' : call[heard'[i]].pc = "done"
  BY <1>1, <1>3 DEF Conversation, Turns
<1>5. \A i, j \in DOMAIN heard' : heard'[i] = heard'[j] => i = j
  BY <1>1, <1>3 DEF Conversation, Turns
<1>6. Turns(heard', call')
  BY <1>1, <1>3, <1>4, <1>5 DEF Turns
<1> QED
  BY <1>1, <1>6 DEF Conversation

(* A row is recorded after the turns its prompt repeats: Pi heard those,   *)
(* so their own rows were there first.                                     *)
LEMMA ServeConverses ==
    ASSUME ProxyInv, Conversation, NEW c \in Calls, Serve(c)
    PROVE  Conversation'
<1>1. ServeCall(c) /\ UNCHANGED <<prompt, heard>>
  BY DEF Serve, hostVars
<1>2. /\ \A d \in Calls :
            /\ call[d].pc \in Settled =>
                 call'[d].pc \in Settled /\ call'[d].answer = call[d].answer
            /\ call[d].pc = "done" => call'[d].pc = "done"
      /\ \/ evidence' = evidence
         \/ /\ call'[c].pc = "evidenced" /\ call'[c].answer = call[c].answer
            /\ call[c].answer \in Answers
            /\ evidence' = Append(evidence, [call |-> c, answer |-> call[c].answer])
  BY <1>1, ServeEffect
<1>3. Turns(heard', call') /\ \A d \in Calls : Turns(prompt'[d], call')
  BY <1>1, <1>2, TurnsStay DEF Conversation
<1>4. evidence \in Seq([call : Calls, answer : Answers]) /\ CallsRecorded
  BY DEF ProxyInv
<1>5. \A j \in DOMAIN evidence : evidence[j].call \in Calls
  <2>1. \A j \in DOMAIN evidence : evidence[j] \in [call : Calls, answer : Answers]
    BY DEF ProxyInv, ProxyTypeOK
  <2> QED
    BY <2>1
<1>6. RowsTrue(evidence, call')
  BY <1>2, <1>5 DEF Conversation, RowsTrue
<1>7. CASE evidence' = evidence
  BY <1>1, <1>3, <1>6, <1>7 DEF Conversation
<1>8. CASE evidence' # evidence
  <2>1. PICK v : v = [call |-> c, answer |-> call[c].answer]
    OBVIOUS
  <2>2. /\ v.call = c /\ v.answer = call'[c].answer /\ call'[c].pc = "evidenced"
        /\ v \in [call : Calls, answer : Answers]
    BY <1>2, <1>8, <2>1
  <2>3. evidence' = Append(evidence, v)
    BY <1>2, <1>8, <2>1
  <2>4. /\ Len(evidence) \in Nat /\ DOMAIN evidence = 1..Len(evidence)
        /\ DOMAIN evidence' = 1..(Len(evidence) + 1)
        /\ \A i \in 1..Len(evidence) : evidence'[i] = evidence[i]
        /\ evidence'[Len(evidence) + 1] = v
    BY <1>4, <2>2, <2>3
  <2>5. RowsTrue(evidence', call')
    BY <1>6, <2>2, <2>4 DEF RowsTrue, Settled
  <2>6. InOrder(evidence', prompt)
    <3> SUFFICES ASSUME NEW j \in DOMAIN evidence', NEW k \in DOMAIN prompt[evidence'[j].call]
                 PROVE  \E i \in 1..(j - 1) : evidence'[i].call = prompt[evidence'[j].call][k]
      BY DEF InOrder
    <3>1. CASE j \in DOMAIN evidence
      <4>1. k \in DOMAIN prompt[evidence[j].call] /\ evidence'[j] = evidence[j]
        BY <2>4, <3>1
      <4>2. PICK i \in 1..(j - 1) : evidence[i].call = prompt[evidence[j].call][k]
        BY <3>1, <4>1 DEF Conversation, InOrder
      <4>3. evidence'[i] = evidence[i]
        BY <2>4, <3>1
      <4> QED
        BY <4>1, <4>2, <4>3
    <3>2. CASE j = Len(evidence) + 1
      <4>1. PICK d : d = prompt[c][k]
        OBVIOUS
      <4>2. evidence'[j].call = c /\ k \in DOMAIN prompt[c]
        BY <2>2, <2>4, <3>2
      <4>3. d \in Calls /\ call[d].pc = "done"
        BY <4>1, <4>2 DEF Conversation, Turns
      <4>4. PICK i \in DOMAIN evidence : evidence[i].call = d
        BY <1>4, <4>3 DEF CallsRecorded, EvidenceFor
      <4>5. i \in 1..(j - 1) /\ evidence'[i] = evidence[i]
        BY <2>4, <3>2
      <4> QED
        BY <4>1, <4>2, <4>4, <4>5
    <3> QED
      BY <2>4, <3>1, <3>2
  <2> QED
    BY <1>1, <1>3, <2>5, <2>6 DEF Conversation
<1> QED
  BY <1>7, <1>8

LEMMA ConversationKept ==
    ASSUME ProxyInv, Conversation, [Next]_vars
    PROVE  Conversation'
<1>1. CASE Mute
  BY <1>1, MuteIs, ConversationIdle DEF proxyVars
<1>2. CASE Recording
  BY <1>2, RecordingIs, ConversationIdle
<1>3. CASE Finish
  BY <1>3, ConversationIdle DEF Finish
<1>4. CASE \E c \in Calls : PiCalls(c) \/ PiHears(c) \/ Serve(c)
  BY <1>4, CallsConverse, HearsConverse, ServeConverses
<1>5. CASE UNCHANGED vars
  BY <1>5, ConversationIdle DEF vars, proxyVars, hostVars
<1> QED
  BY <1>1, <1>2, <1>3, <1>4, <1>5, NextIs

-----------------------------------------------------------------------------
(* The host: what a step that moves run() on keeps.                        *)

Opening == {"start", "serve", "spawn", "in"}
Closing == {"close", "rows", "adapt"}
Closed == {"write", "assemble", "gate", "gated", "raised"}

(* run() never goes back, and stops at the gate.                           *)
Onward(p, q) ==
    /\ q \in Opening => p \in Opening
    /\ q \in Unfinished => p \in Unfinished
    /\ q \in Late => p \in Late /\ q # "finalize"
    /\ p \in Closed => q \in Closed
    /\ p # "gated"

SameRun(h, k) == k.harness = h.harness /\ k.verifier = h.verifier /\ k.verdict = h.verdict

LEMMA DeclaredSame ==
    ASSUME NEW h, NEW k, SameRun(h, k)
    PROVE  Declared(k) = Declared(h) /\ ScoreIn(k) = ScoreIn(h)
<1>1. VerdictIn(k) = VerdictIn(h)
  BY DEF SameRun, VerdictIn
<1>2. ScoreIn(k) = ScoreIn(h)
  BY <1>1 DEF ScoreIn
<1>3. ValidIn(k) <=> ValidIn(h)
  BY <1>1 DEF SameRun, ValidIn
<1>4. k.verdict = h.verdict
  BY DEF SameRun
<1> QED
  BY <1>1, <1>2, <1>3, <1>4 DEF Declared

LEMMA OneEndSame ==
    ASSUME NEW L, NEW h, NEW k, SameRun(h, k), OneEnd(L, h)
    PROVE  OneEnd(L, k)
BY DeclaredSame DEF OneEnd

(* No event that ends the episode is added.                                *)
Continues(L, M) ==
    \/ M = L
    \/ \E fact : Extension(L, M, fact) /\ fact.type # "EPISODE_FINISHED"

LEMMA ContinuesIs ==
    ASSUME NEW L, NEW M, Continues(L, M)
    PROVE  /\ Has(M, "EPISODE_FINISHED") <=> Has(L, "EPISODE_FINISHED")
           /\ \A h : OneEnd(L, h) => OneEnd(M, h)
<1>1. CASE M = L
  BY <1>1
<1>2. CASE \E fact : Extension(L, M, fact) /\ fact.type # "EPISODE_FINISHED"
  <2>1. PICK fact : Extension(L, M, fact) /\ fact.type # "EPISODE_FINISHED"
    BY <1>2
  <2>2. /\ Len(L) \in Nat /\ DOMAIN L = 1..Len(L) /\ DOMAIN M = 1..(Len(L) + 1)
        /\ \A i \in DOMAIN L : M[i] = L[i]
        /\ M[Len(L) + 1].type # "EPISODE_FINISHED"
    BY <2>1 DEF Extension, FactFields
  <2>3. \A i \in DOMAIN M : M[i].type = "EPISODE_FINISHED" => i \in DOMAIN L /\ M[i] = L[i]
    BY <2>2
  <2>4. Has(M, "EPISODE_FINISHED") <=> Has(L, "EPISODE_FINISHED")
    BY <2>1, HasAfter
  <2> QED
    BY <2>3, <2>4 DEF OneEnd
<1> QED
  BY <1>1, <1>2 DEF Continues

LEMMA EndedMove ==
    ASSUME Ended, Continues(log, log'),
           host'.pc \in Unfinished => host.pc \in Unfinished,
           SameRun(host, host') \/ host.pc \in Unfinished
    PROVE  Ended'
<1>1. /\ Has(log', "EPISODE_FINISHED") <=> Has(log, "EPISODE_FINISHED")
      /\ \A h : OneEnd(log, h) => OneEnd(log', h)
  BY ContinuesIs
<1>2. host'.pc \in Unfinished => ~Has(log', "EPISODE_FINISHED")
  BY <1>1 DEF Ended
<1>3. OneEnd(log', host')
  <2>1. CASE SameRun(host, host')
    BY <1>1, <2>1, OneEndSame DEF Ended
  <2>2. CASE host.pc \in Unfinished
    BY <1>1, <2>2 DEF Ended, OneEnd, Has
  <2> QED
    BY <2>1, <2>2
<1> QED
  BY <1>2, <1>3 DEF Ended

LEMMA SnapshotSame ==
    ASSUME NEW L, NEW h, NEW k, NEW V, SameRun(h, k), k.rows = h.rows, Snapshot(L, h, V)
    PROVE  Snapshot(L, k, V)
BY OneEndSame DEF Snapshot

LEMMA ReadingMove ==
    ASSUME Reading, UNCHANGED <<evidence, final>>, Onward(host.pc, host'.pc),
           host'.rows = host.rows, host'.policy = host.policy, host'.events = host.events,
           \/ SameRun(host, host') /\ host'.refs = host.refs
           \/ host.pc \in Unfinished
    PROVE  Reading'
<1>1. PrefixOf(host'.rows, evidence')
  BY DEF Reading
<1>2. CASE host.pc \in Unfinished
  <2>1. final = None /\ host'.pc \notin Late
    BY <1>2 DEF Reading, Onward, Unfinished, Late
  <2>2. host'.pc # "finalize"
    BY <2>1 DEF Late
  <2> QED
    BY <1>1, <2>1, <2>2 DEF Reading
<1>3. CASE SameRun(host, host') /\ host'.refs = host.refs
  <2>1. host'.pc \in Late => Traced(host')
    <3>1. host'.pc \in Late => Traced(host)
      BY DEF Reading, Onward
    <3>2. Traced(host) => Traced(host')
      BY <1>3, DeclaredSame DEF Traced, SameRun
    <3> QED
      BY <3>1, <3>2
  <2>2. host'.pc # "finalize"
    BY DEF Onward, Late
  <2>3. final # None => Snapshot(host'.events, host', evidence')
    BY <1>3, SnapshotSame DEF Reading
  <2>4. final # None => host'.pc \in Closed /\ final.episode = Assemble(host'.events, host'.refs)
    BY <1>3 DEF Reading, Onward, Closed
  <2> QED
    BY <1>1, <2>1, <2>2, <2>3, <2>4 DEF Reading, Closed
<1> QED
  BY <1>2, <1>3

LEMMA GateMove ==
    ASSUME Gated, host.pc # "gated", host'.gate = host.gate
    PROVE  Gated' /\ TrainedIsWhole'
BY DEF Gated, TrainedIsWhole

LEMMA HostMove ==
    ASSUME PiInv, ProxyInv', UNCHANGED <<evidence, call, prompt, heard, final>>,
           files' \subseteq JsonFiles, Continues(log, log'), Locals(host'), Honest(host', exits'),
           host'.rows = host.rows, host'.policy = host.policy, host'.events = host.events,
           host'.gate = host.gate, Onward(host.pc, host'.pc),
           \/ SameRun(host, host') /\ host'.refs = host.refs
           \/ host.pc \in Unfinished
    PROVE  PiInv'
<1>1. Conversation'
  BY ConversationIdle DEF PiInv
<1>2. Ended'
  BY EndedMove DEF PiInv, Onward
<1>3. Reading'
  BY ReadingMove DEF PiInv
<1>4. Gated' /\ TrainedIsWhole'
  BY GateMove DEF PiInv, Onward
<1> QED
  BY <1>1, <1>2, <1>3, <1>4 DEF PiInv

-----------------------------------------------------------------------------
(* The host: its steps, one by one.                                        *)

(* The steps that only send run() to another point.                        *)
Plain ==
    \/ RefuseRoot \/ StartServer \/ RefuseIsolation \/ SpawnPi \/ CloseServer \/ SkipVerifier
    \/ VerifierHangs \/ RefuseHistory \/ CheckPinned \/ WriteDecisions \/ PiRaises \/ TornRead

LEMMA PlainGoes ==
    ASSUME Plain
    PROVE  \E p : /\ GoTo(p) /\ Onward(host.pc, p)
                  /\ p \in Closing => host.pc \in Closing
                  /\ files' \subseteq files \cup JsonFiles
                  /\ UNCHANGED <<final, exits>>
<1> USE DEF Onward, Opening, Closing, Closed, Unfinished, Late, At
<1>1. CASE RefuseRoot
  BY <1>1 DEF RefuseRoot
<1>2. CASE StartServer
  BY <1>2 DEF StartServer
<1>3. CASE RefuseIsolation \/ SpawnPi
  BY <1>3 DEF RefuseIsolation, SpawnPi
<1>4. CASE CloseServer
  <2>1. CASE host.pc = "close"
    BY <1>4, <2>1 DEF CloseServer
  <2>2. CASE host.pc = "raising"
    BY <1>4, <2>2 DEF CloseServer
  <2> QED
    BY <1>4, <2>1, <2>2 DEF CloseServer
<1>5. CASE SkipVerifier \/ VerifierHangs
  BY <1>5 DEF SkipVerifier, VerifierHangs
<1>6. CASE RefuseHistory
  BY <1>6 DEF RefuseHistory
<1>7. CASE CheckPinned
  <2>1. \/ files' = files \cup {"artifact-refs"} /\ GoTo("read events")
        \/ files' = files /\ GoTo("raised")
    BY <1>7 DEF CheckPinned
  <2>2. host.pc = "pinned" /\ UNCHANGED <<final, exits>>
    BY <1>7 DEF CheckPinned
  <2> QED
    BY <2>1, <2>2 DEF JsonFiles
<1>8. CASE WriteDecisions
  BY <1>8 DEF WriteDecisions, JsonFiles
<1>9. CASE PiRaises
  BY <1>9 DEF PiRaises
<1>10. CASE TornRead
  BY <1>10 DEF TornRead
<1> QED
  BY <1>1, <1>2, <1>3, <1>4, <1>5, <1>6, <1>7, <1>8, <1>9, <1>10 DEF Plain

LEMMA PlainKept ==
    ASSUME PiInv, ProxyInv', Plain
    PROVE  PiInv'
<1>1. PICK p : /\ GoTo(p) /\ Onward(host.pc, p)
               /\ p \in Closing => host.pc \in Closing
               /\ files' \subseteq files \cup JsonFiles
               /\ UNCHANGED <<final, exits>>
  BY PlainGoes
<1>2. OnlyIn({"pc"}) /\ host'.pc = p
  BY <1>1, GoToIs DEF PiInv
<1>3. Locals(host') /\ \A x \in Fields \ {"pc"} : host'[x] = host[x]
  BY <1>2 DEF OnlyIn
<1>4. /\ host'.code = host.code /\ host'.rows = host.rows /\ host'.policy = host.policy
      /\ host'.events = host.events /\ host'.gate = host.gate /\ host'.refs = host.refs
      /\ SameRun(host, host')
  BY <1>3 DEF Fields, SameRun
<1>5. Honest(host', exits')
  BY <1>1, <1>2, <1>4 DEF PiInv, Honest, SameRun, Onward, Opening, Closing
<1>6. UNCHANGED <<evidence, call, prompt, heard, log>>
  <2>1. UNCHANGED <<proxyVars, prompt, heard>>
    BY MuteIs DEF Mute, Plain
  <2> QED
    BY <2>1 DEF proxyVars
<1>7. Continues(log, log')
  BY <1>6 DEF Continues
<1>8. files' \subseteq JsonFiles
  BY <1>1 DEF PiInv
<1> QED
  BY <1>1, <1>2, <1>3, <1>4, <1>5, <1>6, <1>7, <1>8, HostMove

LEMMA PiEndsKept ==
    ASSUME PiInv, ProxyInv', PiExits \/ PiTimesOut
    PROVE  PiInv'
<1>1. PICK code, lines : PiEnds(code, lines)
  BY DEF PiExits, PiTimesOut
<1>2. host.pc = "in"
  BY DEF PiExits, PiTimesOut, At
<1>3. OnlyIn({"pc", "code", "records"}) /\ host'.pc = "close" /\ host'.code = code
  BY <1>1, PiEndsIs DEF PiInv
<1>4. Locals(host') /\ \A x \in Fields \ {"pc", "code", "records"} : host'[x] = host[x]
  BY <1>3 DEF OnlyIn
<1>5. /\ host'.rows = host.rows /\ host'.policy = host.policy
      /\ host'.events = host.events /\ host'.gate = host.gate /\ host'.refs = host.refs
      /\ SameRun(host, host')
  BY <1>4 DEF Fields, SameRun
<1>6. DOMAIN exits = {"pi", "verifier"}
  BY DEF PiInv, Honest
<1>7. /\ exits' = [exits EXCEPT !.pi = code] /\ UNCHANGED <<proxyVars, prompt, heard, files, final>>
  BY <1>1 DEF PiEnds
<1>8. DOMAIN exits' = {"pi", "verifier"} /\ exits'.pi = code /\ exits'.verifier = exits.verifier
  BY <1>6, <1>7
<1>9. Honest(host', exits')
  BY <1>2, <1>3, <1>5, <1>8 DEF PiInv, Honest, SameRun
<1>10. Onward(host.pc, host'.pc)
  BY <1>2, <1>3 DEF Onward, Opening, Unfinished, Late, Closed
<1>11. Continues(log, log') /\ UNCHANGED <<evidence, call>>
  BY <1>7 DEF Continues, proxyVars
<1>12. files' \subseteq JsonFiles
  BY <1>7 DEF PiInv
<1> QED
  BY <1>4, <1>5, <1>7, <1>9, <1>10, <1>11, <1>12, HostMove

(* The steps that record an event and do not end the episode.              *)
LEMMA RecordingGoes ==
    ASSUME PiInv, Recording
    PROVE  /\ Locals(host')
           /\ host'.rows = host.rows /\ host'.policy = host.policy
           /\ host'.events = host.events /\ host'.gate = host.gate
           /\ host.pc \in Unfinished /\ Onward(host.pc, host'.pc)
           /\ Honest(host', exits')
           /\ files' \subseteq JsonFiles
<1>l. Locals(host) /\ Honest(host, exits) /\ files \subseteq JsonFiles
  BY DEF PiInv
<1> USE DEF Onward, Opening, Closed, Unfinished, Late, At
<1>1. CASE Setup
  <2>1. host.pc = "start" /\ GoTo("serve") /\ exits' = exits
        /\ files' = {"execution-run-manifest", "launch-plan"}
    BY <1>1 DEF Setup
  <2>2. OnlyIn({"pc"}) /\ host'.pc = "serve"
    BY <1>l, <2>1, GoToIs
  <2> QED
    BY <1>l, <2>1, <2>2 DEF OnlyIn, Fields, Honest, JsonFiles
<1>2. CASE StartVerifier
  <2>1. host.pc = "replay" /\ GoTo("verifying") /\ exits' = exits /\ files' = files
    BY <1>2 DEF StartVerifier
  <2>2. OnlyIn({"pc"}) /\ host'.pc = "verifying"
    BY <1>l, <2>1, GoToIs
  <2> QED
    BY <1>l, <2>1, <2>2 DEF OnlyIn, Fields, Honest
<1>3. CASE EndSandbox
  <2>1. host.pc = "adapt" /\ exits' = exits /\ files' = files
    BY <1>3 DEF EndSandbox
  <2>2. /\ OnlyIn({"pc", "harness", "replay", "refs"}) /\ host'.pc = "replay"
        /\ host'.harness = "COMPLETED" => host.code = "zero"
    BY <1>l, <1>3, EndSandboxIs
  <2>3. Honest(host', exits')
    BY <1>l, <2>1, <2>2 DEF OnlyIn, Fields, Honest
  <2> QED
    BY <1>l, <2>1, <2>2, <2>3 DEF OnlyIn, Fields
<1>4. CASE ReplayEvent
  <2>1. host.pc = "replay" /\ exits' = exits /\ files' = files
    BY <1>4 DEF ReplayEvent
  <2>2. OnlyIn({"replay"})
    BY <1>l, <1>4, ReplayEventIs
  <2>3. Honest(host', exits')
    BY <1>l, <2>1, <2>2 DEF OnlyIn, Fields, Honest
  <2> QED
    BY <1>l, <2>1, <2>2, <2>3 DEF OnlyIn, Fields
<1>5. CASE RecordVerdict
  <2>1. host.pc = "verifying" /\ files' = files
    BY <1>5 DEF RecordVerdict
  <2>2. /\ OnlyIn({"pc", "verifier", "verdict", "refs"}) /\ host'.pc = "finish"
        /\ DOMAIN exits' = {"pi", "verifier"} /\ exits'.pi = exits.pi
        /\ host'.verifier = "PASSED" => exits'.verifier = TRUE
        /\ host'.verifier = "FAILED" => exits'.verifier = FALSE
    BY <1>l, <1>5, RecordVerdictIs DEF Honest
  <2>3. host'.harness = host.harness
    BY <2>2 DEF OnlyIn, Fields
  <2>4. Honest(host', exits')
    BY <1>l, <2>2, <2>3 DEF Honest
  <2> QED
    BY <1>l, <2>1, <2>2, <2>4 DEF OnlyIn, Fields
<1> QED
  BY <1>1, <1>2, <1>3, <1>4, <1>5 DEF Recording

LEMMA RecordingKept ==
    ASSUME PiInv, ProxyInv', Recording
    PROVE  PiInv'
<1>1. Records \/ UNCHANGED proxyVars
  BY RecordingIs
<1>2. Continues(log, log')
  <2>1. CASE UNCHANGED proxyVars
    BY <2>1 DEF proxyVars, Continues
  <2>2. CASE Records
    <3>1. PICK fact : HostFact(fact) /\ fact.type # "EPISODE_FINISHED"
      BY <2>2 DEF Records
    <3>2. Extension(log, log', fact)
      BY <3>1, EmitExtends DEF HostFact, PiInv, ProxyInv
    <3> QED
      BY <3>1, <3>2 DEF Continues
  <2> QED
    BY <1>1, <2>1, <2>2
<1>3. UNCHANGED <<evidence, call, prompt, heard, final>>
  BY RecordingIs
<1> QED
  BY <1>2, <1>3, RecordingGoes, HostMove

LEMMA AssembleSequenceKept ==
    ASSUME PiInv, ProxyInv', AssembleSequence
    PROVE  PiInv'
<1>1. OnlyIn({"pc", "admitted"}) /\ host'.pc \in {"gate", "raised"}
  BY AssembleSequenceIs DEF PiInv
<1>2. /\ host.pc = "assemble" /\ UNCHANGED <<proxyVars, prompt, heard, final, exits>>
      /\ files' \subseteq files \cup {"admitted-sequence"}
  BY DEF AssembleSequence, At
<1>3. Locals(host') /\ \A x \in Fields \ {"pc", "admitted"} : host'[x] = host[x]
  BY <1>1 DEF OnlyIn
<1>4. /\ host'.code = host.code /\ host'.rows = host.rows /\ host'.policy = host.policy
      /\ host'.events = host.events /\ host'.gate = host.gate /\ host'.refs = host.refs
      /\ SameRun(host, host')
  BY <1>3 DEF Fields, SameRun
<1>5. Honest(host', exits')
  BY <1>1, <1>2, <1>4 DEF PiInv, Honest, SameRun
<1>6. Onward(host.pc, host'.pc)
  BY <1>1, <1>2 DEF Onward, Opening, Unfinished, Late, Closed
<1>7. Continues(log, log') /\ UNCHANGED <<evidence, call>>
  BY <1>2 DEF Continues, proxyVars
<1>8. files' \subseteq JsonFiles
  BY <1>2 DEF PiInv, JsonFiles
<1> QED
  BY <1>2, <1>3, <1>4, <1>5, <1>6, <1>7, <1>8, HostMove

(* The first read.                                                         *)
LEMMA ReadRowsKept ==
    ASSUME PiInv, ProxyInv', ReadRows
    PROVE  PiInv'
<1>1. OnlyIn({"pc", "rows", "usable"}) /\ host'.pc = "adapt" /\ host'.rows = evidence
  BY ReadRowsIs DEF PiInv
<1>2. /\ host.pc = "rows" /\ UNCHANGED <<proxyVars, prompt, heard, files, final, exits>>
  BY DEF ReadRows, At
<1>3. Locals(host') /\ \A x \in Fields \ {"pc", "rows", "usable"} : host'[x] = host[x]
  BY <1>1 DEF OnlyIn
<1>4. host'.code = host.code /\ host'.gate = host.gate /\ SameRun(host, host')
  BY <1>3 DEF Fields, SameRun
<1>5. Honest(host', exits')
  BY <1>1, <1>2, <1>4 DEF PiInv, Honest, SameRun
<1>6. UNCHANGED <<evidence, call, prompt, heard, log>>
  BY <1>2 DEF proxyVars
<1>7. Ended'
  <2>1. Continues(log, log')
    BY <1>6 DEF Continues
  <2> QED
    BY <1>2, <1>4, <2>1, EndedMove DEF PiInv, Unfinished
<1>8. Reading'
  <2>1. final' = None
    BY <1>2 DEF PiInv, Reading
  <2>2. PrefixOf(host'.rows, evidence')
    <3>1. evidence \in Seq([call : Calls, answer : Answers])
      BY DEF PiInv, ProxyInv
    <3>2. Len(evidence) \in Nat
      BY <3>1
    <3> QED
      BY <1>1, <1>6, <3>1, <3>2 DEF PrefixOf
  <2> QED
    BY <1>1, <2>1, <2>2 DEF Reading, Late
<1>9. Gated' /\ TrainedIsWhole'
  BY <1>2, <1>4, GateMove DEF PiInv
<1>10. Conversation'
  BY <1>6, ConversationIdle DEF PiInv
<1>11. files' \subseteq JsonFiles
  BY <1>2 DEF PiInv
<1> QED
  BY <1>3, <1>5, <1>7, <1>8, <1>9, <1>10, <1>11 DEF PiInv

(* The terminal event is the first, and declares what the locals say.      *)
LEMMA FinishKept ==
    ASSUME PiInv, ProxyInv', Finish
    PROVE  PiInv'
<1>1. /\ host.pc = "finish" /\ GoTo("artifacts")
      /\ UNCHANGED <<evidence, call, prompt, heard, files, final, exits>>
  BY DEF Finish, At
<1>2. OnlyIn({"pc"}) /\ host'.pc = "artifacts"
  BY <1>1, GoToIs DEF PiInv
<1>3. Locals(host') /\ \A x \in Fields \ {"pc"} : host'[x] = host[x]
  BY <1>2 DEF OnlyIn
<1>4. /\ host'.code = host.code /\ host'.rows = host.rows /\ host'.policy = host.policy
      /\ host'.events = host.events /\ host'.gate = host.gate /\ host'.refs = host.refs
      /\ SameRun(host, host')
  BY <1>3 DEF Fields, SameRun
<1>5. Honest(host', exits')
  BY <1>1, <1>2, <1>4 DEF PiInv, Honest, SameRun
<1>6. Onward(host.pc, host'.pc)
  BY <1>1, <1>2 DEF Onward, Opening, Unfinished, Late, Closed
<1>7. PICK fact : /\ HostFact(fact) /\ fact.type = "EPISODE_FINISHED"
                  /\ fact.terminal = Declared(host)
  BY FinishFact
<1>8. Extension(log, log', fact)
  BY <1>7, EmitExtends DEF HostFact, PiInv, ProxyInv
<1>9. Ended'
  <2>1. /\ Len(log) \in Nat /\ DOMAIN log = 1..Len(log) /\ DOMAIN log' = 1..(Len(log) + 1)
        /\ \A i \in DOMAIN log : log'[i] = log[i]
        /\ log'[Len(log) + 1].terminal = Declared(host)
    BY <1>7, <1>8 DEF Extension, FactFields
  <2>2. \A i \in DOMAIN log : log[i].type # "EPISODE_FINISHED"
    BY <1>1 DEF PiInv, Ended, Unfinished, Has
  <2>3. \A i \in DOMAIN log' : log'[i].type = "EPISODE_FINISHED" => i = Len(log) + 1
    BY <2>1, <2>2
  <2>4. Declared(host') = Declared(host)
    BY <1>4, DeclaredSame
  <2> QED
    BY <1>2, <2>1, <2>3, <2>4 DEF Ended, OneEnd, Unfinished
<1>10. Reading'
  BY <1>1, <1>4, <1>6, ReadingMove DEF PiInv
<1>11. Gated' /\ TrainedIsWhole'
  BY <1>1, <1>4, GateMove DEF PiInv
<1>12. Conversation'
  BY <1>1, ConversationIdle DEF PiInv
<1>13. files' \subseteq JsonFiles
  BY <1>1 DEF PiInv
<1> QED
  BY <1>3, <1>5, <1>9, <1>10, <1>11, <1>12, <1>13 DEF PiInv

LEMMA ArtifactTraced ==
    ASSUME NEW p, p = PolicyArtifact(host.rows), p.traces # <<>>
    PROVE  /\ p.training = TrainingSequence(host.rows)
           /\ host.verifier \in {"PASSED", "FAILED"}
           /\ \A i \in DOMAIN p.traces : p.traces[i].reward = ScoreIn(host)
<1>1. PICK t : t = PolicyTraces(host.rows)
  OBVIOUS
<1>2. p.traces = t /\ p.training = IF t # <<>> THEN TrainingSequence(host.rows) ELSE None
  BY <1>1 DEF PolicyArtifact
<1>3. ValidRun /\ t = [i \in DOMAIN host.rows |-> [call |-> host.rows[i].call, reward |-> Score]]
  BY <1>1, <1>2 DEF PolicyTraces
<1>4. Verdict = VerdictIn(host) /\ Score = ScoreIn(host)
  BY DEF Verdict, VerdictIn, Score, ScoreIn
<1>5. host.verifier \in {"PASSED", "FAILED"}
  BY <1>3 DEF ValidRun, Verdict
<1>6. \A i \in DOMAIN t : t[i].reward = Score
  BY <1>3
<1> QED
  BY <1>2, <1>4, <1>5, <1>6

LEMMA WriteArtifactsKept ==
    ASSUME PiInv, ProxyInv', WriteArtifacts
    PROVE  PiInv'
<1>1. OnlyIn({"pc", "policy"}) /\ host'.pc = "pinned" /\ host'.policy = PolicyArtifact(host.rows)
  BY WriteArtifactsIs DEF PiInv
<1>2. /\ host.pc = "artifacts" /\ UNCHANGED <<proxyVars, prompt, heard, final, exits>>
      /\ files' = files \cup {"producer-artifact", "policy-artifact"}
  BY DEF WriteArtifacts, At
<1>3. Locals(host') /\ \A x \in Fields \ {"pc", "policy"} : host'[x] = host[x]
  BY <1>1 DEF OnlyIn
<1>4. /\ host'.code = host.code /\ host'.gate = host.gate /\ host'.rows = host.rows
      /\ SameRun(host, host')
  BY <1>3 DEF Fields, SameRun
<1>5. Honest(host', exits')
  BY <1>1, <1>2, <1>4 DEF PiInv, Honest, SameRun
<1>6. UNCHANGED <<evidence, call, prompt, heard, log>>
  BY <1>2 DEF proxyVars
<1>7. Ended'
  <2>1. Continues(log, log')
    BY <1>6 DEF Continues
  <2> QED
    BY <1>1, <1>4, <2>1, EndedMove DEF PiInv, Unfinished
<1>8. Reading'
  <2>1. final' = None
    BY <1>2 DEF PiInv, Reading
  <2>2. PrefixOf(host'.rows, evidence')
    BY <1>4, <1>6 DEF PiInv, Reading
  <2>3. Traced(host')
    <3>1. host'.policy.traces # <<>> =>
            /\ host'.policy.training = TrainingSequence(host.rows)
            /\ host.verifier \in {"PASSED", "FAILED"}
            /\ \A i \in DOMAIN host'.policy.traces : host'.policy.traces[i].reward = ScoreIn(host)
      BY <1>1, ArtifactTraced
    <3>2. ScoreIn(host') = ScoreIn(host) /\ host'.verifier = host.verifier
      BY <1>4, DeclaredSame DEF SameRun
    <3> QED
      BY <1>4, <3>1, <3>2 DEF Traced
  <2> QED
    BY <1>1, <2>1, <2>2, <2>3 DEF Reading
<1>9. Gated' /\ TrainedIsWhole'
  BY <1>2, <1>4, GateMove DEF PiInv
<1>10. Conversation'
  BY <1>6, ConversationIdle DEF PiInv
<1>11. files' \subseteq JsonFiles
  BY <1>2 DEF PiInv, JsonFiles
<1> QED
  BY <1>3, <1>5, <1>7, <1>8, <1>9, <1>10, <1>11 DEF PiInv

(* The log that is read: its responses have evidence, and the requests of  *)
(* the rows read before are in it.                                         *)
LEMMA LogSnapshot ==
    ASSUME PiInv
    PROVE  Snapshot(log, host, evidence)
<1>1. Numbered(log) /\ CallsRecorded
  BY DEF PiInv, ProxyInv
<1>2. OneEnd(log, host)
  BY DEF PiInv, Ended
<1>3. Backed(log, evidence)
  BY <1>1 DEF Backed, CallsRecorded
<1>4. ASSUME NEW c \in Calls, EvidenceFor(host.rows, c)
      PROVE  Recorded(log, "MODEL_REQUEST", c)
  <2>1. PICK j \in DOMAIN host.rows : host.rows[j].call = c
    BY <1>4 DEF EvidenceFor
  <2>2. /\ host.rows \in Seq([call : Calls, answer : Answers])
        /\ Len(host.rows) <= Len(evidence)
        /\ \A i \in 1..Len(host.rows) : host.rows[i] = evidence[i]
    BY DEF PiInv, Reading, PrefixOf
  <2>3. evidence \in Seq([call : Calls, answer : Answers])
    BY DEF PiInv, ProxyInv
  <2>4. /\ Len(host.rows) \in Nat /\ DOMAIN host.rows = 1..Len(host.rows)
        /\ Len(evidence) \in Nat /\ DOMAIN evidence = 1..Len(evidence)
    BY <2>2, <2>3
  <2>5. j \in DOMAIN evidence /\ evidence[j].call = c
    BY <2>1, <2>2, <2>4
  <2>6. call[c].pc \in Settled
    BY <2>5 DEF PiInv, Conversation, RowsTrue
  <2> QED
    BY <1>1, <2>6 DEF CallsRecorded, Settled, OnRecord
<1> QED
  BY <1>1, <1>2, <1>3, <1>4 DEF Snapshot

LEMMA ReadEventsKept ==
    ASSUME PiInv, ProxyInv', ReadEvents
    PROVE  PiInv'
<1>1. OnlyIn({"pc", "events"}) /\ host'.pc = "finalize" /\ host'.events = log
  BY ReadEventsIs DEF PiInv
<1>2. host.pc = "read events" /\ UNCHANGED <<proxyVars, prompt, heard, files, final, exits>>
  BY DEF ReadEvents, At
<1>3. Locals(host') /\ \A x \in Fields \ {"pc", "events"} : host'[x] = host[x]
  BY <1>1 DEF OnlyIn
<1>4. /\ host'.code = host.code /\ host'.gate = host.gate /\ host'.rows = host.rows
      /\ host'.policy = host.policy /\ SameRun(host, host')
  BY <1>3 DEF Fields, SameRun
<1>5. Honest(host', exits')
  BY <1>1, <1>2, <1>4 DEF PiInv, Honest, SameRun
<1>6. UNCHANGED <<evidence, call, prompt, heard, log>>
  BY <1>2 DEF proxyVars
<1>7. Ended'
  <2>1. Continues(log, log')
    BY <1>6 DEF Continues
  <2> QED
    BY <1>1, <1>4, <2>1, EndedMove DEF PiInv, Unfinished
<1>8. Reading'
  <2>1. final' = None
    BY <1>2 DEF PiInv, Reading
  <2>2. PrefixOf(host'.rows, evidence')
    BY <1>4, <1>6 DEF PiInv, Reading
  <2>3. Traced(host')
    <3>1. Traced(host)
      BY <1>2 DEF PiInv, Reading, Late
    <3> QED
      BY <1>4, <3>1, DeclaredSame DEF Traced, SameRun
  <2>4. Snapshot(host'.events, host', evidence')
    BY <1>1, <1>4, <1>6, LogSnapshot, SnapshotSame
  <2> QED
    BY <2>1, <2>2, <2>3, <2>4 DEF Reading
<1>9. Gated' /\ TrainedIsWhole'
  BY <1>2, <1>4, GateMove DEF PiInv
<1>10. Conversation'
  BY <1>6, ConversationIdle DEF PiInv
<1>11. files' \subseteq JsonFiles
  BY <1>2 DEF PiInv
<1> QED
  BY <1>3, <1>5, <1>7, <1>8, <1>9, <1>10, <1>11 DEF PiInv

LEMMA FinalizeKept ==
    ASSUME PiInv, ProxyInv', Finalize
    PROVE  PiInv'
<1>1. host.pc = "finalize" /\ UNCHANGED <<proxyVars, prompt, heard, files, exits>>
  BY DEF Finalize, At
<1>2. \/ GoTo("raised") /\ final' = final
      \/ GoTo("write") /\ final'.episode = Assemble(host.events, host.refs)
  <2>1. \/ GoTo("raised") /\ final' = final
        \/ \E a, s, r : /\ GoTo("write")
                        /\ final' = ExecutionBundle(Identity, Assemble(host.events, host.refs), a, s, r)
    BY Zenon DEF Finalize
  <2>2. ASSUME NEW ep, NEW a, NEW s, NEW r
        PROVE  ExecutionBundle(Identity, ep, a, s, r).episode = ep
    BY DEF ExecutionBundle
  <2> QED
    BY <2>1, <2>2
<1>3. PICK p \in {"raised", "write"} : GoTo(p)
  BY <1>2
<1>4. OnlyIn({"pc"}) /\ host'.pc = p
  BY <1>3, GoToIs DEF PiInv
<1>5. Locals(host') /\ \A x \in Fields \ {"pc"} : host'[x] = host[x]
  BY <1>4 DEF OnlyIn
<1>6. /\ host'.code = host.code /\ host'.rows = host.rows /\ host'.policy = host.policy
      /\ host'.events = host.events /\ host'.gate = host.gate /\ host'.refs = host.refs
      /\ SameRun(host, host')
  BY <1>5 DEF Fields, SameRun
<1>7. Honest(host', exits')
  BY <1>1, <1>4, <1>6 DEF PiInv, Honest, SameRun
<1>8. UNCHANGED <<evidence, call, prompt, heard, log>>
  BY <1>1 DEF proxyVars
<1>9. Ended'
  <2>1. Continues(log, log')
    BY <1>8 DEF Continues
  <2> QED
    BY <1>4, <1>6, <2>1, EndedMove DEF PiInv, Unfinished
<1>10. Reading'
  <2>1. final = None
    BY <1>1 DEF PiInv, Reading
  <2>2. PrefixOf(host'.rows, evidence')
    BY <1>6, <1>8 DEF PiInv, Reading
  <2>3. Traced(host')
    <3>1. Traced(host)
      BY <1>1 DEF PiInv, Reading, Late
    <3> QED
      BY <1>6, <3>1, DeclaredSame DEF Traced, SameRun
  <2>4. Snapshot(host'.events, host', evidence')
    <3>1. Snapshot(host.events, host, evidence)
      BY <1>1 DEF PiInv, Reading
    <3> QED
      BY <1>6, <1>8, <3>1, SnapshotSame
  <2>5. final' # None => final'.episode = Assemble(host'.events, host'.refs)
    BY <1>2, <1>6, <2>1
  <2> QED
    BY <1>4, <2>2, <2>3, <2>4, <2>5 DEF Reading, Late
<1>11. Gated' /\ TrainedIsWhole'
  BY <1>1, <1>6, GateMove DEF PiInv
<1>12. Conversation'
  BY <1>8, ConversationIdle DEF PiInv
<1>13. files' \subseteq JsonFiles
  BY <1>1 DEF PiInv
<1> QED
  BY <1>5, <1>7, <1>9, <1>10, <1>11, <1>12, <1>13 DEF PiInv

-----------------------------------------------------------------------------
(* The serving threads and Pi, beside run().                               *)

LEMMA EvidenceGrows ==
    ASSUME NEW V, NEW W, NEW v, V \in Seq([call : Calls, answer : Answers]),
           v \in [call : Calls, answer : Answers], W = V \/ W = Append(V, v)
    PROVE  /\ \A c : EvidenceFor(V, c) => EvidenceFor(W, c)
           /\ \A U : PrefixOf(U, V) => PrefixOf(U, W)
<1>1. CASE W = V
  BY <1>1
<1>2. CASE W = Append(V, v)
  <2>1. /\ Len(V) \in Nat /\ DOMAIN V = 1..Len(V)
        /\ Len(W) = Len(V) + 1 /\ DOMAIN W = 1..(Len(V) + 1)
        /\ \A i \in 1..Len(V) : W[i] = V[i]
    BY <1>2
  <2>2. \A c : EvidenceFor(V, c) => EvidenceFor(W, c)
    BY <2>1 DEF EvidenceFor
  <2>3. ASSUME NEW U, PrefixOf(U, V) PROVE PrefixOf(U, W)
    <3>1. U \in Seq([call : Calls, answer : Answers]) /\ Len(U) <= Len(V)
          /\ \A i \in 1..Len(U) : U[i] = V[i]
      BY <2>3 DEF PrefixOf
    <3>2. Len(U) \in Nat
      BY <3>1
    <3>3. Len(U) <= Len(W) /\ \A i \in 1..Len(U) : U[i] = W[i]
      BY <2>1, <3>1, <3>2
    <3> QED
      BY <3>1, <3>3 DEF PrefixOf
  <2> QED
    BY <2>2, <2>3
<1> QED
  BY <1>1, <1>2

(* What a step beside run() leaves of the state that run() relies on: the  *)
(* answers and prompts of the calls with evidence, and every row.          *)
Beside ==
    /\ UNCHANGED <<host, files, final, exits>>
    /\ Continues(log, log')
    /\ \A c : EvidenceFor(evidence, c) => EvidenceFor(evidence', c)
    /\ \A U : PrefixOf(U, evidence) => PrefixOf(U, evidence')
    /\ \A c \in Calls : call[c].pc \in Settled =>
          call'[c].answer = call[c].answer /\ prompt'[c] = prompt[c]

LEMMA CallsBeside ==
    ASSUME ProxyInv, Conversation, NEW c \in Calls, PiCalls(c)
    PROVE  Beside
<1>1. /\ call[c].pc = "new" /\ MoveTo(c, "posted") /\ UNCHANGED <<log, evidence, host, files, final, exits>>
      /\ prompt' = [prompt EXCEPT ![c] = heard]
  BY DEF PiCalls, PostCall
<1>2. \A d \in Calls : d # c => call'[d] = call[d]
  BY <1>1, Moved DEF ProxyInv, CallStates
<1>3. \A d \in Calls : d # c => prompt'[d] = prompt[d]
  BY <1>1 DEF Conversation
<1> QED
  BY <1>1, <1>2, <1>3 DEF Beside, Continues, Settled

LEMMA HearsBeside ==
    ASSUME NEW c \in Calls, PiHears(c)
    PROVE  Beside
<1>1. UNCHANGED <<log, evidence, call, prompt, host, files, final, exits>>
  BY DEF PiHears, proxyVars
<1> QED
  BY <1>1 DEF Beside, Continues

LEMMA ServeBeside ==
    ASSUME ProxyInv, NEW c \in Calls, Serve(c)
    PROVE  Beside
<1>1. ServeCall(c) /\ UNCHANGED <<host, files, final, exits, prompt>>
  BY DEF Serve, hostVars
<1>2. /\ \A d \in Calls : call[d].pc \in Settled => call'[d].answer = call[d].answer
      /\ \/ evidence' = evidence
         \/ /\ call[c].answer \in Answers
            /\ evidence' = Append(evidence, [call |-> c, answer |-> call[c].answer])
      /\ \/ log' = log
         \/ \E fact : /\ Extension(log, log', fact)
                      /\ fact.type \in {"MODEL_REQUEST", "MODEL_RESPONSE"}
  BY <1>1, ServeEffect
<1>3. Continues(log, log')
  BY <1>2 DEF Continues
<1>4. /\ \A d : EvidenceFor(evidence, d) => EvidenceFor(evidence', d)
      /\ \A U : PrefixOf(U, evidence) => PrefixOf(U, evidence')
  <2>1. CASE evidence' = evidence
    BY <2>1
  <2>2. CASE evidence' # evidence
    <3>1. PICK v : v = [call |-> c, answer |-> call[c].answer]
      OBVIOUS
    <3>2. v \in [call : Calls, answer : Answers] /\ evidence' = Append(evidence, v)
      BY <1>2, <2>2, <3>1
    <3>3. evidence \in Seq([call : Calls, answer : Answers])
      BY DEF ProxyInv
    <3> QED
      BY <3>2, <3>3, EvidenceGrows
  <2> QED
    BY <2>1, <2>2
<1> QED
  BY <1>1, <1>2, <1>3, <1>4 DEF Beside

LEMMA BesideKept ==
    ASSUME PiInv, ProxyInv', Conversation', Beside
    PROVE  PiInv'
<1>1. UNCHANGED <<host, files, final, exits>>
  BY DEF Beside
<1>2. Locals(host') /\ files' \subseteq JsonFiles /\ Honest(host', exits')
  BY <1>1 DEF PiInv
<1>3. Ended'
  <2>1. SameRun(host, host')
    BY <1>1 DEF SameRun
  <2> QED
    BY <1>1, <2>1, EndedMove DEF PiInv, Beside
<1>4. Reading'
  <2>1. \A L : Snapshot(L, host, evidence) => Snapshot(L, host, evidence')
    BY BackedGrows DEF Beside, Snapshot
  <2>2. PrefixOf(host.rows, evidence')
    BY DEF PiInv, Reading, Beside
  <2> QED
    BY <1>1, <2>1, <2>2 DEF PiInv, Reading
<1>5. Gated'
  BY <1>1 DEF PiInv, Gated, Beside
<1>6. TrainedIsWhole'
  <2>1. SUFFICES ASSUME host.gate = TRUE
                 PROVE  \A i \in DOMAIN host.policy.training :
                          LET c == host.policy.training[i] IN
                          call'[c].answer = call[c].answer /\ prompt'[c] = prompt[c]
    BY <1>1 DEF PiInv, TrainedIsWhole
  <2> TAKE i \in DOMAIN host.policy.training
  <2>2. PICK c : c = host.policy.training[i]
    OBVIOUS
  <2>3. c \in Calls /\ EvidenceFor(evidence, c)
    BY <2>1, <2>2 DEF PiInv, Gated
  <2>4. call[c].pc \in Settled
    BY <2>3 DEF EvidenceFor, PiInv, Conversation, RowsTrue
  <2> QED
    BY <2>2, <2>3, <2>4 DEF Beside
<1> QED
  BY <1>2, <1>3, <1>4, <1>5, <1>6 DEF PiInv

-----------------------------------------------------------------------------
(* The gate.                                                               *)

LEMMA Least ==
    ASSUME NEW T, T \subseteq Nat, T # {}
    PROVE  \E n \in T : \A m \in T : ~(m < n)
<1> DEFINE R == OpToRel(<, Nat)
<1>1. \A x, y \in Nat : x < y => <<x, y>> \in R
  BY DEF OpToRel
<1>2. IsWellFoundedOn(R, Nat)
  BY NatLessThanWellFounded
<1> HIDE DEF R
<1>3. PICK n \in T : \A m \in T : ~(<<m, n>> \in R)
  BY <1>2, WFMin
<1> QED
  BY <1>1, <1>3

(* q continues p with the answer c.                                        *)
LEMMA ContinuedPrompt ==
    ASSUME NEW p \in Seq(Calls), NEW q \in Seq(Calls), NEW c \in Calls,
           Len(Append(p, c)) <= Len(q), SubSeq(q, 1, Len(Append(p, c))) = Append(p, c)
    PROVE  /\ Len(p) + 1 <= Len(q) /\ q[Len(p) + 1] = c
           /\ \A k \in 1..Len(p) : q[k] = p[k]
<1>1. /\ Len(p) \in Nat /\ Len(q) \in Nat /\ Append(p, c) \in Seq(Calls)
      /\ Len(Append(p, c)) = Len(p) + 1 /\ Append(p, c)[Len(p) + 1] = c
      /\ \A k \in 1..Len(p) : Append(p, c)[k] = p[k]
  OBVIOUS
<1>2. PICK s \in Seq(Calls) : s = Append(p, c)
  BY <1>1
<1>3. PICK n \in Nat : n = Len(p) + 1
  BY <1>1
<1>4. n <= Len(q) /\ SubSeq(q, 1, n) = s
  BY <1>1, <1>2, <1>3
<1>5. \A k \in 1..n : SubSeq(q, 1, n)[k] = q[k]
  BY <1>1, <1>4
<1>6. s[n] = c /\ \A k \in 1..Len(p) : s[k] = p[k]
  BY <1>1, <1>2, <1>3
<1>7. \A k \in 1..n : q[k] = s[k]
  BY <1>4, <1>5
<1>8. n \in 1..n /\ \A k \in 1..Len(p) : k \in 1..n
  BY <1>1, <1>3
<1> QED
  BY <1>3, <1>4, <1>6, <1>7, <1>8

(* The prompt p repeats exactly the first n turns of the rows.             *)
Repeats(p, V, n) == Len(p) = n /\ \A k \in 1..n : p[k] = V[k].call

(* A contiguous history whose prompts repeat only what is on record before *)
(* them repeats all of it.                                                 *)
LEMMA WholePrompts ==
    ASSUME NEW V, NEW cs, V \in Seq([call : Calls, answer : Answers]), Contiguous(V),
           \A c \in Calls : Turns(prompt[c], cs), InOrder(V, prompt)
    PROVE  \A i \in 1..Len(V) : Repeats(prompt[V[i].call], V, i - 1)
<1>1. Len(V) \in Nat /\ DOMAIN V = 1..Len(V)
  OBVIOUS
<1>2. \A i \in 1..Len(V) : V[i].call \in Calls
  <2>1. PICK S : S = [call : Calls, answer : Answers]
    OBVIOUS
  <2>2. V \in Seq(S)
    BY <2>1
  <2>3. \A i \in 1..Len(V) : V[i] \in S
    BY <2>2
  <2> QED
    BY <2>1, <2>3
<1>3. \A c \in Calls : /\ prompt[c] \in Seq(Calls)
                       /\ Len(prompt[c]) \in Nat /\ DOMAIN prompt[c] = 1..Len(prompt[c])
  BY DEF Turns
<1> DEFINE T == {i \in 1..Len(V) : ~Repeats(prompt[V[i].call], V, i - 1)}
<1> SUFFICES ASSUME T # {} PROVE FALSE
  OBVIOUS
<1>4. PICK m \in T : \A i \in T : ~(i < m)
  <2>1. T \subseteq Nat
    BY <1>1
  <2> QED
    BY <2>1, Least
<1>5. m \in 1..Len(V) /\ ~Repeats(prompt[V[m].call], V, m - 1)
  OBVIOUS
<1>6. \A i \in 1..Len(V) : i < m => Repeats(prompt[V[i].call], V, i - 1)
  BY <1>4
<1> HIDE DEF T
<1>7. PICK q : q = prompt[V[m].call]
  OBVIOUS
<1>8. /\ q \in Seq(Calls) /\ Len(q) \in Nat /\ DOMAIN q = 1..Len(q)
      /\ \A k, l \in DOMAIN q : q[k] = q[l] => k = l
      /\ \A k \in DOMAIN q : \E i \in 1..(m - 1) : V[i].call = q[k]
  <2>1. Turns(q, cs)
    BY <1>2, <1>5, <1>7
  <2>2. \A k \in DOMAIN q : \E i \in 1..(m - 1) : V[i].call = q[k]
    BY <1>1, <1>5, <1>7 DEF InOrder
  <2> QED
    BY <2>1, <2>2 DEF Turns
<1>9. CASE m = 1
  <2>1. DOMAIN q = {}
    BY <1>8, <1>9
  <2>2. Len(q) = 0
    BY <1>8, <2>1
  <2> QED
    BY <1>5, <1>7, <1>9, <2>2 DEF Repeats
<1>10. CASE m # 1
  <2>1. PICK n \in 1..(Len(V) - 1) : n + 1 = m
    BY <1>1, <1>5, <1>10
  <2>2. PICK p : p = prompt[V[n].call]
    OBVIOUS
  <2>3. n \in 1..Len(V) /\ n < m
    BY <1>1, <2>1
  <2>4. p \in Seq(Calls) /\ Len(p) = n - 1 /\ \A k \in 1..(n - 1) : p[k] = V[k].call
    BY <1>2, <1>3, <1>6, <2>2, <2>3 DEF Repeats
  <2>5. /\ Len(Append(p, V[n].call)) <= Len(q)
        /\ SubSeq(q, 1, Len(Append(p, V[n].call))) = Append(p, V[n].call)
    BY <1>7, <2>1, <2>2 DEF Contiguous
  <2>6. /\ Len(p) + 1 <= Len(q) /\ q[Len(p) + 1] = V[n].call
        /\ \A k \in 1..Len(p) : q[k] = p[k]
    BY <1>2, <1>8, <2>3, <2>4, <2>5, ContinuedPrompt
  <2>7. n <= Len(q) /\ \A k \in 1..n : q[k] = V[k].call
    BY <2>3, <2>4, <2>6
  <2>8. Len(q) = n
    <3> SUFFICES ASSUME Len(q) # n PROVE FALSE
      OBVIOUS
    <3>0. n \in Nat
      BY <1>1, <2>3
    <3>l. Len(q) \in Nat /\ n <= Len(q)
      BY <1>8, <2>7
    <3>1. n + 1 \in DOMAIN q
      <4>1. n + 1 \in 1..Len(q)
        BY <3>0, <3>l
      <4> QED
        BY <1>8, <4>1
    <3>2. PICK i \in 1..(m - 1) : V[i].call = q[n + 1]
      BY <1>8, <3>1
    <3>3. i \in 1..n /\ i \in DOMAIN q
      <4>1. i \in 1..n /\ i \in 1..Len(q)
        BY <2>1, <3>0, <3>l
      <4> QED
        BY <1>8, <4>1
    <3>4. q[i] = q[n + 1]
      BY <2>7, <3>2, <3>3
    <3>5. i = n + 1
      BY <1>8, <3>1, <3>3, <3>4
    <3> QED
      BY <3>0, <3>3, <3>5
  <2>9. Repeats(q, V, m - 1)
    BY <2>1, <2>7, <2>8 DEF Repeats
  <2> QED
    BY <1>5, <1>7, <2>9
<1> QED
  BY <1>9, <1>10

(* As the property has it.                                                 *)
LEMMA RepeatsIs ==
    ASSUME NEW V, V \in Seq([call : Calls, answer : Answers]), NEW i \in 1..Len(V),
           NEW p \in Seq(Calls), Repeats(p, V, i - 1), NEW t, t = TrainingSequence(V)
    PROVE  p = SubSeq(t, 1, i - 1)
<1>1. Len(V) \in Nat /\ DOMAIN V = 1..Len(V)
  OBVIOUS
<1>2. \A k \in 1..Len(V) : V[k].call \in Calls
  <2>1. PICK S : S = [call : Calls, answer : Answers]
    OBVIOUS
  <2>2. V \in Seq(S)
    BY <2>1
  <2>3. \A k \in 1..Len(V) : V[k] \in S
    BY <2>2
  <2> QED
    BY <2>1, <2>3
<1>3. t = [k \in 1..Len(V) |-> V[k].call]
  BY <1>1 DEF TrainingSequence
<1>4. t \in Seq(Calls) /\ Len(t) = Len(V) /\ \A k \in 1..Len(V) : t[k] = V[k].call
  BY <1>1, <1>2, <1>3
<1>5. PICK n \in Nat : n = i - 1
  BY <1>1
<1>6. n <= Len(V) /\ Len(p) = n /\ \A k \in 1..n : p[k] = t[k]
  BY <1>1, <1>4, <1>5 DEF Repeats
<1>7. /\ SubSeq(t, 1, n) \in Seq(Calls) /\ Len(SubSeq(t, 1, n)) = n
      /\ \A k \in 1..n : SubSeq(t, 1, n)[k] = t[k]
  BY <1>1, <1>4, <1>6
<1>8. p = SubSeq(t, 1, n)
  BY <1>6, <1>7
<1> QED
  BY <1>5, <1>8

(* An outcome that is valid is the one the locals declare.                 *)
LEMMA ValidOutcome ==
    ASSUME NEW L, NEW h, NEW V, Snapshot(L, h, V), NEW R, NEW ep, ep = Assemble(L, R),
           ep.outcome.validity = "VALID"
    PROVE  /\ h.harness = "COMPLETED" /\ h.verifier \in {"PASSED", "FAILED"}
           /\ ep.outcome.verifier = "PASSED" => h.verifier = "PASSED"
<1>1. PICK E : E = Accepted(L)
  OBVIOUS
<1>2. ep.outcome = DeriveTerminal(E)
  BY <1>1, AssembledIs
<1>3. OfType(E, "EPISODE_FINISHED") # {}
  <2> SUFFICES ASSUME OfType(E, "EPISODE_FINISHED") = {} PROVE FALSE
    OBVIOUS
  <2>1. DeriveTerminal(E).validity = "UNKNOWN"
    BY DEF DeriveTerminal
  <2> QED
    BY <1>2, <2>1
<1>4. Numbered(L) /\ OneEnd(L, h)
  BY DEF Snapshot
<1>5. PICK k \in DOMAIN L : L[k].type = "EPISODE_FINISHED"
  BY <1>1, <1>3, <1>4, AcceptedIsLog DEF OfType
<1>6. OfType(E, "EPISODE_FINISHED") = {L[k]} /\ L[k].terminal = Declared(h)
  BY <1>1, <1>4, <1>5, SingleEvent DEF OneEnd
<1>7. PICK d : d = Declared(h)
  OBVIOUS
<1>8. /\ DeriveTerminal(E).validity = d.validity
      /\ DeriveTerminal(E).verifier = d.verifier
  <2>1. Latest({L[k]}) = L[k]
    BY LatestOfOne
  <2>2. PICK e : e = L[k]
    OBVIOUS
  <2>3. OfType(E, "EPISODE_FINISHED") = {e} /\ Latest({e}) = e /\ e.terminal = d
    BY <1>6, <1>7, <2>1, <2>2
  <2>4. {e} # {}
    OBVIOUS
  <2> QED
    BY <2>3, <2>4 DEF DeriveTerminal
<1>9. /\ d.verifier = VerdictIn(h)
      /\ d.validity = IF ValidIn(h) THEN "VALID" ELSE "INFRA_INVALID"
  BY <1>7 DEF Declared
<1>10. ValidIn(h)
  BY <1>2, <1>8, <1>9
<1> QED
  BY <1>2, <1>8, <1>9, <1>10 DEF ValidIn, VerdictIn

(* A certified episode has a response for every request.                   *)
LEMMA CertifiedIsClosed ==
    ASSUME NEW L, NEW R, Numbered(L), NEW ep, ep = Assemble(L, R),
           CertifyEpisode(ep) = "CERTIFIED", NEW c,
           Recorded(L, "MODEL_REQUEST", c)
    PROVE  Recorded(L, "MODEL_RESPONSE", c)
<1>1. PICK E : E = Accepted(L)
  OBVIOUS
<1>2. ep.integrity = IntegrityState(L, R)
  BY AssembledIs
<1>3. ep.integrity \notin {"CORRUPT", "PARTIAL"}
  BY DEF CertifyEpisode
<1>4. IntegrityState(L, R) \in {"CORRUPT", "PARTIAL", "COMPLETE"}
  BY DEF IntegrityState
<1>5. MissingExpectedTypes(E) = {}
  BY <1>1, <1>2, <1>3, <1>4 DEF IntegrityState
<1>6. OfType(E, "EPISODE_FINISHED") # {}
  BY <1>5 DEF MissingExpectedTypes
<1>7. Unclosed(L, "MODEL_REQUEST", "MODEL_RESPONSE") = {}
  BY <1>1, <1>5, <1>6, MissingTypes
<1>8. PICK s : s = CallSpan(c)
  OBVIOUS
<1>9. s \in Spans(OfType(E, "MODEL_REQUEST"))
  BY <1>1, <1>8, SpansOfType DEF Recorded
<1>10. s \in Spans(OfType(E, "MODEL_RESPONSE"))
  BY <1>1, <1>7, <1>9 DEF Unclosed
<1> QED
  BY <1>1, <1>8, <1>10, SpansOfType DEF Recorded

LEMMA EligibleIs ==
    ASSUME NEW ep, NEW id, NEW b, NEW a, NEW t,
           CertifyFor("ON_POLICY_RL", ep, id, b, a, t) = "ELIGIBLE"
    PROVE  b # None /\ CertifyEpisode(ep) = "CERTIFIED" /\ a.traces # <<>>
<1>1. CertifyBundleForRl("ON_POLICY_RL", ep, id, b, a, t) = "ELIGIBLE"
  BY DEF CertifyFor
<1>2. b # None /\ a # None
  BY <1>1 DEF CertifyBundleForRl
<1>3. CertifyEpisode(ep) = "CERTIFIED"
  BY <1>1, <1>2 DEF CertifyBundleForRl
<1>4. ~EvidenceMissing("ON_POLICY_RL", b, a, t)
  BY <1>1, <1>2 DEF CertifyBundleForRl
<1>5. ArtifactHasRewards(a)
  BY <1>4 DEF EvidenceMissing
<1> QED
  BY <1>2, <1>3, <1>5 DEF ArtifactHasRewards

(* What the gate lets through is whole.                                    *)
Whole(t, traces) ==
    /\ CallSpan(Head(t)) \in Spans(OfType(final.episode.events, "MODEL_RESPONSE"))
    /\ \A c \in Calls :
         CallSpan(c) \in Spans(OfType(final.episode.events, "MODEL_REQUEST"))
           => \E i \in DOMAIN t : t[i] = c
    /\ \A i \in DOMAIN t : /\ call[t[i]].answer = "native"
                           /\ prompt[t[i]] = SubSeq(t, 1, i - 1)
    /\ \A i \in DOMAIN traces : traces[i].reward = IF exits.verifier = TRUE THEN 1 ELSE 0

LEMMA AcceptedIsWhole ==
    ASSUME PiInv, host.pc = "gate", GateAccepts
    PROVE  /\ Whole(host.policy.training, host.policy.traces)
           /\ \A i \in DOMAIN host.policy.training :
                host.policy.training[i] \in Calls /\ EvidenceFor(evidence, host.policy.training[i])
<1>1. /\ final # None /\ CertifyEpisode(final.episode) = "CERTIFIED"
      /\ host.policy.traces # <<>>
  BY EligibleIs DEF GateAccepts, OnPolicyVerdict
<1>2. PICK t : t = host.policy.training
  OBVIOUS
<1>3. /\ AllModelCallsUsable(evidence) /\ Contiguous(evidence) /\ t = TrainingSequence(evidence)
  BY <1>2 DEF GateAccepts
<1>4. evidence \in Seq([call : Calls, answer : Answers])
  BY DEF PiInv, ProxyInv
<1>5. Len(evidence) \in Nat /\ DOMAIN evidence = 1..Len(evidence) /\ Len(evidence) # 0
  <2>1. evidence # <<>>
    BY <1>3 DEF AllModelCallsUsable
  <2> QED
    BY <1>4, <2>1
<1>6. /\ DOMAIN t = 1..Len(evidence) /\ \A i \in 1..Len(evidence) : t[i] = evidence[i].call
  BY <1>3, <1>5 DEF TrainingSequence
<1>7. \A i \in 1..Len(evidence) : evidence[i].call \in Calls
  <2>1. \A i \in DOMAIN evidence : evidence[i] \in [call : Calls, answer : Answers]
    BY DEF PiInv, ProxyInv, ProxyTypeOK
  <2> QED
    BY <1>5, <2>1
<1>8. Conversation /\ Snapshot(host.events, host, evidence)
      /\ final.episode = Assemble(host.events, host.refs)
  BY <1>1 DEF PiInv, Reading
<1>9. PICK L : L = host.events
  OBVIOUS
<1>10. Numbered(L) /\ Backed(L, evidence) /\ final.episode.events = Accepted(L)
  BY <1>8, <1>9, AssembledIs DEF Snapshot
<1>11. \A c : /\ CallSpan(c) \in Spans(OfType(Accepted(L), "MODEL_REQUEST")) <=>
                   Recorded(L, "MODEL_REQUEST", c)
              /\ CallSpan(c) \in Spans(OfType(Accepted(L), "MODEL_RESPONSE")) <=>
                   Recorded(L, "MODEL_RESPONSE", c)
  BY <1>10, SpansOfType DEF Recorded
<1>12. \A c : Recorded(L, "MODEL_REQUEST", c) => Recorded(L, "MODEL_RESPONSE", c)
  BY <1>1, <1>8, <1>9, <1>10, CertifiedIsClosed
<1>13. CallSpan(Head(t)) \in Spans(OfType(final.episode.events, "MODEL_RESPONSE"))
  <2>1. Traced(host) /\ PrefixOf(host.rows, evidence)
    BY DEF PiInv, Reading, Late
  <2>2. t = TrainingSequence(host.rows)
    BY <1>1, <1>2, <2>1 DEF Traced
  <2>3. DOMAIN host.rows = DOMAIN t
    BY <2>2 DEF TrainingSequence
  <2>4. 1 \in DOMAIN host.rows /\ host.rows[1].call = t[1]
    BY <1>5, <1>6, <2>2, <2>3 DEF TrainingSequence
  <2>5. EvidenceFor(host.rows, t[1]) /\ t[1] \in Calls
    BY <1>5, <1>6, <1>7, <2>4 DEF EvidenceFor
  <2>6. Recorded(L, "MODEL_REQUEST", t[1])
    BY <1>8, <1>9, <2>5 DEF Snapshot
  <2>7. Head(t) = t[1]
    BY DEF Head
  <2> QED
    BY <1>10, <1>11, <1>12, <2>6, <2>7
<1>14. ASSUME NEW c \in Calls, CallSpan(c) \in Spans(OfType(final.episode.events, "MODEL_REQUEST"))
       PROVE  \E i \in DOMAIN t : t[i] = c
  <2>1. Recorded(L, "MODEL_RESPONSE", c)
    BY <1>10, <1>11, <1>12, <1>14
  <2>2. PICK i \in DOMAIN evidence : evidence[i].call = c
    BY <1>10, <2>1 DEF Backed, EvidenceFor
  <2> QED
    BY <1>5, <1>6, <2>2
<1>15. ASSUME NEW i \in DOMAIN t
       PROVE  call[t[i]].answer = "native" /\ prompt[t[i]] = SubSeq(t, 1, i - 1)
  <2>1. i \in 1..Len(evidence) /\ t[i] = evidence[i].call /\ t[i] \in Calls
    BY <1>6, <1>7
  <2>2. call[t[i]].answer = "native"
    BY <1>3, <1>5, <1>8, <2>1 DEF Conversation, RowsTrue, AllModelCallsUsable
  <2>3. Repeats(prompt[evidence[i].call], evidence, i - 1)
    BY <1>3, <1>4, <1>8, <2>1, WholePrompts DEF Conversation
  <2>4. prompt[t[i]] \in Seq(Calls)
    BY <1>8, <2>1 DEF Conversation, Turns
  <2>5. prompt[t[i]] = SubSeq(t, 1, i - 1)
    BY <1>3, <1>4, <2>1, <2>3, <2>4, RepeatsIs
  <2> QED
    BY <2>2, <2>5
<1>16. \A i \in DOMAIN host.policy.traces :
         host.policy.traces[i].reward = IF exits.verifier = TRUE THEN 1 ELSE 0
  <2>1. Traced(host) /\ Honest(host, exits)
    BY DEF PiInv, Reading, Late
  <2>2. /\ host.verifier \in {"PASSED", "FAILED"}
        /\ \A i \in DOMAIN host.policy.traces : host.policy.traces[i].reward = ScoreIn(host)
    BY <1>1, <2>1 DEF Traced
  <2>3. VerdictIn(host) = host.verifier
    BY <2>2, PiHostAssumption DEF VerdictIn
  <2>4. ScoreIn(host) = IF host.verifier = "PASSED" THEN 1 ELSE 0
    BY <2>2, <2>3 DEF ScoreIn, VerdictEvent
  <2>5. exits.verifier = TRUE <=> host.verifier = "PASSED"
    BY <2>1, <2>2 DEF Honest
  <2> QED
    BY <2>2, <2>4, <2>5
<1>17. \A i \in DOMAIN t : t[i] \in Calls /\ EvidenceFor(evidence, t[i])
  BY <1>5, <1>6, <1>7 DEF EvidenceFor
<1> QED
  BY <1>2, <1>13, <1>14, <1>15, <1>16, <1>17 DEF Whole

LEMMA GateKept ==
    ASSUME PiInv, ProxyInv', Gate
    PROVE  PiInv'
<1>1. OnlyIn({"pc", "gate"}) /\ host'.pc = "gated" /\ (host'.gate = TRUE => GateAccepts)
  BY GateIs DEF PiInv
<1>2. host.pc = "gate" /\ UNCHANGED <<proxyVars, prompt, heard, files, final, exits>>
  BY DEF Gate, At
<1>3. Locals(host') /\ \A x \in Fields \ {"pc", "gate"} : host'[x] = host[x]
  BY <1>1 DEF OnlyIn
<1>4. /\ host'.code = host.code /\ host'.rows = host.rows /\ host'.policy = host.policy
      /\ host'.events = host.events /\ host'.refs = host.refs
      /\ SameRun(host, host')
  BY <1>3 DEF Fields, SameRun
<1>5. Honest(host', exits')
  BY <1>1, <1>2, <1>4 DEF PiInv, Honest, SameRun
<1>6. UNCHANGED <<evidence, call, prompt, heard, log>>
  BY <1>2 DEF proxyVars
<1>7. Ended'
  <2>1. Continues(log, log')
    BY <1>6 DEF Continues
  <2> QED
    BY <1>1, <1>4, <2>1, EndedMove DEF PiInv, Unfinished
<1>8. Reading'
  <2>1. Onward(host.pc, host'.pc)
    BY <1>1, <1>2 DEF Onward, Opening, Unfinished, Late, Closed
  <2> QED
    BY <1>2, <1>4, <1>6, <2>1, ReadingMove DEF PiInv
<1>9. host'.gate = TRUE =>
        /\ Whole(host.policy.training, host.policy.traces)
        /\ \A i \in DOMAIN host.policy.training :
             host.policy.training[i] \in Calls /\ EvidenceFor(evidence, host.policy.training[i])
  BY <1>1, <1>2, AcceptedIsWhole
<1>10. Gated'
  BY <1>1, <1>4, <1>6, <1>9 DEF Gated
<1>11. TrainedIsWhole'
  BY <1>2, <1>4, <1>6, <1>9 DEF Whole, TrainedIsWhole
<1>12. Conversation'
  BY <1>6, ConversationIdle DEF PiInv
<1>13. files' \subseteq JsonFiles
  BY <1>2 DEF PiInv
<1> QED
  BY <1>3, <1>5, <1>7, <1>8, <1>10, <1>11, <1>12, <1>13 DEF PiInv

-----------------------------------------------------------------------------
(* The theorems.                                                           *)

LEMMA PiInvInit ==
    ASSUME Init
    PROVE  PiInv
<1>1. /\ log = <<>> /\ nextSeq = 0 /\ evidence = <<>> /\ callCount = 0 /\ observed = FALSE
      /\ recordLock = None /\ closeouts = {}
      /\ call = [c \in Calls |-> [pc |-> "new", answer |-> None]]
  BY DEF Init, ProxyInit
<1>2. /\ host.pc = "start" /\ host.harness = None /\ host.verifier = None /\ host.gate = None
      /\ host.rows = <<>> /\ Locals(host)
  BY DEF Init, Locals, Fields
<1>3. /\ prompt = [c \in Calls |-> <<>>] /\ heard = <<>> /\ files = {} /\ final = None
      /\ DOMAIN exits = {"pi", "verifier"}
  BY DEF Init
<1>4. ProxyInv
  BY ProxyStarts DEF Init
<1>5. Honest(host, exits)
  BY <1>2, <1>3, PiHostAssumption DEF Honest
<1>6. Ended
  BY <1>1 DEF Ended, OneEnd, Has
<1>7. Conversation
  <2>1. Turns(<<>>, call)
    BY DEF Turns
  <2> QED
    BY <1>1, <1>3, <2>1 DEF Conversation, RowsTrue, InOrder
<1>8. Reading
  BY <1>1, <1>2, <1>3 DEF Reading, PrefixOf, Late
<1>9. Gated /\ TrainedIsWhole
  BY <1>2, PiHostAssumption DEF Gated, TrainedIsWhole
<1> QED
  BY <1>2, <1>3, <1>4, <1>5, <1>6, <1>7, <1>8, <1>9 DEF PiInv

LEMMA PiInvKept ==
    ASSUME PiInv, [Next]_vars
    PROVE  PiInv'
<1>1. ProxyInv' /\ Conversation'
  BY ProxyKept, ConversationKept DEF PiInv
<1>2. CASE Plain
  BY <1>1, <1>2, PlainKept
<1>3. CASE PiExits \/ PiTimesOut
  BY <1>1, <1>3, PiEndsKept
<1>4. CASE Recording
  BY <1>1, <1>4, RecordingKept
<1>5. CASE ReadRows
  BY <1>1, <1>5, ReadRowsKept
<1>6. CASE Finish
  BY <1>1, <1>6, FinishKept
<1>7. CASE WriteArtifacts
  BY <1>1, <1>7, WriteArtifactsKept
<1>8. CASE ReadEvents
  BY <1>1, <1>8, ReadEventsKept
<1>9. CASE Finalize
  BY <1>1, <1>9, FinalizeKept
<1>10. CASE AssembleSequence
  BY <1>1, <1>10, AssembleSequenceKept
<1>11. CASE Gate
  BY <1>1, <1>11, GateKept
<1>12. CASE \E c \in Calls : PiCalls(c) \/ PiHears(c) \/ Serve(c)
  <2>1. Beside
    BY <1>12, CallsBeside, HearsBeside, ServeBeside DEF PiInv
  <2> QED
    BY <1>1, <2>1, BesideKept
<1>13. CASE UNCHANGED vars
  <2>1. UNCHANGED <<log, evidence, call, prompt, host, files, final, exits>>
    BY <1>13 DEF vars, proxyVars, hostVars
  <2>2. Beside
    BY <2>1 DEF Beside, Continues
  <2> QED
    BY <1>1, <2>2, BesideKept
<1>14. ASSUME Mute
       PROVE  \/ Plain \/ PiExits \/ PiTimesOut \/ ReadRows \/ WriteArtifacts \/ ReadEvents
              \/ Finalize \/ AssembleSequence \/ Gate
  BY <1>14 DEF Mute, Plain
<1> QED
  BY <1>2, <1>3, <1>4, <1>5, <1>6, <1>7, <1>8, <1>9, <1>10, <1>11, <1>12, <1>13, <1>14, NextIs

LEMMA PiInvHolds == Spec => []PiInv
<1>1. Init => PiInv
  BY PiInvInit
<1>2. PiInv /\ [Next]_vars => PiInv'
  BY PiInvKept
<1> QED
  BY <1>1, <1>2, PTL DEF Spec

LEMMA PiInvVerdict ==
    ASSUME PiInv
    PROVE  PiVerdictEarned
<1>1. ProxyTypeOK /\ files \subseteq JsonFiles
  BY DEF PiInv, ProxyInv
<1>2. ASSUME final # None
      PROVE  /\ EvaluationVerdict(final.episode) = "ELIGIBLE" \/ PreferenceEligible(final.episode)
                  => exits.pi = "zero" /\ exits.verifier \in BOOLEAN
             /\ SftEligible(final.episode) => exits.pi = "zero" /\ exits.verifier = TRUE
  <2>1. PICK ep : ep = final.episode
    OBVIOUS
  <2>2. Snapshot(host.events, host, evidence) /\ ep = Assemble(host.events, host.refs)
    BY <1>2, <2>1 DEF PiInv, Reading
  <2>3. Honest(host, exits)
    BY DEF PiInv
  <2>4. ep.outcome.validity = "VALID" =>
          /\ exits.pi = "zero" /\ exits.verifier \in BOOLEAN
          /\ ep.outcome.verifier = "PASSED" => exits.verifier = TRUE
    <3> SUFFICES ASSUME ep.outcome.validity = "VALID"
                 PROVE  /\ exits.pi = "zero" /\ exits.verifier \in BOOLEAN
                        /\ ep.outcome.verifier = "PASSED" => exits.verifier = TRUE
      OBVIOUS
    <3>1. /\ host.harness = "COMPLETED" /\ host.verifier \in {"PASSED", "FAILED"}
          /\ ep.outcome.verifier = "PASSED" => host.verifier = "PASSED"
      BY <2>2, ValidOutcome
    <3>2. /\ exits.pi = "zero"
          /\ host.verifier = "PASSED" => exits.verifier = TRUE
          /\ host.verifier = "FAILED" => exits.verifier = FALSE
      BY <2>3, <3>1 DEF Honest
    <3> QED
      BY <3>1, <3>2
  <2>5. EvaluationVerdict(ep) = "ELIGIBLE" => ep.outcome.validity = "VALID"
    BY DEF EvaluationVerdict
  <2>6. PreferenceEligible(ep) => ep.outcome.validity = "VALID"
    BY DEF PreferenceEligible
  <2>7. SftEligible(ep) => ep.outcome.validity = "VALID" /\ ep.outcome.verifier = "PASSED"
    BY DEF SftEligible
  <2> QED
    BY <2>1, <2>4, <2>5, <2>6, <2>7
<1> QED
  BY <1>1, <1>2 DEF PiVerdictEarned

(* No verdict is invented, for any number of calls and any endings of Pi:  *)
(* whatever finalize_local_run read of a log that threads still write, an  *)
(* episode fit for evaluation, preference or SFT came from a Pi that ended *)
(* with 0 and a verifier that reached that verdict.                        *)
THEOREM PiVerdictIsEarned == Spec => []PiVerdictEarned
<1>1. PiInv => PiVerdictEarned
  BY PiInvVerdict
<1> QED
  BY <1>1, PiInvHolds, PTL

(* The episode the gate lets through is the whole conversation, for any    *)
(* number of calls: although the evidence is read five times beside the    *)
(* threads that write it, the trained turns are all the requests on        *)
(* record, each prompt is exactly the turns before it, every answer is     *)
(* native, and the reward is what the verifier found.                      *)
THEOREM TrainedSequenceIsWhole == Spec => []TrainedIsWhole
<1>1. PiInv => TrainedIsWhole
  BY DEF PiInv
<1> QED
  BY <1>1, PiInvHolds, PTL

=============================================================================
