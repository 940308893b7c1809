-------------------------- MODULE ModelProxy_proofs --------------------------
(***************************************************************************)
(* What both executions rest on: the two logs of the capture layer say of  *)
(* every call what its serving thread did, whoever owns the proxy, and an  *)
(* episode is assembled from a numbered log without loss.                  *)
(*                                                                         *)
(* Every event is numbered by its place; a request is on record exactly    *)
(* when its call was sent, a response exactly when the call is done, and   *)
(* evidence precedes the response.  The invariant is kept by every step of *)
(* a thread and by every event of another origin.                          *)
(***************************************************************************)
EXTENDS ModelProxy, Functions, FiniteSetTheorems, TLAPS

(* The parts of the proxy's state.                                         *)
OnRecord == {"sent", "answered", "evidenced", "done", "raised"}

(* Every event is numbered by its place in the log.                        *)
Numbered(L) ==
    /\ L \in Seq(Range(L))
    /\ \A i \in DOMAIN L : L[i].id = i /\ L[i].seq = i - 1

(* An event of the given type for a call.                                  *)
Recorded(L, type, c) == \E i \in DOMAIN L : L[i].type = type /\ L[i].span = CallSpan(c)

EvidenceFor(V, c) == \E j \in DOMAIN V : V[j].call = c

(* The logs say of every call what its thread did.                         *)
CallsRecorded ==
    \A c \in Calls :
        /\ Recorded(log, "MODEL_REQUEST", c) <=> call[c].pc \in OnRecord
        /\ Recorded(log, "MODEL_RESPONSE", c) <=> call[c].pc = "done"
        /\ call[c].pc \in {"evidenced", "done"} => EvidenceFor(evidence, c)
        /\ call[c].pc = "answered" => call[c].answer \in Answers

ProxyInv ==
    /\ ProxyTypeOK
    /\ Numbered(log) /\ nextSeq = Len(log)
    /\ evidence \in Seq([call : Calls, answer : Answers])
    /\ CallsRecorded

Has(L, type) == \E i \in DOMAIN L : L[i].type = type

Backed(L, V) == \A c \in Calls : Recorded(L, "MODEL_RESPONSE", c) => EvidenceFor(V, c)
-----------------------------------------------------------------------------
(* Appending an event.                                                     *)

FactFields == {"type", "span", "parent", "status", "passed", "refs", "terminal"}

(* M is L with one event more, which states the fact.                      *)
Extension(L, M, fact) ==
    /\ Len(L) \in Nat
    /\ DOMAIN L = 1..Len(L)
    /\ DOMAIN M = 1..(Len(L) + 1)
    /\ \A i \in DOMAIN L : M[i] = L[i]
    /\ \A x \in FactFields : M[Len(L) + 1][x] = fact[x]

LEMMA EmitExtends ==
    ASSUME NEW fact, DOMAIN fact = FactFields, Numbered(log), nextSeq = Len(log), Emit(fact)
    PROVE  Extension(log, log', fact) /\ Numbered(log') /\ nextSeq' = Len(log')
<1> DEFINE e == [x \in FactFields \cup {"id", "seq"} |->
                   CASE x = "id" -> Len(log) + 1
                     [] x = "seq" -> nextSeq
                     [] OTHER -> fact[x]]
           T == Range(log) \cup {e}
<1>1. log' = Append(log, e) /\ nextSeq' = nextSeq + 1
  BY DEF Emit
<1>2. e.id = Len(log) + 1 /\ e.seq = nextSeq /\ \A x \in FactFields : e[x] = fact[x]
  BY DEF FactFields
<1>3. log \in Seq(Range(log)) /\ \A i \in DOMAIN log : log[i].id = i /\ log[i].seq = i - 1
  BY DEF Numbered
<1> PICK d : d = e
  OBVIOUS
<1> HIDE DEF e
<1>4. Len(log) \in Nat /\ DOMAIN log = 1..Len(log)
  BY <1>3
<1>5. log \in Seq(T)
  BY <1>3
<1>6. /\ log' \in Seq(T) /\ Len(log') = Len(log) + 1
      /\ DOMAIN log' = 1..(Len(log) + 1)
      /\ \A i \in 1..Len(log) : log'[i] = log[i]
      /\ log'[Len(log) + 1] = e
  BY <1>1, <1>4, <1>5
<1> HIDE DEF T
<1>7. Extension(log, log', fact)
  BY <1>2, <1>4, <1>6 DEF Extension
<1>8. \A i \in DOMAIN log' : log'[i].id = i /\ log'[i].seq = i - 1
  BY <1>2, <1>3, <1>4, <1>6
<1>9. log' \in Seq(Range(log'))
  BY <1>6 DEF Range
<1> QED
  BY <1>1, <1>4, <1>6, <1>7, <1>8, <1>9 DEF Numbered

LEMMA HasAfter ==
    ASSUME NEW L, NEW M, NEW fact, Extension(L, M, fact), NEW type
    PROVE  Has(M, type) <=> Has(L, type) \/ fact.type = type
<1>1. M[Len(L) + 1].type = fact.type
  BY DEF Extension, FactFields
<1> QED
  BY <1>1 DEF Extension, Has

LEMMA RecordedAfter ==
    ASSUME NEW L, NEW M, NEW fact, Extension(L, M, fact), NEW type, NEW c
    PROVE  Recorded(M, type, c)
             <=> Recorded(L, type, c) \/ (fact.type = type /\ fact.span = CallSpan(c))
<1>1. M[Len(L) + 1].type = fact.type /\ M[Len(L) + 1].span = fact.span
  BY DEF Extension, FactFields
<1> PICK s : s = CallSpan(c)
  OBVIOUS
<1> QED
  BY <1>1 DEF Extension, Recorded

LEMMA SpansDiffer ==
    ASSUME NEW c, NEW d, CallSpan(c) = CallSpan(d)
    PROVE  c = d
BY DEF CallSpan

(* The facts the steps record.                                             *)
LEMMA FactIs ==
    ASSUME NEW t, NEW s, NEW u
    PROVE  /\ DOMAIN Fact(t, s, u) = FactFields
           /\ Fact(t, s, u).type = t /\ Fact(t, s, u).span = s
           /\ Fact(t, s, u).parent = None /\ Fact(t, s, u).status = u
           /\ Fact(t, s, u).passed = None /\ Fact(t, s, u).refs = {}
           /\ Fact(t, s, u).terminal = None
BY DEF Fact, FactFields
-----------------------------------------------------------------------------
(* What the threads, and the events of other origins, do to the logs.      *)

CallStates == {"new", "posted", "first", "counted", "sent", "answered", "evidenced", "done",
               "closeout", "refused", "raised"}

LEMMA Moved ==
    ASSUME ProxyTypeOK, NEW c \in Calls, NEW p \in CallStates, MoveTo(c, p)
    PROVE  /\ call'[c].pc = p /\ call'[c].answer = call[c].answer
           /\ \A d \in Calls : d # c => call'[d] = call[d]
           /\ call' \in [Calls -> [pc : CallStates, answer : Answers \cup {None}]]
BY DEF ProxyTypeOK, MoveTo, CallStates

(* A step of a thread that writes no log.                                  *)
LEMMA SilentMove ==
    ASSUME ProxyInv, NEW c \in Calls, NEW p \in CallStates, MoveTo(c, p),
           UNCHANGED <<log, nextSeq, evidence>>,
           call[c].pc \in OnRecord <=> p \in OnRecord, call[c].pc # "done",
           p \notin {"answered", "evidenced", "done"},
           callCount' \in 0..MaxCalls, observed' \in BOOLEAN,
           recordLock' \in Calls \cup {None}, closeouts' \subseteq Calls
    PROVE  ProxyInv'
<1>1. /\ call'[c].pc = p /\ call'[c].answer = call[c].answer
      /\ \A d \in Calls : d # c => call'[d] = call[d]
      /\ call' \in [Calls -> [pc : CallStates, answer : Answers \cup {None}]]
  BY Moved DEF ProxyInv
<1>2. ProxyTypeOK'
  BY <1>1 DEF ProxyInv, ProxyTypeOK, CallStates
<1>3. CallsRecorded'
  <2> SUFFICES ASSUME NEW d \in Calls
               PROVE  (/\ Recorded(log, "MODEL_REQUEST", d) <=> call[d].pc \in OnRecord
                       /\ Recorded(log, "MODEL_RESPONSE", d) <=> call[d].pc = "done"
                       /\ call[d].pc \in {"evidenced", "done"} => EvidenceFor(evidence, d)
                       /\ call[d].pc = "answered" => call[d].answer \in Answers)'
    BY DEF CallsRecorded
  <2>1. /\ Recorded(log, "MODEL_REQUEST", d)' <=> Recorded(log, "MODEL_REQUEST", d)
        /\ Recorded(log, "MODEL_RESPONSE", d)' <=> Recorded(log, "MODEL_RESPONSE", d)
        /\ EvidenceFor(evidence, d)' <=> EvidenceFor(evidence, d)
    BY DEF Recorded, EvidenceFor
  <2>2. /\ Recorded(log, "MODEL_REQUEST", d) <=> call[d].pc \in OnRecord
        /\ Recorded(log, "MODEL_RESPONSE", d) <=> call[d].pc = "done"
        /\ call[d].pc \in {"evidenced", "done"} => EvidenceFor(evidence, d)
        /\ call[d].pc = "answered" => call[d].answer \in Answers
    BY DEF ProxyInv, CallsRecorded
  <2>3. CASE d = c
    BY <1>1, <2>1, <2>2, <2>3
  <2>4. CASE d # c
    BY <1>1, <2>1, <2>2, <2>4
  <2> QED
    BY <2>3, <2>4
<1> QED
  BY <1>2, <1>3 DEF ProxyInv, Numbered

(* Events of the host and the harness are no calls', by type or by span.   *)
LEMMA ForeignEvent ==
    ASSUME ProxyInv, NEW fact, DOMAIN fact = FactFields, Emit(fact),
           \/ fact.type \notin {"MODEL_REQUEST", "MODEL_RESPONSE"}
           \/ \A c \in Calls : fact.span # CallSpan(c),
           UNCHANGED <<evidence, call, callCount, observed, recordLock, closeouts>>
    PROVE  ProxyInv' /\ Extension(log, log', fact)
<1>1. Extension(log, log', fact) /\ Numbered(log') /\ nextSeq' = Len(log')
  BY EmitExtends DEF ProxyInv
<1>2. \A c \in Calls :
        /\ Recorded(log', "MODEL_REQUEST", c) <=> Recorded(log, "MODEL_REQUEST", c)
        /\ Recorded(log', "MODEL_RESPONSE", c) <=> Recorded(log, "MODEL_RESPONSE", c)
  BY <1>1, RecordedAfter
<1>3. CallsRecorded'
  BY <1>2 DEF ProxyInv, CallsRecorded
<1>4. ProxyTypeOK'
  <2>1. nextSeq' \in Nat /\ \A i \in DOMAIN log' : log'[i].seq \in Nat
    <3>1. Len(log) \in Nat /\ DOMAIN log' = 1..(Len(log) + 1)
      BY <1>1 DEF Extension
    <3>2. nextSeq' = nextSeq + 1 /\ nextSeq \in Nat
      BY DEF Emit, ProxyInv, ProxyTypeOK
    <3> QED
      BY <1>1, <3>1, <3>2 DEF Numbered
  <2> QED
    BY <2>1 DEF ProxyInv, ProxyTypeOK
<1> QED
  BY <1>1, <1>3, <1>4 DEF ProxyInv

(* A thread that writes an event of its own call.                          *)
LEMMA OwnEvent ==
    ASSUME ProxyInv, NEW c \in Calls, NEW p \in {"sent", "done"}, MoveTo(c, p),
           NEW fact, DOMAIN fact = FactFields, Emit(fact), fact.span = CallSpan(c),
           IF p = "sent" THEN fact.type = "MODEL_REQUEST" /\ call[c].pc = "counted"
                         ELSE fact.type = "MODEL_RESPONSE" /\ call[c].pc = "evidenced",
           UNCHANGED <<evidence, callCount, observed, closeouts>>,
           recordLock' \in {recordLock, None}
    PROVE  ProxyInv' /\ Extension(log, log', fact)
<1>1. Extension(log, log', fact) /\ Numbered(log') /\ nextSeq' = Len(log')
  BY EmitExtends DEF ProxyInv
<1>2. /\ call'[c].pc = p /\ call'[c].answer = call[c].answer
      /\ \A d \in Calls : d # c => call'[d] = call[d]
      /\ call' \in [Calls -> [pc : CallStates, answer : Answers \cup {None}]]
  BY Moved DEF ProxyInv, CallStates
<1>3. CallsRecorded'
  <2> SUFFICES ASSUME NEW d \in Calls
               PROVE  /\ Recorded(log', "MODEL_REQUEST", d) <=> call'[d].pc \in OnRecord
                      /\ Recorded(log', "MODEL_RESPONSE", d) <=> call'[d].pc = "done"
                      /\ call'[d].pc \in {"evidenced", "done"} => EvidenceFor(evidence', d)
                      /\ call'[d].pc = "answered" => call'[d].answer \in Answers
    BY DEF CallsRecorded
  <2>1. /\ Recorded(log', "MODEL_REQUEST", d) <=>
             Recorded(log, "MODEL_REQUEST", d) \/ (fact.type = "MODEL_REQUEST" /\ fact.span = CallSpan(d))
        /\ Recorded(log', "MODEL_RESPONSE", d) <=>
             Recorded(log, "MODEL_RESPONSE", d) \/ (fact.type = "MODEL_RESPONSE" /\ fact.span = CallSpan(d))
    BY <1>1, RecordedAfter
  <2>2. /\ Recorded(log, "MODEL_REQUEST", d) <=> call[d].pc \in OnRecord
        /\ Recorded(log, "MODEL_RESPONSE", d) <=> call[d].pc = "done"
        /\ call[d].pc \in {"evidenced", "done"} => EvidenceFor(evidence, d)
        /\ call[d].pc = "answered" => call[d].answer \in Answers
    BY DEF ProxyInv, CallsRecorded
  <2>3. EvidenceFor(evidence', d) <=> EvidenceFor(evidence, d)
    OBVIOUS
  <2>4. CASE d = c
    BY <1>2, <2>1, <2>2, <2>3, <2>4 DEF OnRecord
  <2>5. CASE d # c
    <3>1. fact.span # CallSpan(d)
      BY <2>5, SpansDiffer
    <3> QED
      BY <1>2, <2>1, <2>2, <2>3, <2>5, <3>1
  <2> QED
    BY <2>4, <2>5
<1>4. ProxyTypeOK'
  <2>1. nextSeq' \in Nat /\ \A i \in DOMAIN log' : log'[i].seq \in Nat
    <3>1. Len(log) \in Nat /\ DOMAIN log' = 1..(Len(log) + 1)
      BY <1>1 DEF Extension
    <3>2. nextSeq' = nextSeq + 1 /\ nextSeq \in Nat
      BY DEF Emit, ProxyInv, ProxyTypeOK
    <3> QED
      BY <1>1, <3>1, <3>2 DEF Numbered
  <2> QED
    BY <1>2, <2>1 DEF ProxyInv, ProxyTypeOK, CallStates
<1> QED
  BY <1>1, <1>3, <1>4 DEF ProxyInv

LEMMA SendStep ==
    ASSUME ProxyInv, NEW c \in Calls, SendUpstream(c)
    PROVE  ProxyInv'
<1> PICK a \in Answers : call' = [call EXCEPT ![c] = [pc |-> "answered", answer |-> a]]
  BY DEF SendUpstream
<1>1. /\ call'[c].pc = "answered" /\ call'[c].answer = a
      /\ \A d \in Calls : d # c => call'[d] = call[d]
      /\ call' \in [Calls -> [pc : CallStates, answer : Answers \cup {None}]]
  BY DEF ProxyInv, ProxyTypeOK, CallStates
<1>2. call[c].pc = "sent" /\ UNCHANGED <<log, nextSeq, evidence, callCount, observed, recordLock, closeouts>>
  BY DEF SendUpstream
<1>3. CallsRecorded'
  <2> SUFFICES ASSUME NEW d \in Calls
               PROVE  /\ Recorded(log', "MODEL_REQUEST", d) <=> call'[d].pc \in OnRecord
                      /\ Recorded(log', "MODEL_RESPONSE", d) <=> call'[d].pc = "done"
                      /\ call'[d].pc \in {"evidenced", "done"} => EvidenceFor(evidence', d)
                      /\ call'[d].pc = "answered" => call'[d].answer \in Answers
    BY DEF CallsRecorded
  <2>1. /\ Recorded(log, "MODEL_REQUEST", d) <=> call[d].pc \in OnRecord
        /\ Recorded(log, "MODEL_RESPONSE", d) <=> call[d].pc = "done"
        /\ call[d].pc \in {"evidenced", "done"} => EvidenceFor(evidence, d)
        /\ call[d].pc = "answered" => call[d].answer \in Answers
    BY DEF ProxyInv, CallsRecorded
  <2>2. CASE d = c
    BY <1>1, <1>2, <2>1, <2>2 DEF OnRecord
  <2>3. CASE d # c
    BY <1>1, <1>2, <2>1, <2>3
  <2> QED
    BY <2>2, <2>3
<1>4. ProxyTypeOK'
  BY <1>1, <1>2 DEF ProxyInv, ProxyTypeOK, CallStates
<1> QED
  BY <1>2, <1>3, <1>4 DEF ProxyInv

LEMMA EvidenceStep ==
    ASSUME ProxyInv, NEW c \in Calls, AppendEvidence(c)
    PROVE  ProxyInv' /\ \A d \in Calls : EvidenceFor(evidence, d) => EvidenceFor(evidence', d)
<1>1. /\ call[c].pc = "answered" /\ recordLock' = c /\ MoveTo(c, "evidenced")
      /\ UNCHANGED <<log, nextSeq, callCount, observed, closeouts>>
      /\ evidence' = Append(evidence, [call |-> c, answer |-> call[c].answer])
  BY DEF AppendEvidence
<1>2. /\ call'[c].pc = "evidenced" /\ call'[c].answer = call[c].answer
      /\ \A d \in Calls : d # c => call'[d] = call[d]
      /\ call' \in [Calls -> [pc : CallStates, answer : Answers \cup {None}]]
  BY <1>1, Moved DEF ProxyInv, CallStates
<1>3. [call |-> c, answer |-> call[c].answer] \in [call : Calls, answer : Answers]
  BY <1>1 DEF ProxyInv, CallsRecorded
<1>4. PICK v \in [call : Calls, answer : Answers] : v.call = c /\ evidence' = Append(evidence, v)
  BY <1>1, <1>3
<1>5. evidence \in Seq([call : Calls, answer : Answers])
  BY DEF ProxyInv
<1>6. /\ evidence' \in Seq([call : Calls, answer : Answers])
      /\ Len(evidence) + 1 \in DOMAIN evidence' /\ evidence'[Len(evidence) + 1] = v
      /\ \A j \in DOMAIN evidence : j \in DOMAIN evidence' /\ evidence'[j] = evidence[j]
  BY <1>4, <1>5
<1>7. /\ EvidenceFor(evidence', c)
      /\ \A d \in Calls : EvidenceFor(evidence, d) => EvidenceFor(evidence', d)
  BY <1>4, <1>6 DEF EvidenceFor
<1>8. CallsRecorded'
  <2> SUFFICES ASSUME NEW d \in Calls
               PROVE  /\ Recorded(log', "MODEL_REQUEST", d) <=> call'[d].pc \in OnRecord
                      /\ Recorded(log', "MODEL_RESPONSE", d) <=> call'[d].pc = "done"
                      /\ call'[d].pc \in {"evidenced", "done"} => EvidenceFor(evidence', d)
                      /\ call'[d].pc = "answered" => call'[d].answer \in Answers
    BY DEF CallsRecorded
  <2>1. /\ Recorded(log, "MODEL_REQUEST", d) <=> call[d].pc \in OnRecord
        /\ Recorded(log, "MODEL_RESPONSE", d) <=> call[d].pc = "done"
        /\ call[d].pc \in {"evidenced", "done"} => EvidenceFor(evidence, d)
        /\ call[d].pc = "answered" => call[d].answer \in Answers
    BY DEF ProxyInv, CallsRecorded
  <2>2. CASE d = c
    BY <1>1, <1>2, <1>7, <2>1, <2>2 DEF OnRecord
  <2>3. CASE d # c
    BY <1>1, <1>2, <1>7, <2>1, <2>3
  <2> QED
    BY <2>2, <2>3
<1>9. ProxyTypeOK'
  <2>1. \A i \in DOMAIN evidence' : evidence'[i] \in [call : Calls, answer : Answers]
    <3>1. PICK S : S = [call : Calls, answer : Answers]
      OBVIOUS
    <3>2. evidence' \in Seq(S)
      BY <1>6, <3>1
    <3>3. \A i \in DOMAIN evidence' : evidence'[i] \in S
      BY <3>2
    <3> QED
      BY <3>1, <3>3
  <2> QED
    BY <1>1, <1>2, <2>1 DEF ProxyInv, ProxyTypeOK, CallStates
<1> QED
  BY <1>1, <1>6, <1>7, <1>8, <1>9 DEF ProxyInv

(* Every step of the execution keeps the proxy's invariant.                *)
LEMMA ServeStep ==
    ASSUME ProxyInv, NEW c \in Calls, ServeCall(c)
    PROVE  ProxyInv'
<1>t. ProxyTypeOK /\ MaxCalls \in Nat
  BY ProxyAssumption DEF ProxyInv
<1>1. CASE Closeout(c)
  BY <1>1, <1>t, SilentMove DEF Closeout, ProxyTypeOK, OnRecord, CallStates
<1>2. CASE AdmitCall(c)
  <2>1. callCount' \in 0..MaxCalls
    BY <1>2, <1>t DEF AdmitCall, BudgetSpent, ProxyTypeOK
  <2>2. PICK p \in {"first", "counted"} : MoveTo(c, p)
    BY <1>2 DEF AdmitCall
  <2> QED
    BY <1>2, <1>t, <2>1, <2>2, SilentMove DEF AdmitCall, ProxyTypeOK, OnRecord, CallStates
<1>3. CASE RecordRequest(c)
  <2>1. PICK fact : fact = Fact("MODEL_REQUEST", CallSpan(c), "STARTED")
    OBVIOUS
  <2>2. DOMAIN fact = FactFields /\ fact.type = "MODEL_REQUEST" /\ fact.span = CallSpan(c)
    BY <2>1, FactIs
  <2>3. Emit(fact) /\ MoveTo(c, "sent") /\ call[c].pc = "counted"
        /\ UNCHANGED <<evidence, callCount, observed, recordLock, closeouts>>
    BY <1>3, <2>1 DEF RecordRequest
  <2> QED
    BY <2>2, <2>3, OwnEvent
<1>4. CASE SendUpstream(c)
  BY <1>4, SendStep
<1>5. CASE UpstreamRaises(c)
  BY <1>5, <1>t, SilentMove DEF UpstreamRaises, ProxyTypeOK, OnRecord, CallStates
<1>6. CASE AppendEvidence(c)
  BY <1>6, EvidenceStep
<1>7. CASE RecordResponse(c)
  <2>1. PICK fact : fact = Fact("MODEL_RESPONSE", CallSpan(c),
                                IF call[c].answer = "error" THEN "FAILED" ELSE "SUCCEEDED")
    OBVIOUS
  <2>2. DOMAIN fact = FactFields /\ fact.type = "MODEL_RESPONSE" /\ fact.span = CallSpan(c)
    BY <2>1, FactIs
  <2>3. Emit(fact) /\ MoveTo(c, "done") /\ call[c].pc = "evidenced" /\ recordLock' = None
        /\ UNCHANGED <<evidence, callCount, observed, closeouts>>
    BY <1>7, <2>1 DEF RecordResponse
  <2> QED
    BY <2>2, <2>3, OwnEvent
<1>8. CASE ResponseLost(c)
  BY <1>8, <1>t, SilentMove DEF ResponseLost, ProxyTypeOK, OnRecord, CallStates
<1> QED
  BY <1>1, <1>2, <1>3, <1>4, <1>5, <1>6, <1>7, <1>8 DEF ServeCall

LEMMA PostStep ==
    ASSUME ProxyInv, NEW c \in Calls, PostCall(c)
    PROVE  ProxyInv'
<1>t. ProxyTypeOK
  BY DEF ProxyInv
<1> QED
  BY <1>t, SilentMove DEF PostCall, ProxyTypeOK, OnRecord, CallStates

(* What a thread's step means to a reader of the logs: an answer that is   *)
(* on record stays, a call that is done stays done, and the step adds at   *)
(* most one row, of its own answer, or one event, of its own call.         *)
Settled == {"evidenced", "done", "raised"}

LEMMA ServeEffect ==
    ASSUME ProxyInv, NEW c \in Calls, ServeCall(c)
    PROVE  /\ \A d \in Calls :
                 /\ call[d].pc \in Settled =>
                      call'[d].pc \in Settled /\ call'[d].answer = call[d].answer
                 /\ call[d].pc = "done" => call'[d].pc = "done"
           /\ \/ evidence' = evidence
              \/ /\ call[c].pc = "answered" /\ call[c].answer \in Answers
                 /\ call'[c].pc = "evidenced" /\ call'[c].answer = call[c].answer
                 /\ evidence' = Append(evidence, [call |-> c, answer |-> call[c].answer])
           /\ \/ log' = log
              \/ \E fact : /\ Extension(log, log', fact)
                           /\ fact.type \in {"MODEL_REQUEST", "MODEL_RESPONSE"}
<1>t. ProxyTypeOK /\ CallsRecorded /\ Numbered(log) /\ nextSeq = Len(log)
  BY DEF ProxyInv
<1>m. ASSUME NEW p \in CallStates, MoveTo(c, p), call[c].pc \in Settled => p \in Settled,
             call[c].pc # "done"
      PROVE  /\ call'[c].pc = p /\ call'[c].answer = call[c].answer
             /\ \A d \in Calls :
                 /\ call[d].pc \in Settled =>
                      call'[d].pc \in Settled /\ call'[d].answer = call[d].answer
                 /\ call[d].pc = "done" => call'[d].pc = "done"
  <2>1. /\ call'[c].pc = p /\ call'[c].answer = call[c].answer
        /\ \A d \in Calls : d # c => call'[d] = call[d]
    BY <1>t, <1>m, Moved
  <2> QED
    BY <1>m, <2>1
<1>1. CASE Closeout(c)
  BY <1>1, <1>m DEF Closeout, CallStates, Settled
<1>2. CASE AdmitCall(c)
  <2>1. PICK p \in {"first", "counted"} : MoveTo(c, p)
    BY <1>2 DEF AdmitCall
  <2> QED
    BY <1>2, <1>m, <2>1 DEF AdmitCall, CallStates, Settled
<1>3. CASE RecordRequest(c)
  <2>1. PICK fact : fact = Fact("MODEL_REQUEST", CallSpan(c), "STARTED")
    OBVIOUS
  <2>2. DOMAIN fact = FactFields /\ fact.type = "MODEL_REQUEST"
    BY <2>1, FactIs
  <2>3. Emit(fact) /\ MoveTo(c, "sent") /\ call[c].pc = "counted" /\ evidence' = evidence
    BY <1>3, <2>1 DEF RecordRequest
  <2>4. Extension(log, log', fact)
    BY <1>t, <2>2, <2>3, EmitExtends
  <2> QED
    BY <1>m, <2>2, <2>3, <2>4 DEF CallStates, Settled
<1>4. CASE SendUpstream(c)
  <2>1. PICK a \in Answers : call' = [call EXCEPT ![c] = [pc |-> "answered", answer |-> a]]
    BY <1>4 DEF SendUpstream
  <2>2. \A d \in Calls : d # c => call'[d] = call[d]
    BY <1>t, <2>1 DEF ProxyTypeOK
  <2>3. call[c].pc = "sent" /\ evidence' = evidence /\ log' = log
    BY <1>4 DEF SendUpstream
  <2> QED
    BY <2>2, <2>3 DEF Settled
<1>5. CASE UpstreamRaises(c)
  BY <1>5, <1>m DEF UpstreamRaises, CallStates, Settled
<1>6. CASE AppendEvidence(c)
  <2>1. /\ call[c].pc = "answered" /\ MoveTo(c, "evidenced") /\ log' = log
        /\ evidence' = Append(evidence, [call |-> c, answer |-> call[c].answer])
    BY <1>6 DEF AppendEvidence
  <2>2. call[c].answer \in Answers
    BY <1>t, <2>1 DEF CallsRecorded
  <2> QED
    BY <1>m, <2>1, <2>2 DEF CallStates, Settled
<1>7. CASE RecordResponse(c)
  <2>1. PICK fact : fact = Fact("MODEL_RESPONSE", CallSpan(c),
                                IF call[c].answer = "error" THEN "FAILED" ELSE "SUCCEEDED")
    OBVIOUS
  <2>2. DOMAIN fact = FactFields /\ fact.type = "MODEL_RESPONSE"
    BY <2>1, FactIs
  <2>3. Emit(fact) /\ MoveTo(c, "done") /\ call[c].pc = "evidenced" /\ evidence' = evidence
    BY <1>7, <2>1 DEF RecordResponse
  <2>4. Extension(log, log', fact)
    BY <1>t, <2>2, <2>3, EmitExtends
  <2> QED
    BY <1>m, <2>2, <2>3, <2>4 DEF CallStates, Settled
<1>8. CASE ResponseLost(c)
  BY <1>8, <1>m DEF ResponseLost, CallStates, Settled
<1> QED
  BY <1>1, <1>2, <1>3, <1>4, <1>5, <1>6, <1>7, <1>8 DEF ServeCall

(* The steps that leave the proxy alone.                                   *)
LEMMA ProxyIdle ==
    ASSUME ProxyInv, UNCHANGED proxyVars
    PROVE  ProxyInv'
BY DEF proxyVars, ProxyInv, ProxyTypeOK, Numbered, CallsRecorded

LEMMA BackedGrows ==
    ASSUME NEW L, NEW V, NEW W, Backed(L, V),
           \A c \in Calls : EvidenceFor(V, c) => EvidenceFor(W, c)
    PROVE  Backed(L, W)
BY DEF Backed
-----------------------------------------------------------------------------
(* The episode assembled from a numbered log.                              *)

LEMMA AcceptedIsLog ==
    ASSUME NEW L, Numbered(L)
    PROVE  /\ Accepted(L) = Range(L)
           /\ \A e : e \in Accepted(L) <=> \E i \in DOMAIN L : e = L[i]
<1>1. DOMAIN L = 1..Len(L) /\ Len(L) \in Nat
  BY DEF Numbered
<1>2. \A j \in DOMAIN L : \A k \in 1..(j - 1) : L[k].id # L[j].id
  BY <1>1 DEF Numbered
<1>3. {j \in DOMAIN L : \A k \in 1..(j - 1) : L[k].id # L[j].id} = DOMAIN L
  BY <1>2
<1> QED
  BY <1>3 DEF Accepted, Range

LEMMA NumberedIsSane ==
    ASSUME NEW L, Numbered(L)
    PROVE  ~ConflictingEventId(L) /\ ~SequenceCollisions(Accepted(L))
<1>1. DOMAIN L = 1..Len(L) /\ Len(L) \in Nat
  BY DEF Numbered
<1>2. ~ConflictingEventId(L)
  BY DEF ConflictingEventId, Numbered
<1>3. ASSUME NEW e \in Accepted(L), NEW f \in Accepted(L), e.seq = f.seq
      PROVE  e = f
  <2>1. PICK i \in DOMAIN L : e = L[i]
    BY AcceptedIsLog
  <2>2. PICK j \in DOMAIN L : f = L[j]
    BY AcceptedIsLog
  <2>3. i - 1 = j - 1
    BY <1>3, <2>1, <2>2 DEF Numbered
  <2> QED
    BY <1>1, <2>1, <2>2, <2>3
<1> QED
  BY <1>2, <1>3 DEF SequenceCollisions

LEMMA NoGaps ==
    ASSUME NEW L, Numbered(L), L # <<>>
    PROVE  SequenceGaps(Accepted(L)) = {}
<1>1. PICK n : n = Len(L)
  OBVIOUS
<1>2. DOMAIN L = 1..n /\ n \in Nat /\ n # 0
  BY <1>1 DEF Numbered
<1>3. PICK S : S = {e.seq : e \in Accepted(L)}
  OBVIOUS
<1>4. S = {L[i].seq : i \in DOMAIN L}
  BY <1>3, AcceptedIsLog
<1>5. S = 0..(n - 1)
  <2>1. ASSUME NEW x \in S PROVE x \in 0..(n - 1)
    <3>1. PICK i \in DOMAIN L : x = L[i].seq
      BY <1>4, <2>1
    <3> QED
      BY <1>2, <3>1 DEF Numbered
  <2>2. ASSUME NEW x \in 0..(n - 1) PROVE x \in S
    <3>1. x + 1 \in DOMAIN L /\ L[x + 1].seq = x
      BY <1>2, <2>2 DEF Numbered
    <3> QED
      BY <1>4, <3>1
  <2> QED
    BY <2>1, <2>2
<1>6. Max(S) \in S
  <2>1. \E x \in S : \A y \in S : x >= y
    <3>1. n - 1 \in S /\ \A y \in S : n - 1 >= y
      BY <1>2, <1>5
    <3> QED
      BY <3>1
  <2> QED
    BY <2>1 DEF Max
<1>7. PICK m : m = Max(S)
  OBVIOUS
<1>8. 0..m \subseteq S
  BY <1>2, <1>5, <1>6, <1>7
<1> QED
  BY <1>3, <1>7, <1>8 DEF SequenceGaps

LEMMA LatestOfOne ==
    ASSUME NEW t
    PROVE  Latest({t}) = t
BY DEF Latest

(* The one event of a type that the run writes once.                       *)
LEMMA SingleEvent ==
    ASSUME NEW L, NEW type, Numbered(L), NEW k \in DOMAIN L, L[k].type = type,
           \A i \in DOMAIN L : L[i].type = type => i = k
    PROVE  OfType(Accepted(L), type) = {L[k]}
BY AcceptedIsLog DEF OfType

(* The spans opened and closed.                                            *)
LEMMA SpansOfType ==
    ASSUME NEW L, NEW type, Numbered(L), NEW s
    PROVE  s \in Spans(OfType(Accepted(L), type))
             <=> \E i \in DOMAIN L : L[i].type = type /\ L[i].span = s
BY AcceptedIsLog DEF Spans, OfType

Unclosed(L, a, b) == Spans(OfType(Accepted(L), a)) \ Spans(OfType(Accepted(L), b))

LEMMA MissingTypes ==
    ASSUME NEW L, OfType(Accepted(L), "EPISODE_FINISHED") # {}
    PROVE  MissingExpectedTypes(Accepted(L)) = {} <=>
             /\ Unclosed(L, "MODEL_REQUEST", "MODEL_RESPONSE") = {}
             /\ Unclosed(L, "TOOL_CALL", "TOOL_RESULT") = {}
             /\ Unclosed(L, "SANDBOX_STARTED", "SANDBOX_FINISHED") = {}
             /\ Unclosed(L, "VERIFICATION_STARTED", "VERIFICATION_FINISHED") = {}
<1> DEFINE Q == {q \in OpenClose : Unclosed(L, q[1], q[2]) # {}}
<1>1. MissingExpectedTypes(Accepted(L)) = {p[2] : p \in Q}
  BY DEF MissingExpectedTypes, Unclosed
<1>2. {p[2] : p \in Q} = {} <=> Q = {}
  OBVIOUS
<1>3. Q = {} <=> \A q \in OpenClose : Unclosed(L, q[1], q[2]) = {}
  OBVIOUS
<1> HIDE DEF Q
<1>4. (\A q \in OpenClose : Unclosed(L, q[1], q[2]) = {}) <=>
             /\ Unclosed(L, "MODEL_REQUEST", "MODEL_RESPONSE") = {}
             /\ Unclosed(L, "TOOL_CALL", "TOOL_RESULT") = {}
             /\ Unclosed(L, "SANDBOX_STARTED", "SANDBOX_FINISHED") = {}
             /\ Unclosed(L, "VERIFICATION_STARTED", "VERIFICATION_FINISHED") = {}
  BY DEF OpenClose
<1> QED
  BY <1>1, <1>2, <1>3, <1>4

LEMMA AssembledIs ==
    ASSUME NEW L, NEW R
    PROVE  /\ Assemble(L, R).events = Accepted(L)
           /\ Assemble(L, R).integrity = IntegrityState(L, R)
           /\ Assemble(L, R).outcome = DeriveTerminal(Accepted(L))
BY DEF Assemble

(* A run starts with an empty log, no evidence and every call new.         *)
LEMMA ProxyStarts ==
    ASSUME ProxyInit
    PROVE  ProxyInv
<1>1. \A c \in Calls : call[c].pc = "new"
  BY DEF ProxyInit
<1>2. log = <<>> /\ evidence = <<>> /\ nextSeq = 0
  BY DEF ProxyInit
<1>3. CallsRecorded
  BY <1>1, <1>2 DEF CallsRecorded, Recorded, OnRecord
<1>4. ProxyTypeOK
  <2>1. call \in [Calls -> [pc : CallStates, answer : Answers \cup {None}]]
    BY DEF ProxyInit, CallStates
  <2>2. callCount \in 0..MaxCalls
    BY ProxyAssumption DEF ProxyInit
  <2>3. DOMAIN log = {} /\ DOMAIN evidence = {}
    BY <1>2
  <2>4. observed \in BOOLEAN /\ recordLock \in Calls \cup {None} /\ closeouts \subseteq Calls
    BY DEF ProxyInit
  <2> QED
    BY <1>2, <2>1, <2>2, <2>3, <2>4 DEF ProxyTypeOK, CallStates
<1>5. Numbered(log) /\ nextSeq = Len(log)
  BY <1>2 DEF Numbered, Range
<1> QED
  BY <1>2, <1>3, <1>4, <1>5 DEF ProxyInv

=============================================================================
