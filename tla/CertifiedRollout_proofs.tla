---------------------- MODULE CertifiedRollout_proofs ----------------------
(***************************************************************************)
(* The gate between rollout and optimizer, for every batch size, grouping, *)
(* number of attempts, model calls, steps and restarts, with any number of *)
(* stragglers and repeated dispatches, a framework that loses, exchanges   *)
(* or alters rows, and weight syncs that are missed.                       *)
(*                                                                         *)
(* The invariant says three things the code relies on without testing      *)
(* them: the current call has no certificate yet and its directories       *)
(* belong to nobody else; a certificate's directories are admitted and so  *)
(* out of reach of every task; and the trainer's step, the manager's       *)
(* stamps and, if every sync arrives, the engine's weights move together.  *)
(***************************************************************************)
EXTENDS CertifiedRollout, FiniteSetTheorems, WellFoundedInduction, TLAPS

Trusted == EngineReports \/ ~SyncMayLag

Dirs(s, g, a) == {Path(s, g, a, p) : p \in Positions}

(* The attempts of one call that left a rejection.                         *)
RejectedOf(s, g) == {r[3] : r \in {q \in rejected : q[1] = s /\ q[2] = g}}

(* Sessions and calls up to the manager's own.                             *)
UpToNow(s, g) == s < mgr.session \/ (s = mgr.session /\ g <= mgr.gen)

Phases ==
    /\ mgr.pc = "rollout" <=> trainer.pc = "waiting"
    /\ trainer.pc \in {"waiting", "update", "sync"} =>
          /\ mgr.step = trainer.step - 1 /\ mgr.policy = trainer.step - 1
          /\ trainer.step <= MaxStep
          /\ 0 <= mgr.gen /\ mgr.gen + 1 <= trainer.step
    /\ trainer.pc = "ready" => mgr.gen + 2 <= trainer.step
    /\ trainer.step = 1 => mgr.policy = 0

EngineKept == ~SyncMayLag /\ trainer.pc # "stopped" => engine = trainer.step - 1

Placed ==
    /\ \A k \in DOMAIN ep : UpToNow(k[1], k[2])
    /\ \A r \in rejected : UpToNow(r[1], r[2])
    /\ \A c \in certified : UpToNow(c.session, c.gen)

(* A task that was served has tokens of some weights.                      *)
Served == \A k \in DOMAIN ep : ep[k].calls > 0 \/ ep[k].pc = "admitted" => ep[k].steps # {}

(* What holds of the call the manager is in.                               *)
CurrentCall ==
    mgr.pc = "rollout" =>
        /\ CurrentDirs \subseteq DOMAIN ep
        /\ \A k \in CurrentDirs :
              /\ ep[k].policy = mgr.policy /\ ep[k].expected = mgr.step
              /\ Trusted => ep[k].steps \subseteq {mgr.step}
        /\ \A c \in certified : ~ (c.session = mgr.session /\ c.gen = mgr.gen)
        /\ RejectedOf(mgr.session, mgr.gen) = 0..(mgr.attempt - 1)

GroupIn(D, g) == {k \in D : GroupOf[k[4]] = g}

(* The evidence under one certificate.                                     *)
EvidenceOf(c) ==
    /\ c.dirs = Dirs(c.session, c.gen, c.attempt)
    /\ c.dirs \subseteq DOMAIN ep
    /\ \A k \in c.dirs : /\ ep[k].pc = "admitted" /\ ep[k].policy = c.policy
                         /\ ep[k].verifier \in {"PASSED", "FAILED"}
                         /\ Trusted => ep[k].steps = {c.policy}
    /\ \A g \in Groups :
          /\ Cardinality(GroupIn(c.dirs, g)) >= MinimumGroupSize
          /\ {ep[k].verifier : k \in GroupIn(c.dirs, g)} = {"PASSED", "FAILED"}

Certificates ==
    \A c \in certified :
        /\ EvidenceOf(c)
        /\ \A d \in certified : c.session = d.session /\ c.gen = d.gen => c = d
        /\ RejectedOf(c.session, c.gen) = 0..(c.attempt - 1)

(* A batch that _verify_returned_batch lets through is a permutation of    *)
(* the rows within their groups.                                           *)
RowsVerified(rows) ==
    /\ rows \in [Positions -> Rows]
    /\ \A i, j \in Positions : rows[i].ep = rows[j].ep => i = j
    /\ \A p \in Positions : \E i \in Positions : rows[i].ep = p
    /\ \A i \in Positions : rows[i].intact /\ GroupOf[rows[i].ep] = GroupOf[i]

CertifiedAs(s, g, a, policy) ==
    \E d \in certified : /\ d.session = s /\ d.gen = g /\ d.attempt = a
                         /\ d.policy = policy

Handed ==
    trainer.pc = "update" =>
        RowsVerified(batch) /\ CertifiedAs(mgr.session, mgr.gen, mgr.attempt, mgr.policy)

Consumption ==
    \A c \in consumed :
        RowsVerified(c.rows) /\ CertifiedAs(c.session, c.gen, c.attempt, c.step - 1)

RInv ==
    /\ TypeOK
    /\ Phases
    /\ EngineKept
    /\ Placed
    /\ Served
    /\ CurrentCall
    /\ Certificates
    /\ Handed
    /\ Consumption
-----------------------------------------------------------------------------
LEMMA Bounds ==
    /\ BatchSize \in Nat /\ BatchSize >= 1
    /\ MaxAttempts \in Nat /\ MaxAttempts >= 1 /\ MaxRequests \in Nat /\ MaxRequests >= 1
    /\ MaxStep \in Nat /\ MaxSessions \in Nat /\ MaxSessions >= 1 /\ MaxDuplicates \in Nat
    /\ MinimumGroupSize \in Nat /\ None \notin Nat
    /\ EngineReports \in BOOLEAN /\ SyncMayLag \in BOOLEAN
  BY RolloutAssumption

Managers ==
    [pc : {"idle", "rollout"}, session : 1..MaxSessions, gen : -1..MaxStep,
     attempt : 0..(MaxAttempts - 1), policy : Steps, step : Steps]

Trainers ==
    [pc : {"ready", "waiting", "update", "sync", "stopped"}, step : 1..(MaxStep + 1)]

(* The types of the two records of control, field by field.                *)
LEMMA ControlTypes ==
    ASSUME TypeOK
    PROVE  /\ mgr \in Managers /\ trainer \in Trainers
           /\ mgr.pc \in {"idle", "rollout"} /\ mgr.session \in 1..MaxSessions
           /\ mgr.gen \in -1..MaxStep /\ mgr.attempt \in 0..(MaxAttempts - 1)
           /\ mgr.policy \in Steps /\ mgr.step \in Steps
           /\ trainer.pc \in {"ready", "waiting", "update", "sync", "stopped"}
           /\ trainer.step \in 1..(MaxStep + 1)
  BY DEF TypeOK, Managers, Trainers

LEMMA MgrPc ==
    ASSUME NEW m \in Managers, NEW pc \in {"idle", "rollout"}
    PROVE  /\ [m EXCEPT !.pc = pc] \in Managers /\ [m EXCEPT !.pc = pc].pc = pc
           /\ [m EXCEPT !.pc = pc].session = m.session /\ [m EXCEPT !.pc = pc].gen = m.gen
           /\ [m EXCEPT !.pc = pc].attempt = m.attempt
           /\ [m EXCEPT !.pc = pc].policy = m.policy /\ [m EXCEPT !.pc = pc].step = m.step
  BY DEF Managers

LEMMA MgrGen ==
    ASSUME NEW m \in Managers, NEW g \in -1..MaxStep
    PROVE  /\ [m EXCEPT !.gen = g] \in Managers /\ [m EXCEPT !.gen = g].pc = m.pc
           /\ [m EXCEPT !.gen = g].session = m.session /\ [m EXCEPT !.gen = g].gen = g
           /\ [m EXCEPT !.gen = g].attempt = m.attempt
           /\ [m EXCEPT !.gen = g].policy = m.policy /\ [m EXCEPT !.gen = g].step = m.step
  BY DEF Managers

LEMMA MgrAttempt ==
    ASSUME NEW m \in Managers, NEW a \in 0..(MaxAttempts - 1)
    PROVE  /\ [m EXCEPT !.attempt = a] \in Managers /\ [m EXCEPT !.attempt = a].pc = m.pc
           /\ [m EXCEPT !.attempt = a].session = m.session
           /\ [m EXCEPT !.attempt = a].gen = m.gen /\ [m EXCEPT !.attempt = a].attempt = a
           /\ [m EXCEPT !.attempt = a].policy = m.policy
           /\ [m EXCEPT !.attempt = a].step = m.step
  BY DEF Managers

(* The manager at the head of a call.                                      *)
Called(m, g, p, s) ==
    [m EXCEPT !.pc = "rollout", !.gen = g, !.attempt = 0, !.policy = p, !.step = s]

LEMMA MgrCall ==
    ASSUME NEW m \in Managers, NEW g \in -1..MaxStep, NEW p \in Steps, NEW s \in Steps
    PROVE  /\ Called(m, g, p, s) \in Managers /\ Called(m, g, p, s).pc = "rollout"
           /\ Called(m, g, p, s).session = m.session /\ Called(m, g, p, s).gen = g
           /\ Called(m, g, p, s).attempt = 0 /\ Called(m, g, p, s).policy = p
           /\ Called(m, g, p, s).step = s
  <1> DEFINE m1 == [m EXCEPT !.pc = "rollout"]
             m2 == [m1 EXCEPT !.gen = g]
             m3 == [m2 EXCEPT !.attempt = 0]
             m4 == [m3 EXCEPT !.policy = p]
             m5 == [m4 EXCEPT !.step = s]
  <1>1. 0 \in 0..(MaxAttempts - 1)
    BY Bounds
  <1>2. m1 \in Managers /\ m1.pc = "rollout" /\ m1.session = m.session
    BY MgrPc
  <1>3. Called(m, g, p, s) = m5
    BY DEF Called
  <1> HIDE DEF m1
  <1>4. m2 \in Managers /\ m2.pc = "rollout" /\ m2.session = m.session /\ m2.gen = g
    BY <1>2, MgrGen
  <1> HIDE DEF m2
  <1>5. /\ m3 \in Managers /\ m3.pc = "rollout" /\ m3.session = m.session /\ m3.gen = g
        /\ m3.attempt = 0
    BY <1>1, <1>4, MgrAttempt
  <1> HIDE DEF m3
  <1>6. /\ m4 \in Managers /\ m4.pc = "rollout" /\ m4.session = m.session /\ m4.gen = g
        /\ m4.attempt = 0 /\ m4.policy = p
    BY <1>5 DEF Managers
  <1> HIDE DEF m4
  <1>7. /\ m5 \in Managers /\ m5.pc = "rollout" /\ m5.session = m.session /\ m5.gen = g
        /\ m5.attempt = 0 /\ m5.policy = p /\ m5.step = s
    BY <1>6 DEF Managers
  <1> HIDE DEF m5
  <1>8. QED BY <1>3, <1>7

LEMMA TrainerPc ==
    ASSUME NEW t \in Trainers,
           NEW pc \in {"ready", "waiting", "update", "sync", "stopped"}
    PROVE  /\ [t EXCEPT !.pc = pc] \in Trainers /\ [t EXCEPT !.pc = pc].pc = pc
           /\ [t EXCEPT !.pc = pc].step = t.step
  BY DEF Trainers

(* The directories of an attempt.                                          *)
LEMMA DirsFacts ==
    ASSUME NEW s, NEW g, NEW a
    PROVE  /\ \A k \in Dirs(s, g, a) : k[1] = s /\ k[2] = g /\ k[3] = a /\ k[4] \in Positions
           /\ \A p \in Positions : Path(s, g, a, p) \in Dirs(s, g, a) /\ Path(s, g, a, p)[4] = p
           /\ s \in 1..MaxSessions /\ g \in 0..MaxStep /\ a \in 0..(MaxAttempts - 1) =>
                 Dirs(s, g, a) \subseteq Paths
  BY DEF Dirs, Path, Paths

LEMMA CurrentIs == CurrentDirs = Dirs(mgr.session, mgr.gen, mgr.attempt)
  BY DEF CurrentDirs, Dirs, EpisodeDir

Fresh(m) ==
    [pc |-> "dispatched", policy |-> m.policy, expected |-> m.step, calls |-> 0,
     steps |-> {}, confirmed |-> None, verifier |-> None]

(* What a dispatch leaves in the directories.                              *)
LEMMA DispatchedFacts ==
    ASSUME TypeOK, NEW m \in Managers
    PROVE  LET D == Dirs(m.session, m.gen, m.attempt)
           IN  /\ DOMAIN Dispatched(m) = DOMAIN ep \cup D
               /\ \A k \in D : Dispatched(m)[k] = Fresh(m)
               /\ \A k \in DOMAIN ep \ D : Dispatched(m)[k] = ep[k]
               /\ Fresh(m) \in Episodes
               /\ \A k \in DOMAIN Dispatched(m) : Dispatched(m)[k] \in Episodes
  <1> DEFINE D == Dirs(m.session, m.gen, m.attempt)
  <1>1. Dispatched(m) = [k \in DOMAIN ep \cup D |-> IF k \in D THEN Fresh(m) ELSE ep[k]]
    BY DEF Dispatched, Dirs, Fresh
  <1>2. Fresh(m) \in Episodes
    BY Bounds DEF Fresh, Episodes, Managers
  <1> HIDE DEF D
  <1>3. QED BY <1>1, <1>2 DEF TypeOK, D

LEMMA InitRInv == Init => RInv
  <1> SUFFICES ASSUME Init PROVE RInv
    OBVIOUS
  <1>1. DOMAIN ep = {} /\ DOMAIN batch = {}
    BY DEF Init
  <1>2. /\ trainer.pc = "ready" /\ trainer.step = 1 /\ mgr.pc = "idle" /\ mgr.gen = -1
        /\ mgr.policy = 0 /\ engine = 0 /\ rejected = {} /\ certified = {} /\ consumed = {}
        /\ late = {}
    BY DEF Init
  <1>3. TypeOK
    <2>1. trainer \in [pc : {"ready", "waiting", "update", "sync", "stopped"},
                       step : 1..(MaxStep + 1)]
      BY Bounds DEF Init
    <2>2. mgr \in [pc : {"idle", "rollout"}, session : 1..MaxSessions, gen : -1..MaxStep,
                   attempt : 0..(MaxAttempts - 1), policy : Steps, step : Steps]
      <3>1. 1 \in 1..MaxSessions /\ -1 \in -1..MaxStep /\ 0 \in 0..(MaxAttempts - 1) /\ 0 \in Steps
        BY Bounds DEF Steps
      <3>2. QED BY <3>1 DEF Init
    <2>3. engine \in Steps /\ dups \in 0..MaxDuplicates
      BY Bounds DEF Init, Steps
    <2>4. QED BY <1>1, <1>2, <2>1, <2>2, <2>3 DEF TypeOK, Init
  <1>4. Phases /\ EngineKept
    BY <1>2 DEF Phases, EngineKept
  <1>5. Placed /\ Served /\ CurrentCall /\ Certificates /\ Handed /\ Consumption
    BY <1>1, <1>2 DEF Placed, Served, CurrentCall, Certificates, Handed, Consumption
  <1>6. QED BY <1>3, <1>4, <1>5 DEF RInv
-----------------------------------------------------------------------------
(* Frames *)

(* A certificate stands as long as nobody touches its directories or adds  *)
(* a rejection to its call.                                                *)
LEMMA CertificatesStand ==
    ASSUME Certificates, certified' = certified,
           \A c \in certified : \A k \in c.dirs : k \in DOMAIN ep' /\ ep'[k] = ep[k],
           \A c \in certified : RejectedOf(c.session, c.gen)' = RejectedOf(c.session, c.gen)
    PROVE  Certificates'
  <1>1. ASSUME NEW c \in certified PROVE EvidenceOf(c)'
    <2>1. \A g : {ep'[k].verifier : k \in GroupIn(c.dirs, g)}
                 = {ep[k].verifier : k \in GroupIn(c.dirs, g)}
      BY DEF GroupIn
    <2>2. EvidenceOf(c)
      BY DEF Certificates
    <2>3. \A k \in c.dirs : k \in DOMAIN ep' /\ ep'[k] = ep[k]
      OBVIOUS
    <2>4. \A k \in c.dirs : /\ ep'[k].pc = "admitted" /\ ep'[k].policy = c.policy
                            /\ ep'[k].verifier \in {"PASSED", "FAILED"}
                            /\ Trusted => ep'[k].steps = {c.policy}
      BY <2>2, <2>3 DEF EvidenceOf
    <2>5. ASSUME NEW g \in Groups
          PROVE  /\ Cardinality(GroupIn(c.dirs, g)) >= MinimumGroupSize
                 /\ {ep'[k].verifier : k \in GroupIn(c.dirs, g)} = {"PASSED", "FAILED"}
      BY <2>1, <2>2 DEF EvidenceOf
    <2>6. c.dirs = Dirs(c.session, c.gen, c.attempt) /\ c.dirs \subseteq DOMAIN ep'
      BY <2>2, <2>3 DEF EvidenceOf
    <2>7. QED BY <2>4, <2>5, <2>6 DEF EvidenceOf
  <1>2. QED BY <1>1 DEF Certificates

(* The consumption and the handed batch stand on the certificates.         *)
LEMMA ConsumptionStands ==
    ASSUME Consumption, consumed' = consumed, certified \subseteq certified'
    PROVE  Consumption'
  BY DEF Consumption, RowsVerified, CertifiedAs

(* The parts of the type that a step of control leaves alone.              *)
LEMMA TypeStands ==
    ASSUME TypeOK, trainer' \in Trainers, mgr' \in Managers, engine' \in Steps,
           checkpoints' \subseteq Steps, DOMAIN ep' \subseteq Paths, DOMAIN ep \subseteq DOMAIN ep',
           \A k \in DOMAIN ep' : ep'[k] \in Episodes,
           duplicates' \subseteq DOMAIN ep', dups' \in 0..MaxDuplicates,
           \A r \in rejected' : r \in rejected \/ \E k \in Paths : r = <<k[1], k[2], k[3]>>,
           UNCHANGED <<certified, batch, consumed>>, late' \subseteq Paths
    PROVE  TypeOK'
  <1>1. \A r \in rejected' : \E k \in Paths : r = <<k[1], k[2], k[3]>>
    BY DEF TypeOK
  <1>2. \A c \in certified' : c.dirs \subseteq DOMAIN ep'
    BY DEF TypeOK
  <1>3. /\ \A i \in DOMAIN batch' : batch'[i] \in Rows
        /\ \A c \in consumed' : \A i \in DOMAIN c.rows : c.rows[i] \in Rows
    BY DEF TypeOK
  <1>4. QED BY <1>1, <1>2, <1>3 DEF TypeOK, Trainers, Managers

LEMMA DispatchEffect ==
    ASSUME RInv, NEW m \in Managers, m.gen >= 0, ep' = Dispatched(m),
           \A c \in certified : ~ (c.session = m.session /\ c.gen = m.gen)
    PROVE  /\ DOMAIN ep' \subseteq Paths /\ DOMAIN ep \subseteq DOMAIN ep'
           /\ \A k \in DOMAIN ep' : ep'[k] \in Episodes
           /\ Served'
           /\ \A c \in certified : \A k \in c.dirs : k \in DOMAIN ep' /\ ep'[k] = ep[k]
           /\ \A k \in Dirs(m.session, m.gen, m.attempt) :
                 /\ k \in DOMAIN ep' /\ ep'[k].policy = m.policy /\ ep'[k].expected = m.step
                 /\ ep'[k].steps = {}
           /\ \A k \in DOMAIN ep' : k \in DOMAIN ep \/ (k[1] = m.session /\ k[2] = m.gen)
  <1> DEFINE D == Dirs(m.session, m.gen, m.attempt)
  <1>1. /\ DOMAIN ep' = DOMAIN ep \cup D
        /\ \A k \in D : ep'[k] = Fresh(m)
        /\ \A k \in DOMAIN ep \ D : ep'[k] = ep[k]
        /\ \A k \in DOMAIN ep' : ep'[k] \in Episodes
    BY DispatchedFacts DEF RInv
  <1>2. /\ m.session \in 1..MaxSessions /\ m.gen \in 0..MaxStep
        /\ m.attempt \in 0..(MaxAttempts - 1)
    BY Bounds DEF Managers
  <1>3. D \subseteq Paths /\ \A k \in D : k[1] = m.session /\ k[2] = m.gen
    BY <1>2, DirsFacts
  <1>4. /\ Fresh(m).policy = m.policy /\ Fresh(m).expected = m.step /\ Fresh(m).steps = {}
        /\ Fresh(m).calls = 0 /\ Fresh(m).pc = "dispatched"
    BY DEF Fresh
  <1> HIDE DEF D
  <1>5. DOMAIN ep' \subseteq Paths /\ DOMAIN ep \subseteq DOMAIN ep'
    BY <1>1, <1>3 DEF RInv, TypeOK
  <1>6. Served'
    BY <1>1, <1>4 DEF RInv, Served
  <1>7. ASSUME NEW c \in certified, NEW k \in c.dirs PROVE k \in DOMAIN ep' /\ ep'[k] = ep[k]
    <2>1. c.dirs = Dirs(c.session, c.gen, c.attempt) /\ k \in DOMAIN ep
      BY DEF RInv, Certificates, EvidenceOf
    <2>2. k[1] = c.session /\ k[2] = c.gen
      BY <2>1, DirsFacts
    <2>3. k \notin D
      BY <1>3, <2>2
    <2>4. QED BY <1>1, <2>1, <2>3
  <1>8. \A k \in D : /\ k \in DOMAIN ep' /\ ep'[k].policy = m.policy /\ ep'[k].expected = m.step
                     /\ ep'[k].steps = {}
    BY <1>1, <1>4
  <1>9. \A k \in DOMAIN ep' : k \in DOMAIN ep \/ (k[1] = m.session /\ k[2] = m.gen)
    BY <1>1, <1>3
  <1>10. QED BY <1>1, <1>5, <1>6, <1>7, <1>8, <1>9 DEF D

LEMMA CallNumbers ==
    ASSUME RInv
    PROVE  /\ \A k \in DOMAIN ep : k[1] \in Int /\ k[2] \in Int
           /\ \A r \in rejected : r[1] \in Int /\ r[2] \in Int
           /\ \A c \in certified : c.session \in Int /\ c.gen \in Int
  <1>1. \A k \in DOMAIN ep : k[1] \in Int /\ k[2] \in Int
    BY DEF RInv, TypeOK, Paths
  <1>2. \A r \in rejected : r[1] \in Int /\ r[2] \in Int
    BY DEF RInv, TypeOK, Paths
  <1>3. ASSUME NEW c \in certified PROVE c.session \in Int /\ c.gen \in Int
    <2>1. c.dirs = Dirs(c.session, c.gen, c.attempt) /\ c.dirs \subseteq DOMAIN ep
      BY DEF RInv, Certificates, EvidenceOf
    <2>2. Path(c.session, c.gen, c.attempt, 1) \in c.dirs
      BY <2>1, Bounds, DirsFacts DEF Positions
    <2>3. /\ Path(c.session, c.gen, c.attempt, 1)[1] = c.session
          /\ Path(c.session, c.gen, c.attempt, 1)[2] = c.gen
      BY DEF Path
    <2>4. QED BY <1>1, <2>1, <2>2, <2>3
  <1>4. QED BY <1>1, <1>2, <1>3

(* What lies behind the manager stays behind it when it moves on.          *)
LEMMA PlacedStands ==
    ASSUME RInv, mgr' \in Managers, UNCHANGED certified,
           \/ mgr'.session = mgr.session /\ mgr'.gen >= mgr.gen
           \/ mgr'.session = mgr.session + 1,
           \A k \in DOMAIN ep' : k \in DOMAIN ep \/ (k[1] = mgr'.session /\ k[2] = mgr'.gen),
           \A r \in rejected' : r \in rejected \/ (r[1] = mgr'.session /\ r[2] = mgr'.gen)
    PROVE  Placed'
  <1>1. /\ mgr.session \in Int /\ mgr.gen \in Int /\ mgr'.session \in Int /\ mgr'.gen \in Int
    BY ControlTypes DEF RInv, Managers
  <1>2. \A x, g \in Int : UpToNow(x, g) => UpToNow(x, g)'
    BY <1>1 DEF UpToNow
  <1>3. \A x, g \in Int : x = mgr'.session /\ g = mgr'.gen => UpToNow(x, g)'
    BY <1>1 DEF UpToNow
  <1>4. \A k \in DOMAIN ep' : UpToNow(k[1], k[2])'
    BY <1>1, <1>2, <1>3, CallNumbers DEF RInv, Placed
  <1>5. \A r \in rejected' : UpToNow(r[1], r[2])'
    BY <1>1, <1>2, <1>3, CallNumbers DEF RInv, Placed
  <1>6. \A c \in certified' : UpToNow(c.session, c.gen)'
    BY <1>2, CallNumbers DEF RInv, Placed
  <1>7. QED BY <1>4, <1>5, <1>6 DEF Placed

LEMMA GenerateSequencesKeepsRInv ==
    ASSUME RInv, GenerateSequences
    PROVE  /\ RInv'
           /\ \A c \in certified : \A k \in c.dirs : ep'[k] = ep[k]
  <1>s. PICK s : s = trainer.step - 1
    OBVIOUS
  <1>m. PICK m : m = [mgr EXCEPT !.pc = "rollout", !.gen = mgr.gen + 1, !.attempt = 0,
                               !.policy = PolicyFor(s), !.step = s]
    OBVIOUS
  <1>1. /\ mgr \in Managers /\ trainer \in Trainers /\ mgr.gen \in -1..MaxStep
        /\ trainer.step \in 1..(MaxStep + 1) /\ mgr.policy \in Steps /\ mgr.session \in 1..MaxSessions
    BY ControlTypes DEF RInv
  <1>2. /\ trainer.pc = "ready" /\ trainer.step <= MaxStep /\ mgr.gen + 2 <= trainer.step
        /\ mgr.pc = "idle" /\ (trainer.step = 1 => mgr.policy = 0)
    BY ControlTypes DEF RInv, Phases, GenerateSequences
  <1>3. /\ s \in Steps /\ mgr.gen + 1 \in -1..MaxStep /\ mgr.gen + 1 >= 0 /\ s >= 0
        /\ mgr.gen + 2 <= trainer.step
    BY <1>s, <1>1, <1>2, Bounds DEF Steps
  <1>4. PolicyFor(s) = s
    BY <1>s, <1>1, <1>2, <1>3 DEF PolicyFor
  <1>5. /\ m \in Managers /\ m.pc = "rollout" /\ m.session = mgr.session /\ m.gen = mgr.gen + 1
        /\ m.attempt = 0 /\ m.policy = s /\ m.step = s
    <2>1. PICK g : g = mgr.gen + 1
      OBVIOUS
    <2>2. m = Called(mgr, g, s, s)
      BY <1>m, <1>4, <2>1 DEF Called
    <2>3. mgr \in Managers /\ g \in -1..MaxStep /\ s \in Steps
      BY <1>1, <1>3, <2>1
    <2>4. /\ m \in Managers /\ m.pc = "rollout" /\ m.session = mgr.session /\ m.gen = g
          /\ m.attempt = 0 /\ m.policy = s /\ m.step = s
      BY <2>2, <2>3, MgrCall
    <2>5. QED BY <2>1, <2>4
  <1>6. UNCHANGED <<engine, checkpoints, duplicates, dups, rejected, certified, batch,
                    consumed, late>>
    BY DEF GenerateSequences
  <1>7. \A x, g : UpToNow(x, g) => ~ (x = mgr.session /\ g = mgr.gen + 1 /\ g \in Int)
    BY <1>1 DEF UpToNow
  <1>8. CASE /\ mgr' = m
             /\ ep' = Dispatched(m)
             /\ trainer' = [trainer EXCEPT !.pc = "waiting"]
    <2>1. \A c \in certified : ~ (c.session = m.session /\ c.gen = m.gen)
      BY <1>1, <1>5, <1>7 DEF RInv, Placed
    <2>2. /\ DOMAIN ep' \subseteq Paths /\ DOMAIN ep \subseteq DOMAIN ep'
          /\ \A k \in DOMAIN ep' : ep'[k] \in Episodes
          /\ Served'
          /\ \A c \in certified : \A k \in c.dirs : k \in DOMAIN ep' /\ ep'[k] = ep[k]
          /\ \A k \in Dirs(m.session, m.gen, m.attempt) :
                /\ k \in DOMAIN ep' /\ ep'[k].policy = m.policy /\ ep'[k].expected = m.step
                /\ ep'[k].steps = {}
          /\ \A k \in DOMAIN ep' : k \in DOMAIN ep \/ (k[1] = m.session /\ k[2] = m.gen)
      BY <1>3, <1>5, <1>8, <2>1, DispatchEffect
    <2>3. trainer' \in Trainers /\ trainer'.pc = "waiting" /\ trainer'.step = trainer.step
      BY <1>1, <1>8, TrainerPc
    <2>4. TypeOK'
      <3>1. /\ engine' \in Steps /\ checkpoints' \subseteq Steps /\ dups' \in 0..MaxDuplicates
            /\ late' \subseteq Paths
            /\ duplicates' \subseteq DOMAIN ep'
        BY <1>6, <2>2 DEF RInv, TypeOK
      <3>2. QED BY <1>5, <1>6, <1>8, <2>2, <2>3, <3>1, TypeStands DEF RInv
    <2>5. Phases'
      <3>1. /\ mgr'.pc = "rollout" /\ mgr'.step = s /\ mgr'.policy = s
            /\ mgr'.gen = mgr.gen + 1
        BY <1>5, <1>8
      <3>2. /\ trainer'.pc = "waiting" /\ trainer'.step = s + 1 /\ s \in Int
            /\ trainer.step = s + 1 /\ mgr.gen \in Int
        BY <1>s, <1>1, <2>3
      <3>3. QED BY <1>2, <1>3, <3>1, <3>2 DEF Phases
    <2>6. EngineKept'
      BY <1>2, <1>6, <2>3 DEF RInv, EngineKept
    <2>7. Placed'
      BY <1>1, <1>5, <1>6, <1>8, <2>2, PlacedStands
    <2>8. CurrentCall'
      <3>1. CurrentDirs' = Dirs(m.session, m.gen, m.attempt)
        BY <1>8, CurrentIs DEF CurrentDirs, Dirs, EpisodeDir
      <3>2. RejectedOf(m.session, m.gen)' = {}
        <4>1. \A r \in rejected : ~ (r[1] = m.session /\ r[2] = m.gen)
          BY <1>1, <1>5, <1>7 DEF RInv, Placed
        <4>2. QED BY <1>6, <4>1 DEF RejectedOf
      <3>3. 0..(m.attempt - 1) = {}
        BY <1>5
      <3>4. QED BY <1>6, <1>8, <2>1, <2>2, <3>1, <3>2, <3>3 DEF CurrentCall
    <2>9. Certificates'
      BY <1>6, <2>2, CertificatesStand DEF RInv, RejectedOf
    <2>10. Handed' /\ Consumption'
      <3>1. Handed'
        BY <2>3 DEF Handed
      <3>2. QED BY <1>6, <3>1, ConsumptionStands DEF RInv
    <2>11. QED BY <2>2, <2>4, <2>5, <2>6, <2>7, <2>8, <2>9, <2>10 DEF RInv
  <1>9. CASE /\ mgr' = [mgr EXCEPT !.gen = m.gen]
             /\ trainer' = [trainer EXCEPT !.pc = "stopped"]
             /\ UNCHANGED ep
    <2>1. /\ mgr' \in Managers /\ mgr'.pc = "idle" /\ mgr'.session = mgr.session
          /\ mgr'.gen = mgr.gen + 1 /\ mgr'.policy = mgr.policy
      BY <1>1, <1>2, <1>3, <1>5, <1>9, MgrGen
    <2>2. trainer' \in Trainers /\ trainer'.pc = "stopped" /\ trainer'.step = trainer.step
      BY <1>1, <1>9, TrainerPc
    <2>3. TypeOK'
      <3>1. /\ engine' \in Steps /\ checkpoints' \subseteq Steps /\ dups' \in 0..MaxDuplicates
            /\ late' \subseteq Paths
            /\ duplicates' \subseteq DOMAIN ep' /\ DOMAIN ep' \subseteq Paths
            /\ \A k \in DOMAIN ep' : ep'[k] \in Episodes
        BY <1>6, <1>9 DEF RInv, TypeOK
      <3>2. QED BY <1>6, <1>9, <2>1, <2>2, <3>1, TypeStands DEF RInv
    <2>4. Phases' /\ EngineKept'
      BY <1>2, <2>1, <2>2 DEF Phases, EngineKept
    <2>5. Placed'
      BY <1>1, <1>6, <1>9, <2>1, PlacedStands
    <2>6. Served' /\ CurrentCall' /\ Handed'
      BY <1>9, <2>1, <2>2 DEF RInv, Served, CurrentCall, Handed
    <2>7. Certificates'
      <3>1. \A c \in certified : \A k \in c.dirs : k \in DOMAIN ep' /\ ep'[k] = ep[k]
        BY <1>9 DEF RInv, Certificates, EvidenceOf
      <3>2. QED BY <1>6, <3>1, CertificatesStand DEF RInv, RejectedOf
    <2>8. Consumption'
      BY <1>6, ConsumptionStands DEF RInv
    <2>9. QED BY <1>9, <2>3, <2>4, <2>5, <2>6, <2>7, <2>8 DEF RInv
  <1>10. QED BY <1>s, <1>m, <1>8, <1>9 DEF GenerateSequences

(* A rejection of the current call concerns no certificate.                *)
LEMMA RejectionEffect ==
    ASSUME RInv, mgr.pc = "rollout", RecordRejection
    PROVE  /\ \A c \in certified : RejectedOf(c.session, c.gen)' = RejectedOf(c.session, c.gen)
           /\ \A r \in rejected' : r \in rejected \/ (r[1] = mgr.session /\ r[2] = mgr.gen)
           /\ \A r \in rejected' : r \in rejected \/ \E k \in Paths : r = <<k[1], k[2], k[3]>>
           /\ \A x, g : x = mgr.session /\ g = mgr.gen =>
                 RejectedOf(x, g)' = 0..mgr.attempt
  <1> PICK q : q = <<mgr.session, mgr.gen, mgr.attempt>>
    OBVIOUS
  <1>1. rejected' = rejected \cup {q} /\ q[1] = mgr.session /\ q[2] = mgr.gen /\ q[3] = mgr.attempt
    BY DEF RecordRejection
  <1>2. /\ mgr.session \in 1..MaxSessions /\ mgr.gen \in 0..MaxStep
        /\ mgr.attempt \in 0..(MaxAttempts - 1) /\ mgr.attempt \in Nat
    BY ControlTypes, Bounds DEF RInv, Phases
  <1>3. \A c \in certified : ~ (c.session = mgr.session /\ c.gen = mgr.gen)
    BY DEF RInv, CurrentCall
  <1>4. ASSUME NEW c \in certified
        PROVE  RejectedOf(c.session, c.gen)' = RejectedOf(c.session, c.gen)
    BY <1>1, <1>3 DEF RejectedOf
  <1>5. \E k \in Paths : q = <<k[1], k[2], k[3]>>
    <2> DEFINE k == Path(mgr.session, mgr.gen, mgr.attempt, 1)
    <2>1. k \in Paths
      BY <1>2, Bounds DEF Path, Paths, Positions
    <2>2. q = <<k[1], k[2], k[3]>>
      BY DEF Path
    <2>3. QED BY <2>1, <2>2
  <1>6. ASSUME NEW x, NEW g, x = mgr.session, g = mgr.gen
        PROVE  RejectedOf(x, g)' = 0..mgr.attempt
    <2>1. RejectedOf(x, g) = 0..(mgr.attempt - 1)
      BY <1>6 DEF RInv, CurrentCall
    <2>2. RejectedOf(x, g)' = RejectedOf(x, g) \cup {mgr.attempt}
      BY <1>1, <1>6 DEF RejectedOf
    <2>3. 0..(mgr.attempt - 1) \cup {mgr.attempt} = 0..mgr.attempt
      BY <1>2
    <2>4. QED BY <2>1, <2>2, <2>3
  <1>7. QED BY <1>1, <1>4, <1>5, <1>6

(* generate_sequences raises.                                              *)
LEMMA AbortKeepsRInv ==
    ASSUME RInv, mgr.pc = "rollout", Abort, RecordRejection \/ UNCHANGED rejected,
           UNCHANGED <<engine, checkpoints, ep, duplicates, dups, certified, batch, consumed, late>>
    PROVE  /\ RInv'
           /\ \A c \in certified : \A k \in c.dirs : ep'[k] = ep[k]
  <1>1. /\ mgr' \in Managers /\ mgr'.pc = "idle" /\ mgr'.session = mgr.session
        /\ mgr'.gen = mgr.gen /\ mgr'.policy = mgr.policy
    BY ControlTypes, MgrPc DEF RInv, Abort
  <1>2. trainer' \in Trainers /\ trainer'.pc = "stopped" /\ trainer'.step = trainer.step
    BY ControlTypes, TrainerPc DEF RInv, Abort
  <1>3. /\ \A c \in certified : RejectedOf(c.session, c.gen)' = RejectedOf(c.session, c.gen)
        /\ \A r \in rejected' : r \in rejected \/ (r[1] = mgr.session /\ r[2] = mgr.gen)
        /\ \A r \in rejected' : r \in rejected \/ \E k \in Paths : r = <<k[1], k[2], k[3]>>
    <2>1. CASE RecordRejection
      BY <2>1, RejectionEffect
    <2>2. CASE UNCHANGED rejected
      BY <2>2 DEF RejectedOf
    <2>3. QED BY <2>1, <2>2
  <1>4. TypeOK'
    <2>1. /\ engine' \in Steps /\ checkpoints' \subseteq Steps /\ dups' \in 0..MaxDuplicates
          /\ late' \subseteq Paths
          /\ duplicates' \subseteq DOMAIN ep' /\ DOMAIN ep' \subseteq Paths
          /\ \A k \in DOMAIN ep' : ep'[k] \in Episodes
      BY DEF RInv, TypeOK
    <2>2. QED BY <1>1, <1>2, <1>3, <2>1, TypeStands DEF RInv
  <1>5. Phases' /\ EngineKept'
    BY <1>1, <1>2 DEF RInv, Phases, EngineKept
  <1>6. Placed'
    <2>1. mgr.gen \in Int
      BY ControlTypes DEF RInv
    <2>2. QED BY <1>1, <1>3, <2>1, PlacedStands
  <1>7. Served' /\ CurrentCall' /\ Handed'
    BY <1>1, <1>2 DEF RInv, Served, CurrentCall, Handed
  <1>8. Certificates'
    <2>1. \A c \in certified : \A k \in c.dirs : k \in DOMAIN ep' /\ ep'[k] = ep[k]
      BY DEF RInv, Certificates, EvidenceOf
    <2>2. QED BY <1>3, <2>1, CertificatesStand DEF RInv
  <1>9. Consumption'
    BY ConsumptionStands DEF RInv
  <1>10. QED BY <1>4, <1>5, <1>6, <1>7, <1>8, <1>9 DEF RInv

LEMMA RedrawKeepsRInv ==
    ASSUME RInv, mgr.pc = "rollout", Redraw,
           UNCHANGED <<engine, checkpoints, duplicates, dups, certified, batch, consumed, late>>
    PROVE  /\ RInv'
           /\ \A c \in certified : \A k \in c.dirs : ep'[k] = ep[k]
  <1>1. RecordRejection
    BY DEF Redraw
  <1>2. CASE Abort /\ UNCHANGED ep
    BY <1>1, <1>2, AbortKeepsRInv
  <1>3. CASE /\ mgr.attempt + 1 < MaxAttempts
             /\ mgr' = [mgr EXCEPT !.attempt = @ + 1]
             /\ ep' = Dispatched([mgr EXCEPT !.attempt = @ + 1])
             /\ UNCHANGED trainer
    <2>1. mgr \in Managers /\ mgr.attempt \in Nat /\ trainer \in Trainers
      BY ControlTypes, Bounds DEF RInv
    <2>a. PICK a : a = mgr.attempt + 1
      OBVIOUS
    <2>m. PICK m : m = [mgr EXCEPT !.attempt = a]
      OBVIOUS
    <2>2. a \in 0..(MaxAttempts - 1) /\ a - 1 = mgr.attempt
      BY <1>3, <2>1, <2>a, Bounds
    <2>3. /\ m \in Managers /\ m.pc = "rollout" /\ m.session = mgr.session /\ m.gen = mgr.gen
          /\ m.attempt = a /\ m.policy = mgr.policy /\ m.step = mgr.step
      BY <2>1, <2>2, <2>m, MgrAttempt
    <2>4. mgr' = m /\ ep' = Dispatched(m)
      BY <1>3, <2>a, <2>m
    <2>5. \A c \in certified : ~ (c.session = m.session /\ c.gen = m.gen)
      BY <2>3 DEF RInv, CurrentCall
    <2>6. m.gen >= 0 /\ m.gen \in Int
      BY <2>3, ControlTypes DEF RInv, Phases
    <2>7. /\ DOMAIN ep' \subseteq Paths /\ DOMAIN ep \subseteq DOMAIN ep'
          /\ \A k \in DOMAIN ep' : ep'[k] \in Episodes
          /\ Served'
          /\ \A c \in certified : \A k \in c.dirs : k \in DOMAIN ep' /\ ep'[k] = ep[k]
          /\ \A k \in Dirs(m.session, m.gen, m.attempt) :
                /\ k \in DOMAIN ep' /\ ep'[k].policy = m.policy /\ ep'[k].expected = m.step
                /\ ep'[k].steps = {}
          /\ \A k \in DOMAIN ep' : k \in DOMAIN ep \/ (k[1] = m.session /\ k[2] = m.gen)
      BY <2>3, <2>4, <2>5, <2>6, DispatchEffect
    <2>8. /\ \A c \in certified : RejectedOf(c.session, c.gen)' = RejectedOf(c.session, c.gen)
          /\ \A r \in rejected' : r \in rejected \/ (r[1] = mgr.session /\ r[2] = mgr.gen)
          /\ \A r \in rejected' : r \in rejected \/ \E k \in Paths : r = <<k[1], k[2], k[3]>>
          /\ \A x, g : x = mgr.session /\ g = mgr.gen => RejectedOf(x, g)' = 0..mgr.attempt
      BY <1>1, RejectionEffect
    <2>9. TypeOK'
      <3>1. /\ engine' \in Steps /\ checkpoints' \subseteq Steps /\ dups' \in 0..MaxDuplicates
            /\ late' \subseteq Paths
            /\ duplicates' \subseteq DOMAIN ep'
        BY <2>7 DEF RInv, TypeOK
      <3>2. QED BY <1>3, <2>1, <2>3, <2>4, <2>7, <2>8, <3>1, TypeStands DEF RInv
    <2>10. Phases' /\ EngineKept'
      BY <1>3, <2>3, <2>4 DEF RInv, Phases, EngineKept
    <2>11. Placed'
      BY <2>3, <2>4, <2>6, <2>7, <2>8, PlacedStands
    <2>12. CurrentCall'
      <3>1. CurrentDirs' = Dirs(m.session, m.gen, m.attempt)
        BY <2>4 DEF CurrentDirs, Dirs, EpisodeDir
      <3>2. RejectedOf(m.session, m.gen)' = 0..(m.attempt - 1)
        BY <2>2, <2>3, <2>8
      <3>3. QED BY <2>4, <2>5, <2>7, <3>1, <3>2 DEF CurrentCall
    <2>13. Certificates'
      BY <2>7, <2>8, CertificatesStand DEF RInv
    <2>14. Handed' /\ Consumption'
      <3>1. trainer' = trainer /\ trainer.pc = "waiting"
        BY <1>3 DEF RInv, Phases
      <3>2. Handed'
        BY <3>1 DEF Handed
      <3>3. QED BY <3>2, ConsumptionStands DEF RInv
    <2>15. QED BY <2>7, <2>9, <2>10, <2>11, <2>12, <2>13, <2>14 DEF RInv
  <1>4. QED BY <1>2, <1>3 DEF Redraw
-----------------------------------------------------------------------------
(* The batch gate *)

LEMMA PositionsFacts == IsFiniteSet(Positions) /\ Cardinality(Positions) = BatchSize
  <1>1. /\ IsFiniteSet(1..BatchSize)
        /\ Cardinality(1..BatchSize) = IF 1 > BatchSize THEN 0 ELSE BatchSize - 1 + 1
    BY Bounds, FS_Interval
  <1>2. QED BY <1>1, Bounds DEF Positions

(* Rows the framework may return, once their number is right.              *)
LEMMA ReturnedShape ==
    ASSUME NEW rows \in Returned, Cardinality(DOMAIN rows) = BatchSize
    PROVE  rows \in [Positions -> Rows]
  <1>1. /\ Faithful \in [Positions -> Rows]
        /\ \A i \in Positions : Faithful[i].ep = i /\ Faithful[i].intact = TRUE
    BY DEF Faithful, Rows
  <1>2. CASE rows = Faithful
    BY <1>1, <1>2
  <1>3. CASE rows = Shortened
    <2>1. DOMAIN rows = 1..(BatchSize - 1)
      BY <1>3 DEF Shortened
    <2>2. Cardinality(1..(BatchSize - 1)) =
             IF 1 > BatchSize - 1 THEN 0 ELSE (BatchSize - 1) - 1 + 1
      BY Bounds, FS_Interval
    <2>3. QED BY <2>1, <2>2, Bounds
  <1>4. CASE \E i \in Positions, r \in Rows : rows = Replaced(i, r)
    BY <1>1, <1>4 DEF Replaced
  <1>5. CASE \E i, j \in Positions : rows = Exchanged(i, j)
    <2>1. PICK i \in Positions, j \in Positions : rows = Exchanged(i, j)
      BY <1>5
    <2> DEFINE f == [Faithful EXCEPT ![i] = [Faithful[i] EXCEPT !.ep = j]]
    <2>2. \A r \in Rows : \A p \in Positions : [r EXCEPT !.ep = p] \in Rows
      BY DEF Rows
    <2>3. f \in [Positions -> Rows]
      BY <1>1, <2>2
    <2>4. rows = [f EXCEPT ![j] = [f[j] EXCEPT !.ep = i]]
      BY <2>1 DEF Exchanged
    <2> HIDE DEF f
    <2>5. QED BY <2>2, <2>3, <2>4
  <1>6. QED BY <1>2, <1>3, <1>4, <1>5 DEF Returned

LEMMA VerifiedRows ==
    ASSUME NEW rows \in Returned, BatchVerified(rows)
    PROVE  RowsVerified(rows)
  <1>1. rows \in [Positions -> Rows] /\ DOMAIN rows = Positions
    BY ReturnedShape DEF BatchVerified
  <1>2. /\ \A i, j \in Positions : rows[i].ep = rows[j].ep => i = j
        /\ \A i \in Positions : rows[i].intact /\ GroupOf[rows[i].ep] = GroupOf[i]
    BY <1>1 DEF BatchVerified
  <1> DEFINE f == [i \in Positions |-> rows[i].ep]
  <1>3. f \in Injection(Positions, Positions)
    BY <1>1, <1>2 DEF Injection, IsInjective, Rows
  <1>4. f \in Surjection(Positions, Positions)
    <2> HIDE DEF f
    <2>1. QED BY <1>3, PositionsFacts, FS_Injection
  <1>5. \A p \in Positions : \E i \in Positions : rows[i].ep = p
    BY <1>4 DEF Surjection
  <1>6. QED BY <1>1, <1>2, <1>5 DEF RowsVerified

(* Two outcomes, and not fewer than two of them.                           *)
LEMMA BothOutcomes ==
    ASSUME NEW V, V \subseteq {"PASSED", "FAILED"}, ~ (Cardinality(V) < 2)
    PROVE  V = {"PASSED", "FAILED"}
  <1>1. ASSUME NEW x, V \subseteq {x} PROVE FALSE
    <2>1. IsFiniteSet({x}) /\ Cardinality({x}) = 1
      BY FS_Singleton
    <2>2. IsFiniteSet(V) /\ Cardinality(V) <= 1
      BY <1>1, <2>1, FS_Subset
    <2>3. Cardinality(V) \in Nat
      BY <2>2, FS_CardinalityType
    <2>4. QED BY <2>2, <2>3
  <1>2. "PASSED" \in V
    BY <1>1
  <1>3. "FAILED" \in V
    BY <1>1
  <1>4. QED BY <1>2, <1>3

LEMMA GateCertifiesKeepsRInv ==
    ASSUME RInv, NEW rows \in Returned, GateCertifies(rows)
    PROVE  /\ RInv'
           /\ \A c \in certified : \A k \in c.dirs : ep'[k] = ep[k]
  <1>c. PICK c : c = [session |-> mgr.session, gen |-> mgr.gen, attempt |-> mgr.attempt,
                      policy |-> mgr.policy, dirs |-> CurrentDirs]
    OBVIOUS
  <1>1. /\ c.session = mgr.session /\ c.gen = mgr.gen /\ c.attempt = mgr.attempt
        /\ c.policy = mgr.policy /\ c.dirs = CurrentDirs
    BY <1>c
  <1>2. /\ mgr.pc = "rollout" /\ certified' = certified \cup {c} /\ batch' = rows
        /\ UNCHANGED <<engine, checkpoints, ep, duplicates, dups, rejected, consumed, late>>
    BY <1>c DEF GateCertifies, AttemptReturned
  <1>3. /\ mgr' \in Managers /\ mgr'.pc = "idle" /\ mgr'.session = mgr.session
        /\ mgr'.gen = mgr.gen /\ mgr'.attempt = mgr.attempt /\ mgr'.policy = mgr.policy
        /\ mgr'.step = mgr.step
    BY ControlTypes, MgrPc DEF RInv, GateCertifies
  <1>4. /\ trainer' \in Trainers /\ trainer'.pc = "update" /\ trainer'.step = trainer.step
        /\ trainer.pc = "waiting"
    BY <1>2, ControlTypes, TrainerPc DEF RInv, GateCertifies, Phases
  <1>5. RowsVerified(rows)
    BY VerifiedRows DEF GateCertifies
  <1>6. CurrentDirs \subseteq DOMAIN ep /\ CurrentDirs = Dirs(mgr.session, mgr.gen, mgr.attempt)
    BY <1>2, CurrentIs DEF RInv, CurrentCall
  <1>7. /\ mgr.step = mgr.policy /\ mgr.policy = trainer.step - 1
    BY <1>4 DEF RInv, Phases
  <1>8. EvidenceOf(c)
    <2>1. ASSUME NEW k \in CurrentDirs
          PROVE  /\ ep[k].pc = "admitted" /\ ep[k].policy = mgr.policy
                 /\ ep[k].verifier \in {"PASSED", "FAILED"}
                 /\ Trusted => ep[k].steps = {mgr.policy}
      <3>1. /\ ep[k].pc = "admitted" /\ ep[k].policy = mgr.policy
            /\ ep[k].verifier \in {"PASSED", "FAILED"}
        BY DEF GateCertifies, Certifiable, EvidenceHolds
      <3>2. ep[k].steps # {}
        BY <1>6, <3>1 DEF RInv, Served
      <3>3. Trusted => ep[k].steps \subseteq {mgr.step}
        BY <1>2 DEF RInv, CurrentCall
      <3>4. QED BY <1>7, <3>1, <3>2, <3>3
    <2>2. ASSUME NEW g \in Groups
          PROVE  /\ Cardinality(GroupIn(CurrentDirs, g)) >= MinimumGroupSize
                 /\ {ep[k].verifier : k \in GroupIn(CurrentDirs, g)} = {"PASSED", "FAILED"}
      <3>1. Group(g) = GroupIn(CurrentDirs, g)
        BY DEF Group, GroupIn
      <3>2. Cardinality(Group(g)) >= MinimumGroupSize
        BY DEF GateCertifies, Certifiable, GroupsLargeEnough
      <3>3. ~ (Cardinality({ep[k].verifier : k \in Group(g)}) < 2)
        BY DEF GateCertifies, Degenerate
      <3>4. {ep[k].verifier : k \in Group(g)} \subseteq {"PASSED", "FAILED"}
        BY <2>1 DEF Group
      <3>5. {ep[k].verifier : k \in Group(g)} = {"PASSED", "FAILED"}
        BY <3>3, <3>4, BothOutcomes
      <3>6. QED BY <3>1, <3>2, <3>5
    <2>3. QED BY <1>1, <1>6, <2>1, <2>2 DEF EvidenceOf
  <1>9. /\ \A d \in certified : ~ (d.session = c.session /\ d.gen = c.gen)
        /\ RejectedOf(c.session, c.gen) = 0..(c.attempt - 1)
    BY <1>1, <1>2 DEF RInv, CurrentCall
  <1>10. TypeOK'
    <2>1. \A d \in certified' : d.dirs \subseteq DOMAIN ep'
      BY <1>1, <1>2, <1>6 DEF RInv, TypeOK
    <2>2. \A i \in DOMAIN batch' : batch'[i] \in Rows
      BY <1>2, <1>5 DEF RowsVerified
    <2>3. /\ trainer' \in [pc : {"ready", "waiting", "update", "sync", "stopped"},
                           step : 1..(MaxStep + 1)]
          /\ mgr' \in [pc : {"idle", "rollout"}, session : 1..MaxSessions, gen : -1..MaxStep,
                       attempt : 0..(MaxAttempts - 1), policy : Steps, step : Steps]
      BY <1>3, <1>4 DEF Trainers, Managers
    <2>4. QED BY <1>2, <2>1, <2>2, <2>3 DEF RInv, TypeOK
  <1>11. Phases' /\ EngineKept'
    BY <1>2, <1>3, <1>4 DEF RInv, Phases, EngineKept
  <1>12. Placed'
    <2>1. \A x, g : UpToNow(x, g)' <=> UpToNow(x, g)
      BY <1>3 DEF UpToNow
    <2>2. UpToNow(mgr.session, mgr.gen)
      BY ControlTypes DEF RInv, UpToNow
    <2>3. \A d \in certified' : UpToNow(d.session, d.gen)
      BY <1>1, <1>2, <2>2 DEF RInv, Placed
    <2>4. QED BY <1>2, <2>1, <2>3 DEF RInv, Placed
  <1>13. Served' /\ CurrentCall'
    BY <1>2, <1>3 DEF RInv, Served, CurrentCall
  <1>14. Certificates'
    <2>1. \A d \in certified' : EvidenceOf(d)'
      <3>1. \A d : EvidenceOf(d)' <=> EvidenceOf(d)
        BY <1>2 DEF EvidenceOf
      <3>2. QED BY <1>2, <1>8, <3>1 DEF RInv, Certificates
    <2>2. \A d, e \in certified' : d.session = e.session /\ d.gen = e.gen => d = e
      BY <1>2, <1>9 DEF RInv, Certificates
    <2>3. \A d \in certified' : RejectedOf(d.session, d.gen)' = 0..(d.attempt - 1)
      <3>1. \A x, g : RejectedOf(x, g)' = RejectedOf(x, g)
        BY <1>2 DEF RejectedOf
      <3>2. QED BY <1>2, <1>9, <3>1 DEF RInv, Certificates
    <2>4. QED BY <2>1, <2>2, <2>3 DEF Certificates
  <1>15. Handed'
    <2>1. RowsVerified(batch')
      BY <1>2, <1>5
    <2>2. \E d \in certified' : /\ d.session = mgr.session /\ d.gen = mgr.gen
                                /\ d.attempt = mgr.attempt /\ d.policy = mgr.policy
      BY <1>1, <1>2
    <2>3. QED BY <1>3, <2>1, <2>2 DEF Handed, RowsVerified, CertifiedAs
  <1>16. Consumption'
    BY <1>2, ConsumptionStands DEF RInv
  <1>17. QED BY <1>2, <1>10, <1>11, <1>12, <1>13, <1>14, <1>15, <1>16 DEF RInv
-----------------------------------------------------------------------------
(* One episode *)

(* A task that still runs writes its own directory, and no certificate     *)
(* names the directory of a task that still runs.                          *)
LEMMA EpisodeKeepsRInv ==
    ASSUME RInv, NEW k \in DOMAIN ep, NEW e \in Episodes,
           ep[k].pc \in {"dispatched", "running"},
           e.policy = ep[k].policy, e.expected = ep[k].expected,
           e.calls > 0 \/ e.pc = "admitted" => e.steps # {},
           mgr.pc = "rollout" /\ k \in CurrentDirs /\ Trusted => e.steps \subseteq {mgr.step},
           ep' = [ep EXCEPT ![k] = e], EpisodeFrame, UNCHANGED duplicates
    PROVE  /\ RInv'
           /\ \A c \in certified : \A x \in c.dirs : ep'[x] = ep[x]
  <1>1. /\ DOMAIN ep' = DOMAIN ep /\ ep'[k] = e
        /\ \A x \in DOMAIN ep \ {k} : ep'[x] = ep[x]
    OBVIOUS
  <1>2. UNCHANGED <<trainer, engine, checkpoints, mgr, duplicates, dups, rejected, certified,
                    batch, consumed, late>>
    BY DEF EpisodeFrame
  <1>3. \A c \in certified : \A x \in c.dirs : x \in DOMAIN ep' /\ ep'[x] = ep[x]
    BY <1>1 DEF RInv, Certificates, EvidenceOf
  <1>4. \A x, g : RejectedOf(x, g)' = RejectedOf(x, g)
    BY <1>2 DEF RejectedOf
  <1>5. TypeOK'
    <2>1. \A x \in DOMAIN ep' : ep'[x] \in Episodes
      BY <1>1 DEF RInv, TypeOK
    <2>2. /\ trainer' \in Trainers /\ mgr' \in Managers /\ engine' \in Steps
          /\ checkpoints' \subseteq Steps /\ dups' \in 0..MaxDuplicates /\ late' \subseteq Paths
          /\ duplicates' \subseteq DOMAIN ep' /\ DOMAIN ep' \subseteq Paths
      BY <1>1, <1>2, ControlTypes DEF RInv, TypeOK
    <2>3. QED BY <1>1, <1>2, <2>1, <2>2, TypeStands DEF RInv
  <1>6. Phases' /\ EngineKept'
    BY <1>2 DEF RInv, Phases, EngineKept
  <1>7. Placed'
    BY <1>1, <1>2 DEF RInv, Placed, UpToNow
  <1>8. Served'
    BY <1>1 DEF RInv, Served
  <1>9. CurrentCall'
    <2>1. CurrentDirs' = CurrentDirs
      BY <1>2 DEF CurrentDirs, EpisodeDir
    <2>2. ASSUME mgr.pc = "rollout", NEW x \in CurrentDirs
          PROVE  /\ ep'[x].policy = mgr.policy /\ ep'[x].expected = mgr.step
                 /\ Trusted => ep'[x].steps \subseteq {mgr.step}
      BY <1>1, <2>2 DEF RInv, CurrentCall
    <2>3. QED BY <1>1, <1>2, <1>4, <2>1, <2>2 DEF RInv, CurrentCall
  <1>10. Certificates'
    BY <1>2, <1>3, <1>4, CertificatesStand DEF RInv
  <1>11. Handed'
    BY <1>2 DEF RInv, Handed, RowsVerified, CertifiedAs
  <1>12. Consumption'
    BY <1>2, ConsumptionStands DEF RInv
  <1>13. QED BY <1>3, <1>5, <1>6, <1>7, <1>8, <1>9, <1>10, <1>11, <1>12 DEF RInv

(* The fields of an episode that the other ones are told from.             *)
Alike(e, f) == e.policy = f.policy /\ e.expected = f.expected

LEMMA EpisodePc ==
    ASSUME NEW e \in Episodes, NEW pc \in {"dispatched", "running", "admitted", "raised"},
           NEW f, f = [e EXCEPT !.pc = pc]
    PROVE  /\ f \in Episodes /\ f.pc = pc /\ Alike(f, e)
           /\ f.calls = e.calls /\ f.steps = e.steps
  BY DEF Episodes, Alike

LEMMA EpisodeCalls ==
    ASSUME NEW e \in Episodes, NEW n \in 0..MaxRequests, NEW f, f = [e EXCEPT !.calls = n]
    PROVE  /\ f \in Episodes /\ f.pc = e.pc /\ Alike(f, e)
           /\ f.calls = n /\ f.steps = e.steps
  BY DEF Episodes, Alike

LEMMA EpisodeConfirmed ==
    ASSUME NEW e \in Episodes, NEW n \in Steps \cup {None}, NEW f,
           f = [e EXCEPT !.confirmed = n]
    PROVE  /\ f \in Episodes /\ f.pc = e.pc /\ Alike(f, e)
           /\ f.calls = e.calls /\ f.steps = e.steps
  BY DEF Episodes, Alike

LEMMA EpisodeSteps ==
    ASSUME NEW e \in Episodes, NEW S \in SUBSET Steps, NEW f, f = [e EXCEPT !.steps = S]
    PROVE  /\ f \in Episodes /\ f.pc = e.pc /\ Alike(f, e)
           /\ f.calls = e.calls /\ f.steps = S
  BY DEF Episodes, Alike

LEMMA EpisodeVerifier ==
    ASSUME NEW e \in Episodes, NEW v \in {None, "PASSED", "FAILED"}, NEW f,
           f = [e EXCEPT !.verifier = v]
    PROVE  /\ f \in Episodes /\ f.pc = e.pc /\ Alike(f, e)
           /\ f.calls = e.calls /\ f.steps = e.steps
  BY DEF Episodes, Alike

LEMMA EpisodeEnded ==
    ASSUME NEW e \in Episodes, NEW pc \in {"admitted", "raised"}
    PROVE  /\ Ended(e, pc) \in Episodes /\ Ended(e, pc).pc = pc /\ Alike(Ended(e, pc), e)
           /\ Ended(e, pc).calls = 0 /\ Ended(e, pc).steps = e.steps
  <1> DEFINE f == [e EXCEPT !.pc = pc]
             g == [f EXCEPT !.calls = 0]
             h == [g EXCEPT !.confirmed = None]
  <1>1. Ended(e, pc) = h
    BY DEF Ended
  <1>2. f \in Episodes /\ f.pc = pc /\ Alike(f, e) /\ f.steps = e.steps
    BY EpisodePc
  <1> HIDE DEF f
  <1>3. 0 \in 0..MaxRequests
    BY Bounds
  <1>4. g \in Episodes /\ g.pc = pc /\ Alike(g, f) /\ g.calls = 0 /\ g.steps = f.steps
    BY <1>2, <1>3, EpisodeCalls
  <1> HIDE DEF g
  <1>5. h \in Episodes /\ h.pc = pc /\ Alike(h, g) /\ h.calls = 0 /\ h.steps = g.steps
    BY <1>4, EpisodeConfirmed
  <1> HIDE DEF h
  <1>6. QED BY <1>1, <1>2, <1>4, <1>5 DEF Alike

LEMMA EpisodeRaised ==
    ASSUME NEW e \in Episodes
    PROVE  /\ Raised(e) \in Episodes /\ Raised(e).pc = "raised" /\ Alike(Raised(e), e)
           /\ Raised(e).calls = 0 /\ Raised(e).steps = {}
  <1> DEFINE f == Ended(e, "raised")
             g == [f EXCEPT !.steps = {}]
             h == [g EXCEPT !.verifier = None]
  <1>1. Raised(e) = h
    BY DEF Raised
  <1>2. f \in Episodes /\ f.pc = "raised" /\ Alike(f, e) /\ f.calls = 0
    BY EpisodeEnded
  <1> HIDE DEF f
  <1>3. g \in Episodes /\ g.pc = "raised" /\ Alike(g, f) /\ g.calls = 0 /\ g.steps = {}
    BY <1>2, EpisodeSteps
  <1> HIDE DEF g
  <1>4. h \in Episodes /\ h.pc = "raised" /\ Alike(h, g) /\ h.calls = 0 /\ h.steps = {}
    BY <1>3, EpisodeVerifier
  <1> HIDE DEF h
  <1>5. QED BY <1>1, <1>2, <1>3, <1>4 DEF Alike

(* The episode after a model call that weights s served.                   *)
Asked(e, s, n) == [e EXCEPT !.calls = @ + 1, !.steps = @ \cup {s}, !.confirmed = n]

LEMMA EpisodeAsked ==
    ASSUME NEW e \in Episodes, NEW s \in Steps, NEW n \in Steps \cup {None},
           e.calls < MaxRequests, NEW a, a = Asked(e, s, n)
    PROVE  /\ a \in Episodes /\ a.pc = e.pc /\ Alike(a, e) /\ a.steps = e.steps \cup {s}
  <1> DEFINE f == [e EXCEPT !.calls = e.calls + 1]
             g == [f EXCEPT !.steps = e.steps \cup {s}]
             h == [g EXCEPT !.confirmed = n]
  <1>1. e.calls \in 0..MaxRequests /\ e.steps \in SUBSET Steps
    BY DEF Episodes
  <1>2. e.calls + 1 \in 0..MaxRequests /\ e.steps \cup {s} \in SUBSET Steps
    BY <1>1, Bounds
  <1>3. f \in Episodes /\ f.pc = e.pc /\ Alike(f, e) /\ f.steps = e.steps
    BY <1>2, EpisodeCalls
  <1>4. a = h
    BY <1>3 DEF Asked
  <1> HIDE DEF f
  <1>5. g \in Episodes /\ g.pc = f.pc /\ Alike(g, f) /\ g.steps = e.steps \cup {s}
    BY <1>2, <1>3, EpisodeSteps
  <1> HIDE DEF g
  <1>6. h \in Episodes /\ h.pc = g.pc /\ Alike(h, g) /\ h.steps = g.steps
    BY <1>5, EpisodeConfirmed
  <1> HIDE DEF h
  <1>7. QED BY <1>3, <1>4, <1>5, <1>6 DEF Alike

LEMMA EpisodeStepKeepsRInv ==
    ASSUME RInv, NEW k \in DOMAIN ep, EpisodeStep(k)
    PROVE  /\ RInv'
           /\ \A c \in certified : \A x \in c.dirs : ep'[x] = ep[x]
  <1>1. /\ ep[k] \in Episodes /\ engine \in Steps
        /\ ep[k].calls > 0 \/ ep[k].pc = "admitted" => ep[k].steps # {}
    BY DEF RInv, TypeOK, Served
  <1>2. mgr.pc = "rollout" /\ k \in CurrentDirs /\ Trusted => ep[k].steps \subseteq {mgr.step}
    BY DEF RInv, CurrentCall
  <1>3. CASE StartEpisode(k)
    <2>1. PICK e : e = [ep[k] EXCEPT !.pc = "running"]
      OBVIOUS
    <2>2. e \in Episodes /\ Alike(e, ep[k]) /\ e.pc = "running" /\ e.calls = ep[k].calls
          /\ e.steps = ep[k].steps
      BY <1>1, <2>1, EpisodePc
    <2>3. /\ ep[k].pc \in {"dispatched", "running"} /\ ep' = [ep EXCEPT ![k] = e]
          /\ EpisodeFrame /\ UNCHANGED duplicates
      BY <1>3, <2>1 DEF StartEpisode, SetEpisode
    <2>4. QED BY <1>1, <1>2, <2>2, <2>3, EpisodeKeepsRInv DEF Alike
  <1>4. CASE ModelCall(k)
    <2>n. PICK n : n = IF Reported = None THEN ep[k].confirmed ELSE Reported
      OBVIOUS
    <2>e. PICK e : e = Asked(ep[k], engine, n)
      OBVIOUS
    <2>1. n \in Steps \cup {None}
      <3>1. Reported \in Steps \cup {None}
        BY <1>1 DEF Reported
      <3>2. ep[k].confirmed \in Steps \cup {None}
        BY <1>1 DEF Episodes
      <3>3. QED BY <2>n, <3>1, <3>2
    <2>2. ep[k].calls < MaxRequests /\ ep[k].pc = "running"
      BY <1>4 DEF ModelCall
    <2>3. e \in Episodes /\ e.pc = "running" /\ Alike(e, ep[k])
          /\ e.steps = ep[k].steps \cup {engine}
      BY <1>1, <2>1, <2>2, <2>e, EpisodeAsked
    <2>4. ep' = [ep EXCEPT ![k] = e] /\ EpisodeFrame /\ UNCHANGED duplicates
      BY <1>4, <2>n, <2>e DEF ModelCall, SetEpisode, Asked
    <2>5. ASSUME mgr.pc = "rollout", k \in CurrentDirs, Trusted PROVE engine = mgr.step
      <3>1. CASE EngineReports
        <4>1. Reported = engine /\ engine # None
          BY <1>1, <3>1, Bounds DEF Reported, Steps
        <4>2. engine = ep[k].expected
          BY <1>4, <4>1 DEF ModelCall, StepAccepted
        <4>3. QED BY <2>5, <4>2 DEF RInv, CurrentCall
      <3>2. CASE ~SyncMayLag
        BY <2>5, <3>2 DEF RInv, Phases, EngineKept
      <3>3. QED BY <2>5, <3>1, <3>2 DEF Trusted
    <2>6. mgr.pc = "rollout" /\ k \in CurrentDirs /\ Trusted => e.steps \subseteq {mgr.step}
      BY <1>2, <2>3, <2>5
    <2>7. e.steps # {}
      BY <2>3
    <2>8. QED BY <2>2, <2>3, <2>4, <2>6, <2>7, EpisodeKeepsRInv DEF Alike
  <1>5. CASE EpisodeRaises(k)
    <2>1. PICK e : e = Raised(ep[k])
      OBVIOUS
    <2>2. e \in Episodes /\ Alike(e, ep[k]) /\ e.pc = "raised" /\ e.calls = 0 /\ e.steps = {}
      BY <1>1, <2>1, EpisodeRaised
    <2>3. /\ ep[k].pc \in {"dispatched", "running"} /\ ep' = [ep EXCEPT ![k] = e]
          /\ EpisodeFrame /\ UNCHANGED duplicates
      BY <1>5, <2>1 DEF EpisodeRaises, SetEpisode
    <2>4. ~ (e.calls > 0 \/ e.pc = "admitted") /\ e.steps \subseteq {mgr.step}
      BY <2>2
    <2>5. QED BY <2>2, <2>3, <2>4, EpisodeKeepsRInv DEF Alike
  <1>6. ASSUME NEW v \in {"PASSED", "FAILED"}, FinishEpisode(k, v)
        PROVE  /\ RInv'
               /\ \A c \in certified : \A x \in c.dirs : ep'[x] = ep[x]
    <2>f. PICK f : f = Ended(ep[k], "admitted")
      OBVIOUS
    <2>e. PICK e : e = [f EXCEPT !.verifier = v]
      OBVIOUS
    <2>1. f \in Episodes /\ Alike(f, ep[k]) /\ f.pc = "admitted" /\ f.steps = ep[k].steps
      BY <1>1, <2>f, EpisodeEnded
    <2>2. e \in Episodes /\ Alike(e, f) /\ e.pc = "admitted" /\ e.steps = f.steps
      BY <2>1, <2>e, EpisodeVerifier
    <2>3. /\ ep[k].pc \in {"dispatched", "running"} /\ ep[k].calls > 0
          /\ ep' = [ep EXCEPT ![k] = e] /\ EpisodeFrame /\ UNCHANGED duplicates
      BY <1>6, <2>f, <2>e DEF FinishEpisode, SetEpisode
    <2>4. QED BY <1>1, <1>2, <2>1, <2>2, <2>3, EpisodeKeepsRInv DEF Alike
  <1>7. QED BY <1>3, <1>4, <1>5, <1>6 DEF EpisodeStep
-----------------------------------------------------------------------------
(* Repeated dispatches and the trainer *)

(* A step that leaves the directories, the manager and the certificates.   *)
LEMMA EvidenceStands ==
    ASSUME RInv, UNCHANGED <<mgr, ep, rejected, certified>>
    PROVE  /\ Placed' /\ Served' /\ CurrentCall' /\ Certificates'
           /\ \A c \in certified : \A k \in c.dirs : ep'[k] = ep[k]
  <1>1. \A x, g : RejectedOf(x, g)' = RejectedOf(x, g)
    BY DEF RejectedOf
  <1>2. CurrentDirs' = CurrentDirs
    BY DEF CurrentDirs, EpisodeDir
  <1>3. Placed' /\ Served'
    BY DEF RInv, Placed, Served, UpToNow
  <1>4. CurrentCall'
    BY <1>1, <1>2 DEF RInv, CurrentCall
  <1>5. \A c \in certified : \A k \in c.dirs : k \in DOMAIN ep' /\ ep'[k] = ep[k]
    BY DEF RInv, Certificates, EvidenceOf
  <1>6. Certificates'
    BY <1>1, <1>5, CertificatesStand DEF RInv
  <1>7. QED BY <1>3, <1>4, <1>5, <1>6

LEMMA DuplicatesKeepRInv ==
    ASSUME RInv, duplicates' \subseteq DOMAIN ep, dups' \in 0..MaxDuplicates,
           late' \subseteq Paths,
           UNCHANGED <<trainer, engine, checkpoints, mgr, ep, rejected, certified, batch,
                       consumed>>
    PROVE  /\ RInv'
           /\ \A c \in certified : \A k \in c.dirs : ep'[k] = ep[k]
  <1>1. /\ Placed' /\ Served' /\ CurrentCall' /\ Certificates'
        /\ \A c \in certified : \A k \in c.dirs : ep'[k] = ep[k]
    BY EvidenceStands
  <1>2. TypeOK'
    BY DEF RInv, TypeOK
  <1>3. Phases' /\ EngineKept'
    BY DEF RInv, Phases, EngineKept
  <1>4. Handed'
    BY DEF RInv, Handed, RowsVerified, CertifiedAs
  <1>5. Consumption'
    BY ConsumptionStands DEF RInv
  <1>6. QED BY <1>1, <1>2, <1>3, <1>4, <1>5 DEF RInv

LEMMA DispatchingAgainKeepsRInv ==
    ASSUME RInv, NEW k \in DOMAIN ep, RefuseDuplicate(k) \/ DispatchAgain(k) \/ LateRow(k)
    PROVE  /\ RInv'
           /\ \A c \in certified : \A x \in c.dirs : ep'[x] = ep[x]
  <1>1. /\ duplicates \subseteq DOMAIN ep /\ dups \in 0..MaxDuplicates
        /\ DOMAIN ep \subseteq Paths /\ late \subseteq Paths
    BY DEF RInv, TypeOK
  <1>2. CASE RefuseDuplicate(k)
    BY <1>1, <1>2, DuplicatesKeepRInv DEF RefuseDuplicate, EpisodeFrame
  <1>3. CASE DispatchAgain(k)
    <2>1. duplicates' \subseteq DOMAIN ep /\ dups' \in 0..MaxDuplicates
      BY <1>1, <1>3, Bounds DEF DispatchAgain
    <2>2. QED BY <1>1, <1>3, <2>1, DuplicatesKeepRInv DEF DispatchAgain
  <1>4. CASE LateRow(k)
    <2>1. late' \subseteq Paths
      BY <1>1, <1>4 DEF LateRow
    <2>2. QED BY <1>1, <1>4, <2>1, DuplicatesKeepRInv DEF LateRow
  <1>5. QED BY <1>2, <1>3, <1>4

LEMMA TrainerUpdatesKeepsRInv ==
    ASSUME RInv, NEW saved \in BOOLEAN, TrainerUpdates(saved)
    PROVE  /\ RInv'
           /\ \A c \in certified : \A k \in c.dirs : ep'[k] = ep[k]
  <1>u. PICK u : u = [step |-> trainer.step, session |-> mgr.session, gen |-> mgr.gen,
                      attempt |-> mgr.attempt, rows |-> batch]
    OBVIOUS
  <1>1. /\ trainer.pc = "update" /\ consumed' = consumed \cup {u}
        /\ trainer' = [trainer EXCEPT !.pc = "sync"]
        /\ checkpoints' = checkpoints \/ checkpoints' = checkpoints \cup {trainer.step}
        /\ UNCHANGED <<engine, mgr, ep, duplicates, dups, rejected, certified, batch, late>>
    BY <1>u DEF TrainerUpdates
  <1>2. /\ u.step = trainer.step /\ u.session = mgr.session /\ u.gen = mgr.gen
        /\ u.attempt = mgr.attempt /\ u.rows = batch
    BY <1>u
  <1>3. trainer' \in Trainers /\ trainer'.pc = "sync" /\ trainer'.step = trainer.step
    BY <1>1, ControlTypes, TrainerPc DEF RInv
  <1>4. trainer.step \in Steps /\ mgr.policy = trainer.step - 1
    BY <1>1, ControlTypes, Bounds DEF RInv, Phases, Steps
  <1>5. /\ RowsVerified(batch)
        /\ CertifiedAs(mgr.session, mgr.gen, mgr.attempt, mgr.policy)
    BY <1>1 DEF RInv, Handed
  <1>6. /\ Placed' /\ Served' /\ CurrentCall' /\ Certificates'
        /\ \A c \in certified : \A k \in c.dirs : ep'[k] = ep[k]
    BY <1>1, EvidenceStands
  <1>7. TypeOK'
    <2>1. checkpoints' \subseteq Steps
      BY <1>1, <1>4 DEF RInv, TypeOK
    <2>2. \A c \in consumed' : \A i \in DOMAIN c.rows : c.rows[i] \in Rows
      BY <1>1, <1>2 DEF RInv, TypeOK
    <2>3. trainer' \in [pc : {"ready", "waiting", "update", "sync", "stopped"},
                        step : 1..(MaxStep + 1)]
      BY <1>3 DEF Trainers
    <2>4. QED BY <1>1, <2>1, <2>2, <2>3 DEF RInv, TypeOK
  <1>8. Phases' /\ EngineKept' /\ Handed'
    BY <1>1, <1>3 DEF RInv, Phases, EngineKept, Handed
  <1>9. Consumption'
    <2>1. \A r : RowsVerified(r)' <=> RowsVerified(r)
      BY DEF RowsVerified
    <2>2. \A x, g, a, q : CertifiedAs(x, g, a, q)' <=> CertifiedAs(x, g, a, q)
      BY <1>1 DEF CertifiedAs
    <2>3. RowsVerified(u.rows) /\ CertifiedAs(u.session, u.gen, u.attempt, u.step - 1)
      BY <1>2, <1>4, <1>5
    <2>4. \A c \in consumed' :
             RowsVerified(c.rows) /\ CertifiedAs(c.session, c.gen, c.attempt, c.step - 1)
      BY <1>1, <2>3 DEF RInv, Consumption
    <2>5. QED BY <2>1, <2>2, <2>4 DEF Consumption
  <1>10. QED BY <1>6, <1>7, <1>8, <1>9 DEF RInv

LEMMA TrainerSyncsKeepsRInv ==
    ASSUME RInv, NEW synced \in BOOLEAN, TrainerSyncs(synced)
    PROVE  /\ RInv'
           /\ \A c \in certified : \A k \in c.dirs : ep'[k] = ep[k]
  <1>1. /\ trainer.pc = "sync" /\ trainer' = [pc |-> "ready", step |-> trainer.step + 1]
        /\ engine' = trainer.step \/ (SyncMayLag /\ engine' = engine)
        /\ UNCHANGED <<checkpoints, mgr, ep, duplicates, dups, rejected, certified, batch,
                       consumed, late>>
    BY DEF TrainerSyncs
  <1>2. /\ trainer.step \in 1..MaxStep /\ mgr.gen + 1 <= trainer.step /\ mgr.pc # "rollout"
        /\ mgr.gen \in Int
    BY <1>1, ControlTypes, Bounds DEF RInv, Phases
  <1>3. trainer'.pc = "ready" /\ trainer'.step = trainer.step + 1
    BY <1>1
  <1>4. /\ Placed' /\ Served' /\ CurrentCall' /\ Certificates'
        /\ \A c \in certified : \A k \in c.dirs : ep'[k] = ep[k]
    BY <1>1, EvidenceStands
  <1>5. TypeOK'
    <2>1. trainer.step + 1 \in 1..(MaxStep + 1)
      BY <1>2, Bounds
    <2>2. trainer' \in [pc : {"ready", "waiting", "update", "sync", "stopped"},
                        step : 1..(MaxStep + 1)]
      BY <1>1, <2>1
    <2>3. engine' \in Steps
      BY <1>1, <1>2, Bounds DEF RInv, TypeOK, Steps
    <2>4. QED BY <1>1, <2>2, <2>3 DEF RInv, TypeOK
  <1>6. Phases' /\ EngineKept' /\ Handed'
    BY <1>1, <1>2, <1>3 DEF Phases, EngineKept, Handed
  <1>7. Consumption'
    BY <1>1, ConsumptionStands DEF RInv
  <1>8. QED BY <1>4, <1>5, <1>6, <1>7 DEF RInv

LEMMA Least ==
    ASSUME NEW T, T \subseteq Nat, T # {}
    PROVE  \E n \in T : \A m \in T : ~ (m < n)
  <1> DEFINE R == OpToRel(<, Nat)
  <1>1. \A x, y \in Nat : x < y => <<x, y>> \in R
    BY DEF OpToRel
  <1>2. IsWellFoundedOn(R, Nat)
    BY NatLessThanWellFounded
  <1> HIDE DEF R
  <1>3. PICK n \in T : \A m \in T : ~ (<<m, n>> \in R)
    BY <1>2, WFMin
  <1>4. QED BY <1>1, <1>3

(* A bounded set of numbers has a greatest member.                         *)
LEMMA Greatest ==
    ASSUME NEW T, T \subseteq Steps, T # {}
    PROVE  \E n \in T : \A m \in T : m <= n
  <1> DEFINE U == {MaxStep - t : t \in T}
  <1>1. U \subseteq Nat
    BY Bounds DEF Steps
  <1>2. U # {}
    OBVIOUS
  <1>3. PICK u \in U : \A v \in U : ~ (v < u)
    <2> HIDE DEF U
    <2>1. QED BY <1>1, <1>2, Least
  <1>4. PICK n \in T : u = MaxStep - n
    OBVIOUS
  <1>5. ASSUME NEW m \in T PROVE m <= n
    <2>1. ~ (MaxStep - m < u)
      BY <1>3
    <2>2. m \in Nat /\ n \in Nat
      BY DEF Steps
    <2>3. QED BY <1>4, <2>1, <2>2, Bounds
  <1>6. QED BY <1>5

LEMMA LatestIsStep == ASSUME TypeOK PROVE Latest \in Steps
  <1> DEFINE T == checkpoints \cup {0}
  <1>1. T \subseteq Steps /\ T # {}
    BY Bounds DEF TypeOK, Steps
  <1>2. \E n \in T : \A m \in checkpoints : m <= n
    BY <1>1, Greatest
  <1>3. Latest \in T
    BY <1>2 DEF Latest
  <1>4. QED BY <1>1, <1>3

LEMMA RestartKeepsRInv ==
    ASSUME RInv, Restart
    PROVE  /\ RInv'
           /\ \A c \in certified : \A k \in c.dirs : ep'[k] = ep[k]
  <1>1. /\ UNCHANGED <<checkpoints, dups, rejected, certified, batch, consumed>>
        /\ duplicates' = {} /\ late' \subseteq late
    BY DEF Restart
  <1>2. /\ mgr' \in Managers /\ mgr'.pc = "idle" /\ mgr'.session = mgr.session + 1
        /\ mgr'.gen = -1 /\ mgr'.policy = 0
    <2>1. /\ mgr.session + 1 \in 1..MaxSessions /\ -1 \in -1..MaxStep
          /\ 0 \in 0..(MaxAttempts - 1) /\ 0 \in Steps
      BY ControlTypes, Bounds DEF RInv, Restart, Steps
    <2>2. mgr' = [pc |-> "idle", session |-> mgr.session + 1, gen |-> -1, attempt |-> 0,
                  policy |-> 0, step |-> 0]
      BY DEF Restart
    <2>3. QED BY <2>1, <2>2 DEF Managers
  <1>3. /\ Latest \in Steps /\ engine' = Latest /\ trainer' \in Trainers
        /\ trainer'.pc = "ready" /\ trainer'.step = Latest + 1
    <2>1. Latest \in Steps
      BY LatestIsStep DEF RInv
    <2>2. Latest + 1 \in 1..(MaxStep + 1)
      BY <2>1, Bounds DEF Steps
    <2>3. trainer' = [pc |-> "ready", step |-> Latest + 1] /\ engine' = Latest
      BY DEF Restart
    <2>4. QED BY <2>1, <2>2, <2>3 DEF Trainers
  <1>4. /\ DOMAIN ep' = DOMAIN ep
        /\ \A k \in DOMAIN ep : ep'[k] = ep[k] \/ ep'[k] = Raised(ep[k])
        /\ \A c \in certified : \A k \in c.dirs : k \in DOMAIN ep' /\ ep'[k] = ep[k]
    <2>1. \A c \in certified : c.dirs \subseteq DOMAIN ep
      BY DEF RInv, TypeOK
    <2>2. QED BY <2>1 DEF Restart
  <1>5. ASSUME NEW k \in DOMAIN ep
        PROVE  /\ ep'[k] \in Episodes
               /\ ep'[k].calls > 0 \/ ep'[k].pc = "admitted" => ep'[k].steps # {}
    <2>1. /\ ep[k] \in Episodes
          /\ ep[k].calls > 0 \/ ep[k].pc = "admitted" => ep[k].steps # {}
      BY DEF RInv, TypeOK, Served
    <2>2. Raised(ep[k]) \in Episodes /\ Raised(ep[k]).pc = "raised" /\ Raised(ep[k]).calls = 0
      BY <2>1, EpisodeRaised
    <2>3. QED BY <1>4, <2>1, <2>2
  <1>6. TypeOK'
    <2>1. /\ checkpoints' \subseteq Steps /\ dups' \in 0..MaxDuplicates
          /\ DOMAIN ep' \subseteq Paths /\ late' \subseteq Paths
      BY <1>1, <1>4 DEF RInv, TypeOK
    <2>2. QED BY <1>1, <1>2, <1>3, <1>4, <1>5, <2>1, TypeStands DEF RInv
  <1>7. Phases' /\ EngineKept'
    BY <1>2, <1>3, Bounds DEF Phases, EngineKept, Steps
  <1>8. Placed'
    BY <1>1, <1>2, <1>4, PlacedStands
  <1>9. Served' /\ CurrentCall' /\ Handed'
    BY <1>2, <1>3, <1>4, <1>5 DEF Served, CurrentCall, Handed
  <1>10. Certificates'
    <2>1. \A x, g : RejectedOf(x, g)' = RejectedOf(x, g)
      BY <1>1 DEF RejectedOf
    <2>2. QED BY <1>1, <1>4, <2>1, CertificatesStand DEF RInv
  <1>11. Consumption'
    BY <1>1, ConsumptionStands DEF RInv
  <1>12. QED BY <1>4, <1>6, <1>7, <1>8, <1>9, <1>10, <1>11 DEF RInv
-----------------------------------------------------------------------------
(* The theorems *)

LEMMA RInvStep ==
    ASSUME RInv, [Next]_vars
    PROVE  /\ RInv'
           /\ \A c \in certified : \A k \in c.dirs : ep'[k] = ep[k]
  <1> DEFINE Kept == RInv' /\ \A c \in certified : \A k \in c.dirs : ep'[k] = ep[k]
  <1>1. CASE GenerateSequences
    BY <1>1, GenerateSequencesKeepsRInv
  <1>2. CASE GateRedraws
    BY <1>2, RedrawKeepsRInv DEF GateRedraws, AttemptReturned
  <1>3. ASSUME NEW rows \in Returned, GateAborts(rows) PROVE Kept
    BY <1>3, AbortKeepsRInv DEF GateAborts, AttemptReturned
  <1>4. ASSUME NEW rows \in Returned, GateCertifies(rows) PROVE Kept
    BY <1>4, GateCertifiesKeepsRInv
  <1>5. CASE AttemptRaises
    BY <1>5, RedrawKeepsRInv DEF AttemptRaises
  <1>6. ASSUME NEW k \in DOMAIN ep, EpisodeStep(k) PROVE Kept
    BY <1>6, EpisodeStepKeepsRInv
  <1>7. ASSUME NEW k \in DOMAIN ep, LateRow(k) \/ RefuseDuplicate(k) \/ DispatchAgain(k)
        PROVE  Kept
    BY <1>7, DispatchingAgainKeepsRInv
  <1>8. ASSUME NEW b \in BOOLEAN, TrainerUpdates(b) PROVE Kept
    BY <1>8, TrainerUpdatesKeepsRInv
  <1>9. ASSUME NEW b \in BOOLEAN, TrainerSyncs(b) PROVE Kept
    BY <1>9, TrainerSyncsKeepsRInv
  <1>10. CASE Restart
    BY <1>10, RestartKeepsRInv
  <1>11. CASE UNCHANGED vars
    <2>1. duplicates' \subseteq DOMAIN ep /\ dups' \in 0..MaxDuplicates /\ late' \subseteq Paths
      BY <1>11 DEF vars, RInv, TypeOK
    <2>2. QED BY <1>11, <2>1, DuplicatesKeepRInv DEF vars
  <1> HIDE DEF Kept
  <1>12. Kept
    BY <1>1, <1>2, <1>3, <1>4, <1>5, <1>6, <1>7, <1>8, <1>9, <1>10, <1>11
       DEF Next, Manager, Kept
  <1>13. QED BY <1>12 DEF Kept

LEMMA RInvHolds == Spec => []RInv
  <1>1. RInv /\ [Next]_vars => RInv'
    BY RInvStep
  <1>2. QED BY <1>1, InitRInv, PTL DEF Spec

(* The rows of an update are the directories of its certificate, one each, *)
(* every one in the group of its prompt.                                   *)
LEMMA RowsAreDirectories ==
    ASSUME RInv, NEW c \in consumed
    PROVE  /\ DOMAIN c.rows = Positions
           /\ \E d \in certified :
                 /\ d.session = c.session /\ d.gen = c.gen /\ d.attempt = c.attempt
                 /\ d.policy = c.step - 1 /\ EvidenceOf(d)
                 /\ \A i \in Positions : DirOf(c, i) \in d.dirs
                 /\ \A i \in Positions : GroupOf[DirOf(c, i)[4]] = GroupOf[i]
                 /\ \A k \in d.dirs : \E i \in Positions : k = DirOf(c, i)
                 /\ \A i, j \in Positions : DirOf(c, i) = DirOf(c, j) => i = j
  <1>1. /\ c.rows \in [Positions -> Rows]
        /\ \A i, j \in Positions : c.rows[i].ep = c.rows[j].ep => i = j
        /\ \A p \in Positions : \E i \in Positions : c.rows[i].ep = p
        /\ \A i \in Positions : c.rows[i].intact /\ GroupOf[c.rows[i].ep] = GroupOf[i]
    BY DEF RInv, Consumption, RowsVerified
  <1>2. PICK d \in certified : /\ d.session = c.session /\ d.gen = c.gen
                               /\ d.attempt = c.attempt /\ d.policy = c.step - 1
    BY DEF RInv, Consumption, CertifiedAs
  <1>3. EvidenceOf(d) /\ d.dirs = {Path(c.session, c.gen, c.attempt, p) : p \in Positions}
    BY <1>2 DEF RInv, Certificates, EvidenceOf, Dirs
  <1>4. \A i \in Positions : /\ c.rows[i].ep \in Positions
                             /\ DirOf(c, i) = Path(c.session, c.gen, c.attempt, c.rows[i].ep)
                             /\ DirOf(c, i)[4] = c.rows[i].ep
    BY <1>1 DEF Rows, DirOf, Path
  <1>5. \A i \in Positions : DirOf(c, i) \in d.dirs /\ GroupOf[DirOf(c, i)[4]] = GroupOf[i]
    BY <1>1, <1>3, <1>4
  <1>6. \A k \in d.dirs : \E i \in Positions : k = DirOf(c, i)
    BY <1>1, <1>3, <1>4
  <1>7. \A i, j \in Positions : DirOf(c, i) = DirOf(c, j) => i = j
    BY <1>1, <1>4
  <1>8. QED BY <1>1, <1>2, <1>3, <1>5, <1>6, <1>7

(* Sets in one-to-one correspondence are equally large.                    *)
LEMMA OneToOne ==
    ASSUME NEW S, NEW T, IsFiniteSet(S), NEW f \in [S -> T],
           \A k \in T : \E i \in S : k = f[i], \A i, j \in S : f[i] = f[j] => i = j
    PROVE  Cardinality(T) = Cardinality(S)
  <1>1. f \in Bijection(S, T)
    BY DEF Bijection, Injection, Surjection, IsInjective
  <1>2. ExistsBijection(S, T)
    BY <1>1 DEF ExistsBijection
  <1>3. QED BY <1>2, FS_Bijection

LEMMA UpdatesOnPolicy == RInv => OnPolicy
  <1> SUFFICES ASSUME RInv, EngineReports \/ ~SyncMayLag, NEW c \in consumed,
                      NEW i \in DOMAIN c.rows
               PROVE  /\ ep[DirOf(c, i)].steps = {c.step - 1}
                      /\ ep[DirOf(c, i)].policy = c.step - 1
    BY DEF OnPolicy
  <1>1. PICK d \in certified : /\ d.policy = c.step - 1 /\ EvidenceOf(d)
                               /\ DirOf(c, i) \in d.dirs
    BY RowsAreDirectories
  <1>2. QED BY <1>1 DEF EvidenceOf, Trusted

LEMMA UpdatesCertified == RInv => TrainsCertified
  <1> SUFFICES ASSUME RInv PROVE TrainsCertified
    OBVIOUS
  <1>1. ASSUME NEW c \in consumed
        PROVE  \E d \in certified :
                  /\ d.session = c.session /\ d.gen = c.gen /\ d.attempt = c.attempt
                  /\ d.policy = c.step - 1
                  /\ {DirOf(c, i) : i \in DOMAIN c.rows} = d.dirs
                  /\ Cardinality(DOMAIN c.rows) = Cardinality(d.dirs)
                  /\ \A i \in DOMAIN c.rows :
                        c.rows[i].intact /\ GroupOf[c.rows[i].ep] = GroupOf[i]
    <2>1. DOMAIN c.rows = Positions
      BY RowsAreDirectories
    <2>2. PICK d \in certified :
                 /\ d.session = c.session /\ d.gen = c.gen /\ d.attempt = c.attempt
                 /\ d.policy = c.step - 1
                 /\ \A i \in Positions : DirOf(c, i) \in d.dirs
                 /\ \A k \in d.dirs : \E i \in Positions : k = DirOf(c, i)
                 /\ \A i, j \in Positions : DirOf(c, i) = DirOf(c, j) => i = j
      BY RowsAreDirectories
    <2>3. {DirOf(c, i) : i \in DOMAIN c.rows} = d.dirs
      BY <2>1, <2>2
    <2> DEFINE f == [i \in Positions |-> DirOf(c, i)]
    <2>4. /\ f \in [Positions -> d.dirs]
          /\ \A k \in d.dirs : \E i \in Positions : k = f[i]
          /\ \A i, j \in Positions : f[i] = f[j] => i = j
      BY <2>2
    <2> HIDE DEF f
    <2>5. Cardinality(DOMAIN c.rows) = Cardinality(d.dirs)
      BY <2>1, <2>4, PositionsFacts, OneToOne
    <2>6. \A i \in Positions : c.rows[i].intact /\ GroupOf[c.rows[i].ep] = GroupOf[i]
      BY DEF RInv, Consumption, RowsVerified
    <2>7. QED BY <2>1, <2>2, <2>3, <2>5, <2>6
  <1>2. QED BY <1>1 DEF TrainsCertified, RInv

LEMMA UpdatesHaveSignal == RInv => GroupSignal
  <1> SUFFICES ASSUME RInv, NEW c \in consumed, NEW g \in Groups
               PROVE  /\ Cardinality({i \in DOMAIN c.rows : GroupOf[i] = g})
                            >= MinimumGroupSize
                      /\ {ep[DirOf(c, i)].verifier :
                             i \in {j \in DOMAIN c.rows : GroupOf[j] = g}}
                            = {"PASSED", "FAILED"}
    BY DEF GroupSignal
  <1>1. DOMAIN c.rows = Positions
    BY RowsAreDirectories
  <1>2. PICK d \in certified :
               /\ EvidenceOf(d)
               /\ \A i \in Positions : DirOf(c, i) \in d.dirs
               /\ \A i \in Positions : GroupOf[DirOf(c, i)[4]] = GroupOf[i]
               /\ \A k \in d.dirs : \E i \in Positions : k = DirOf(c, i)
               /\ \A i, j \in Positions : DirOf(c, i) = DirOf(c, j) => i = j
    BY RowsAreDirectories
  <1>s. PICK S : S = {i \in Positions : GroupOf[i] = g}
    OBVIOUS
  <1>t. PICK T : T = GroupIn(d.dirs, g)
    OBVIOUS
  <1>3. /\ \A i \in S : DirOf(c, i) \in T
        /\ \A k \in T : \E i \in S : k = DirOf(c, i)
        /\ \A i, j \in S : DirOf(c, i) = DirOf(c, j) => i = j
    BY <1>2, <1>s, <1>t DEF GroupIn
  <1>4. IsFiniteSet(S)
    BY <1>s, PositionsFacts, FS_Subset
  <1> DEFINE f == [i \in S |-> DirOf(c, i)]
  <1>5. /\ f \in [S -> T]
        /\ \A k \in T : \E i \in S : k = f[i]
        /\ \A i, j \in S : f[i] = f[j] => i = j
    BY <1>3
  <1> HIDE DEF f
  <1>6. Cardinality(T) = Cardinality(S)
    BY <1>4, <1>5, OneToOne
  <1>7. Cardinality(T) >= MinimumGroupSize /\ {ep[k].verifier : k \in T} = {"PASSED", "FAILED"}
    BY <1>2, <1>t DEF EvidenceOf
  <1>8. {ep[DirOf(c, i)].verifier : i \in S} = {ep[k].verifier : k \in T}
    BY <1>3
  <1>9. QED BY <1>1, <1>s, <1>6, <1>7, <1>8

(* For every batch, grouping and interleaving of stragglers, repeated      *)
(* dispatches, missed syncs and restarts: whatever the optimizer was given *)
(* at step n was sampled, call by call, from the weights of step n - 1,    *)
(* if the engine states its step or no sync is missed.                     *)
THEOREM NoStaleTokens == Spec => []OnPolicy
  BY RInvHolds, UpdatesOnPolicy, PTL

(* For every batch and whatever the framework does to the rows it returns: *)
(* the optimizer consumes the certified directories of that call and       *)
(* attempt, each once, unchanged and in its group (_verify_returned_batch).*)
THEOREM OnlyTheCertified == Spec => []TrainsCertified
  BY RInvHolds, UpdatesCertified, PTL

(* For every grouping: every group of an update has the minimum number of  *)
(* episodes and both outcomes among them (certify_batch).                  *)
THEOREM EveryGroupHasSignal == Spec => []GroupSignal
  BY RInvHolds, UpdatesHaveSignal, PTL

(* For every number of attempts, calls and restarts: a call has one        *)
(* certificate at most, and the rejections of exactly the attempts before  *)
(* the certified one are on disk (certify_with_resampling).                *)
THEOREM RedrawsAreOnRecord == Spec => []RedrawsAudited
  <1>1. RInv => RedrawsAudited
    BY DEF RInv, Certificates, RejectedOf, RedrawsAudited
  <1>2. QED BY <1>1, RInvHolds, PTL

(* The only step that writes a certificate looks at the evidence again.    *)
LEMMA CertifiesWholeEvidence ==
    ASSUME [Next]_vars
    PROVE  \A c \in certified' \ certified : c.dirs \cap late = {}
  <1>1. ASSUME NEW rows, GateCertifies(rows)
        PROVE  \A c \in certified' \ certified : c.dirs \cap late = {}
    <2>1. \A c \in certified' \ certified : c.dirs = CurrentDirs
      BY <1>1 DEF GateCertifies
    <2>2. \A k \in CurrentDirs : k \notin late
      BY <1>1 DEF GateCertifies, Certifiable, EvidenceHolds
    <2>3. QED BY <2>1, <2>2
  <1>2. CASE UNCHANGED certified
    BY <1>2
  <1>3. \/ UNCHANGED certified
        \/ \E rows \in Returned : GateCertifies(rows)
    BY DEF Next, vars, Manager, GenerateSequences, GateRedraws, GateAborts, AttemptRaises,
           EpisodeStep, StartEpisode, ModelCall, EpisodeRaises, FinishEpisode, EpisodeFrame,
           LateRow, RefuseDuplicate, DispatchAgain, TrainerUpdates, TrainerSyncs, Restart
  <1>4. QED BY <1>1, <1>2, <1>3

(* For every batch and interleaving of stragglers, second dispatches, late *)
(* serving threads, calls and restarts: the admitted sequence, verdict and *)
(* stamps under a certificate never change, and no certificate is given    *)
(* over evidence that has grown past its sequence (_certify_from_evidence).*)
THEOREM EvidenceIsFinal == Spec => CertifiedEvidenceFrozen
  <1> DEFINE Final == /\ \A c \in certified : \A k \in c.dirs : ep'[k] = ep[k]
                      /\ \A c \in certified' \ certified : c.dirs \cap late = {}
  <1>1. RInv /\ [Next]_vars => [Final]_vars
    BY RInvStep, CertifiesWholeEvidence
  <1>2. QED BY <1>1, RInvHolds, PTL DEF Spec, CertifiedEvidenceFrozen
=============================================================================
