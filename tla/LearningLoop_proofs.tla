------------------------- MODULE LearningLoop_proofs -------------------------
(***************************************************************************)
(* The learning-loop supervisor is safe to restart for every number and    *)
(* kind of stages, however often it is started, killed or has its          *)
(* artifacts edited.                                                       *)
(*                                                                         *)
(* The invariant adds what makes the state file trustworthy: a live        *)
(* supervisor holds what is on file, a command runs under an entry that is *)
(* the last of the log, and in the log a COMPLETED stage with a command is *)
(* followed by no entry of its own but behind a refusal.                   *)
(***************************************************************************)
EXTENDS LearningLoop, FiniteSetTheorems, TLAPS

LoopTypeOK ==
    /\ sup \in [pc : {"down", "visit", "wait"}, stage : 1..(Stages + 1), state : LoopStates]
    /\ past \in [starts : Nat, edits : Nat, redone : SUBSET (1..Stages)]

(* A stage with a command that is completed has no later entry unless a    *)
(* refusal is the first of them.                                           *)
RunOnce(log) ==
    \A i, j \in DOMAIN log :
        /\ i < j /\ log[i].name = log[j].name
        /\ log[i].name \in Unattended /\ log[i].status = "COMPLETED"
        => \E k \in (i + 1)..j : log[k] = [name |-> log[i].name, status |-> "REJECTED"]

(* What may be on file.                                                    *)
Honest(state) ==
    /\ state \in LoopStates
    /\ RunOnce(state.log)
    /\ state.status = "COMPLETED" =>
          \A s \in 1..Stages : StatusOfStage(state.log, s) = "COMPLETED"

OnFile == IF file = None THEN FreshState ELSE file

LInv ==
    /\ LoopTypeOK
    /\ file # None => Honest(file)
    /\ sup.pc # "down" =>
          /\ sup.state = OnFile
          /\ \A s \in 1..(sup.stage - 1) : StatusOfStage(sup.state.log, s) = "COMPLETED"
    /\ sup.pc = "wait" =>
          /\ sup.stage <= Stages
          /\ Len(sup.state.log) > 0
          /\ sup.state.log[Len(sup.state.log)] = [name |-> sup.stage, status |-> "RUNNING"]
    /\ past.redone = {}
-----------------------------------------------------------------------------
(* The log *)

LEMMA StagesFacts ==
    /\ Stages \in Nat /\ Stages >= 1 /\ None \notin LoopStates /\ None # "COMPLETED"
    /\ Unattended \subseteq 1..Stages
  BY StagesAssumption

LEMMA LastOf ==
    ASSUME NEW n \in Nat, NEW T, T \subseteq 1..n, T # {}
    PROVE  Max(T) \in T /\ \A m \in T : m <= Max(T)
  <1> DEFINE U == {n - t : t \in T}
             R == OpToRel(<, Nat)
  <1>1. U \subseteq Nat
    OBVIOUS
  <1>2. U # {}
    OBVIOUS
  <1>3. \A x, y \in Nat : x < y => <<x, y>> \in R
    BY DEF OpToRel
  <1>4. IsWellFoundedOn(R, Nat)
    BY NatLessThanWellFounded
  <1> HIDE DEF R
  <1>5. PICK u \in U : \A v \in U : ~ (<<v, u>> \in R)
    <2> HIDE DEF U
    <2>1. QED BY <1>1, <1>2, <1>4, WFMin
  <1>6. PICK g \in T : u = n - g
    OBVIOUS
  <1>7. ASSUME NEW m \in T PROVE g >= m
    <2>1. n - m \in U /\ n - m \in Nat /\ u \in Nat
      BY <1>1
    <2>2. ~ (n - m < u)
      BY <1>3, <1>5, <2>1
    <2>3. m \in Nat /\ g \in Nat
      OBVIOUS
    <2>4. QED BY <1>6, <2>1, <2>2, <2>3
  <1>8. Max(T) \in T /\ \A m \in T : Max(T) >= m
    BY <1>7 DEF Max
  <1>9. \A m \in T : m \in Nat
    OBVIOUS
  <1>10. QED BY <1>8, <1>9

(* The latest entry of a stage, by what distinguishes it.                  *)
LEMMA LatestIs ==
    ASSUME NEW log \in Seq(LogEntries), NEW s
    PROVE  /\ (\A i \in 1..Len(log) : log[i].name # s) => StatusOfStage(log, s) = None
           /\ \A n \in 1..Len(log) :
                 log[n].name = s /\ (\A i \in 1..Len(log) : log[i].name = s => i <= n)
                 => LatestEntry(log, s) = n /\ StatusOfStage(log, s) = log[n].status
           /\ (\A i \in 1..Len(log) : log[i].name # s)
              \/ \E n \in 1..Len(log) :
                    log[n].name = s /\ (\A i \in 1..Len(log) : log[i].name = s => i <= n)
  <1>t. PICK T : T = {i \in DOMAIN log : log[i].name = s}
    OBVIOUS
  <1>1. DOMAIN log = 1..Len(log) /\ Len(log) \in Nat
    OBVIOUS
  <1>2. T \subseteq 1..Len(log)
    BY <1>t, <1>1
  <1>3. LatestEntry(log, s) = IF T = {} THEN 0 ELSE Max(T)
    BY <1>t DEF LatestEntry
  <1>4. T # {} => Max(T) \in T /\ \A m \in T : m <= Max(T)
    BY <1>1, <1>2, LastOf
  <1>5. ASSUME \A i \in 1..Len(log) : log[i].name # s PROVE StatusOfStage(log, s) = None
    <2>1. T = {}
      BY <1>t, <1>1, <1>5
    <2>2. QED BY <1>3, <2>1 DEF StatusOfStage
  <1>6. ASSUME NEW n \in 1..Len(log), log[n].name = s,
               \A i \in 1..Len(log) : log[i].name = s => i <= n
        PROVE  LatestEntry(log, s) = n /\ StatusOfStage(log, s) = log[n].status
    <2>1. n \in T /\ \A i \in T : i <= n
      BY <1>t, <1>1, <1>6
    <2>2. Max(T) \in T /\ n <= Max(T) /\ Max(T) <= n
      BY <1>4, <2>1
    <2>3. Max(T) = n
      <3>m. PICK m : m = Max(T)
        OBVIOUS
      <3>1. m \in T /\ n <= m /\ m <= n
        BY <2>2, <3>m
      <3>2. m \in 1..Len(log)
        BY <1>2, <3>1
      <3>3. m = n
        BY <1>1, <3>1, <3>2
      <3>4. QED BY <3>3, <3>m
    <2>4. LatestEntry(log, s) = n /\ n # 0
      BY <1>3, <2>1, <2>3
    <2>5. QED BY <2>4 DEF StatusOfStage
  <1>7. (\A i \in 1..Len(log) : log[i].name # s)
        \/ \E n \in 1..Len(log) :
              log[n].name = s /\ (\A i \in 1..Len(log) : log[i].name = s => i <= n)
    <2>1. CASE T = {}
      BY <1>t, <1>1, <2>1
    <2>2. CASE T # {}
      <3>1. Max(T) \in 1..Len(log) /\ log[Max(T)].name = s
        BY <1>t, <1>1, <1>4, <2>2
      <3>2. \A i \in 1..Len(log) : log[i].name = s => i <= Max(T)
        BY <1>t, <1>1, <1>4, <2>2
      <3>3. QED BY <3>1, <3>2
    <2>3. QED BY <2>1, <2>2
  <1>8. QED BY <1>5, <1>6, <1>7

LEMMA EnteredIs ==
    ASSUME NEW log \in Seq(LogEntries), NEW s \in 1..Stages,
           NEW x \in {"COMPLETED", "REJECTED", "WAITING", "RUNNING", "FAILED"}
    PROVE  /\ Entered(log, s, x) \in Seq(LogEntries) /\ Len(Entered(log, s, x)) = Len(log) + 1
           /\ Entered(log, s, x)[Len(log) + 1] = [name |-> s, status |-> x]
           /\ \A i \in 1..Len(log) : Entered(log, s, x)[i] = log[i]
  <1>1. [name |-> s, status |-> x] \in LogEntries
    BY DEF LogEntries
  <1> DEFINE e == [name |-> s, status |-> x]
  <1> HIDE DEF e
  <1>2. /\ Append(log, e) \in Seq(LogEntries) /\ Len(Append(log, e)) = Len(log) + 1
        /\ Append(log, e)[Len(log) + 1] = e
        /\ \A i \in 1..Len(log) : Append(log, e)[i] = log[i]
    BY <1>1 DEF e
  <1>3. QED BY <1>2 DEF e, Entered

LEMMA MarkedIs ==
    ASSUME NEW log \in Seq(LogEntries), NEW n \in 1..Len(log),
           NEW x \in {"COMPLETED", "REJECTED", "WAITING", "RUNNING", "FAILED"}
    PROVE  /\ Marked(log, n, x) \in Seq(LogEntries) /\ Len(Marked(log, n, x)) = Len(log)
           /\ Marked(log, n, x)[n] = [name |-> log[n].name, status |-> x]
           /\ \A i \in 1..Len(log) : i # n => Marked(log, n, x)[i] = log[i]
  <1>1. log[n] \in LogEntries
    OBVIOUS
  <1> DEFINE e == [log[n] EXCEPT !.status = x]
  <1>2. e = [name |-> log[n].name, status |-> x] /\ e \in LogEntries
    BY <1>1 DEF LogEntries
  <1>3. Marked(log, n, x) = [log EXCEPT ![n] = e]
    BY DEF Marked
  <1> HIDE DEF e
  <1>4. QED BY <1>2, <1>3

(* An entry changes the status of its own stage only.                      *)
LEMMA StatusEntered ==
    ASSUME NEW log \in Seq(LogEntries), NEW s \in 1..Stages,
           NEW x \in {"COMPLETED", "REJECTED", "WAITING", "RUNNING", "FAILED"}, NEW t
    PROVE  StatusOfStage(Entered(log, s, x), t)
             = IF t = s THEN x ELSE StatusOfStage(log, t)
  <1>n. PICK new : new = Entered(log, s, x)
    OBVIOUS
  <1>l. PICK l : l = Len(log)
    OBVIOUS
  <1>1. /\ l \in Nat /\ new \in Seq(LogEntries) /\ Len(new) = l + 1
        /\ new[l + 1].name = s /\ new[l + 1].status = x
        /\ \A i \in 1..l : new[i] = log[i]
    <2>1. /\ new \in Seq(LogEntries) /\ Len(new) = Len(log) + 1
          /\ new[Len(log) + 1] = [name |-> s, status |-> x]
          /\ \A i \in 1..Len(log) : new[i] = log[i]
      BY <1>n, EnteredIs, ZenonT(60)
    <2>2. l \in Nat
      BY <1>l
    <2>3. QED BY <1>l, <2>1, <2>2
  <1>2. CASE t = s
    <2>1. l + 1 \in 1..Len(new) /\ \A i \in 1..Len(new) : i <= l + 1
      BY <1>1
    <2>2. StatusOfStage(new, t) = new[l + 1].status
      BY <1>1, <1>2, <2>1, LatestIs
    <2>3. QED BY <1>n, <1>1, <1>2, <2>2
  <1>3. CASE t # s
    <2>1. CASE \A i \in 1..Len(log) : log[i].name # t
      <3>1. \A i \in 1..Len(new) : new[i].name # t
        BY <1>l, <1>1, <1>3, <2>1
      <3>2. StatusOfStage(new, t) = None /\ StatusOfStage(log, t) = None
        BY <1>1, <2>1, <3>1, LatestIs
      <3>3. QED BY <1>n, <1>3, <3>2
    <2>2. ASSUME NEW n \in 1..Len(log), log[n].name = t,
                 \A i \in 1..Len(log) : log[i].name = t => i <= n
          PROVE  StatusOfStage(new, t) = StatusOfStage(log, t)
      <3>1. n \in 1..Len(new) /\ new[n] = log[n]
        BY <1>l, <1>1
      <3>2. \A i \in 1..Len(new) : new[i].name = t => i <= n
        BY <1>l, <1>1, <1>3, <2>2
      <3>3. StatusOfStage(new, t) = new[n].status /\ StatusOfStage(log, t) = log[n].status
        BY <1>1, <2>2, <3>1, <3>2, LatestIs, SMTT(40)
      <3>4. QED BY <3>1, <3>3
    <2>3. StatusOfStage(new, t) = StatusOfStage(log, t)
      BY <1>n, <1>3, <2>1, <2>2, LatestIs
    <2>4. QED BY <1>n, <1>3, <2>3
  <1>4. QED BY <1>2, <1>3

LEMMA StatusMarked ==
    ASSUME NEW log \in Seq(LogEntries), NEW n \in 1..Len(log),
           NEW x \in {"COMPLETED", "REJECTED", "WAITING", "RUNNING", "FAILED"}, NEW t,
           \A i \in 1..Len(log) : log[i].name = log[n].name => i <= n
    PROVE  StatusOfStage(Marked(log, n, x), t)
             = IF t = log[n].name THEN x ELSE StatusOfStage(log, t)
  <1>n. PICK new : new = Marked(log, n, x)
    OBVIOUS
  <1>1. /\ new \in Seq(LogEntries) /\ Len(new) = Len(log)
        /\ new[n].name = log[n].name /\ new[n].status = x
        /\ \A i \in 1..Len(log) : i # n => new[i] = log[i]
    <2>1. /\ new \in Seq(LogEntries) /\ Len(new) = Len(log)
          /\ new[n] = [name |-> log[n].name, status |-> x]
          /\ \A i \in 1..Len(log) : i # n => new[i] = log[i]
      BY <1>n, MarkedIs, ZenonT(60)
    <2>2. QED BY <2>1
  <1>2. \A i \in 1..Len(log) : new[i].name = log[i].name
    BY <1>1
  <1>3. CASE t = log[n].name
    <2>1. \A i \in 1..Len(new) : new[i].name = t => i <= n
      BY <1>1, <1>2, <1>3
    <2>2. StatusOfStage(new, t) = new[n].status
      BY <1>1, <1>3, <2>1, LatestIs
    <2>3. QED BY <1>n, <1>1, <1>3, <2>2
  <1>4. CASE t # log[n].name
    <2>1. CASE \A i \in 1..Len(log) : log[i].name # t
      <3>1. \A i \in 1..Len(new) : new[i].name # t
        BY <1>1, <1>2, <2>1
      <3>2. StatusOfStage(new, t) = None /\ StatusOfStage(log, t) = None
        BY <1>1, <2>1, <3>1, LatestIs
      <3>3. QED BY <1>n, <1>4, <3>2
    <2>2. ASSUME NEW m \in 1..Len(log), log[m].name = t,
                 \A i \in 1..Len(log) : log[i].name = t => i <= m
          PROVE  StatusOfStage(new, t) = StatusOfStage(log, t)
      <3>1. m \in 1..Len(new) /\ new[m] = log[m]
        BY <1>1, <1>4, <2>2
      <3>2. \A i \in 1..Len(new) : new[i].name = t => i <= m
        BY <1>1, <1>2, <2>2
      <3>3. StatusOfStage(new, t) = new[m].status /\ StatusOfStage(log, t) = log[m].status
        BY <1>1, <2>2, <3>1, <3>2, LatestIs
      <3>4. QED BY <3>1, <3>3
    <2>3. StatusOfStage(new, t) = StatusOfStage(log, t)
      BY <2>1, <2>2, <1>n, <1>4, LatestIs
    <2>4. QED BY <1>n, <1>4, <2>3
  <1>5. QED BY <1>3, <1>4

(* A new entry of a stage that is not completed, or a refusal.             *)
LEMMA RunOnceEntered ==
    ASSUME NEW log \in Seq(LogEntries), NEW s \in 1..Stages,
           NEW x \in {"COMPLETED", "REJECTED", "WAITING", "RUNNING", "FAILED"},
           RunOnce(log), x = "REJECTED" \/ StatusOfStage(log, s) # "COMPLETED"
    PROVE  RunOnce(Entered(log, s, x))
  <1>n. PICK new : new = Entered(log, s, x)
    OBVIOUS
  <1>l. PICK l : l = Len(log)
    OBVIOUS
  <1>1. /\ l \in Nat /\ new \in Seq(LogEntries) /\ Len(new) = l + 1
        /\ new[l + 1] = [name |-> s, status |-> x]
        /\ \A i \in 1..l : new[i] = log[i]
    <2>1. /\ new \in Seq(LogEntries) /\ Len(new) = Len(log) + 1
          /\ new[Len(log) + 1] = [name |-> s, status |-> x]
          /\ \A i \in 1..Len(log) : new[i] = log[i]
      BY <1>n, EnteredIs
    <2>2. l \in Nat
      BY <1>l
    <2>3. QED BY <1>l, <2>1, <2>2
  <1>2. SUFFICES ASSUME NEW i \in 1..(l + 1), NEW j \in 1..(l + 1), i < j,
                        new[i].name = new[j].name, new[i].name \in Unattended,
                        new[i].status = "COMPLETED"
                 PROVE  \E k \in (i + 1)..j : new[k] = [name |-> new[i].name,
                                                       status |-> "REJECTED"]
    <2>1. DOMAIN new = 1..(l + 1)
      BY <1>1
    <2>2. QED BY <1>n, <1>2, <2>1 DEF RunOnce
  <1>3. i \in 1..l /\ new[i] = log[i]
    BY <1>1, <1>2
  <1>4. DOMAIN log = 1..l
    BY <1>l
  <1>5. CASE j \in 1..l
    <2>1. log[i].name = log[j].name /\ log[i].name \in Unattended /\ log[i].status = "COMPLETED"
      BY <1>1, <1>2, <1>3, <1>5
    <2>2. PICK k \in (i + 1)..j : log[k] = [name |-> log[i].name, status |-> "REJECTED"]
      BY <1>2, <1>3, <1>4, <1>5, <2>1 DEF RunOnce
    <2>3. k \in 1..l
      BY <1>1, <1>3, <1>5
    <2>4. QED BY <1>1, <1>3, <2>2, <2>3
  <1>6. CASE j = l + 1 /\ x = "REJECTED"
    <2>1. j \in (i + 1)..j /\ new[j] = [name |-> new[i].name, status |-> "REJECTED"]
      BY <1>1, <1>2, <1>6
    <2>2. QED BY <2>1
  <1>7. CASE j = l + 1 /\ StatusOfStage(log, s) # "COMPLETED"
    <2>1. log[i].name = s
      BY <1>1, <1>2, <1>3, <1>7
    <2>2. PICK m \in 1..Len(log) :
             log[m].name = s /\ (\A h \in 1..Len(log) : log[h].name = s => h <= m)
      BY <1>l, <1>3, <2>1, LatestIs
    <2>3. log[m].status # "COMPLETED"
      BY <1>7, <2>2, LatestIs
    <2>4. i < m /\ m \in 1..l
      <3>1. i <= m /\ i # m
        BY <1>l, <1>2, <1>3, <2>1, <2>2, <2>3
      <3>2. QED BY <1>l, <1>1, <3>1
    <2>5. PICK k \in (i + 1)..m : log[k] = [name |-> log[i].name, status |-> "REJECTED"]
      BY <1>2, <1>3, <1>4, <2>1, <2>2, <2>4 DEF RunOnce
    <2>6. k \in 1..l /\ k \in (i + 1)..j
      BY <1>1, <1>3, <1>7, <2>4
    <2>7. QED BY <1>1, <1>3, <2>5, <2>6
  <1>8. QED BY <1>1, <1>5, <1>6, <1>7

(* An entry that is brought up to date: one of a stage without a command,  *)
(* or the last one, which was no refusal.                                  *)
LEMMA RunOnceMarked ==
    ASSUME NEW log \in Seq(LogEntries), NEW n \in 1..Len(log),
           NEW x \in {"COMPLETED", "REJECTED", "WAITING", "RUNNING", "FAILED"},
           RunOnce(log),
           log[n].name \notin Unattended \/ (n = Len(log) /\ log[n].status # "REJECTED")
    PROVE  RunOnce(Marked(log, n, x))
  <1>n. PICK new : new = Marked(log, n, x)
    OBVIOUS
  <1>1. /\ new \in Seq(LogEntries) /\ Len(new) = Len(log)
        /\ new[n].name = log[n].name
        /\ \A i \in 1..Len(log) : i # n => new[i] = log[i]
    <2>1. /\ new \in Seq(LogEntries) /\ Len(new) = Len(log)
          /\ new[n] = [name |-> log[n].name, status |-> x]
          /\ \A i \in 1..Len(log) : i # n => new[i] = log[i]
      BY <1>n, MarkedIs, ZenonT(60)
    <2>2. QED BY <2>1
  <1>l. PICK l : l = Len(log)
    OBVIOUS
  <1>2. DOMAIN log = 1..l /\ DOMAIN new = 1..l /\ l \in Nat /\ n \in 1..l
    BY <1>l, <1>1
  <1>3. SUFFICES ASSUME NEW i \in 1..l, NEW j \in 1..l, i < j,
                        new[i].name = new[j].name, new[i].name \in Unattended,
                        new[i].status = "COMPLETED"
                 PROVE  \E k \in (i + 1)..j : new[k] = [name |-> new[i].name,
                                                       status |-> "REJECTED"]
    BY <1>n, <1>2, <1>3 DEF RunOnce
  <1>4. i # n /\ new[i] = log[i]
    <2>1. i # n
      BY <1>l, <1>1, <1>2, <1>3
    <2>2. QED BY <1>l, <1>1, <2>1
  <1>5. log[j].name = new[j].name
    BY <1>l, <1>1
  <1>6. PICK k \in (i + 1)..j : log[k] = [name |-> log[i].name, status |-> "REJECTED"]
    BY <1>2, <1>3, <1>4, <1>5 DEF RunOnce
  <1>7. k \in 1..l /\ k # n
    <2>1. k \in 1..l
      BY <1>2
    <2>2. log[k].name = log[i].name /\ log[k].status = "REJECTED"
      BY <1>6
    <2>3. QED BY <1>3, <1>4, <2>1, <2>2
  <1>8. new[k] = log[k]
    BY <1>l, <1>1, <1>7
  <1>9. QED BY <1>4, <1>6, <1>8

(* A stage that is not completed now was refused since it last was.        *)
LEMMA NotRunAgain ==
    ASSUME NEW log \in Seq(LogEntries), RunOnce(log), NEW s \in Unattended,
           StatusOfStage(log, s) # "COMPLETED"
    PROVE  ~ CompletedUnrefused(log, s)
  <1> SUFFICES ASSUME NEW i \in DOMAIN log, log[i] = [name |-> s, status |-> "COMPLETED"],
                      \A j \in (i + 1)..Len(log) : log[j] # [name |-> s, status |-> "REJECTED"]
               PROVE  FALSE
    BY DEF CompletedUnrefused
  <1>1. i \in 1..Len(log) /\ log[i].name = s /\ log[i].status = "COMPLETED" /\ Len(log) \in Nat
    OBVIOUS
  <1>2. PICK m \in 1..Len(log) :
           log[m].name = s /\ (\A h \in 1..Len(log) : log[h].name = s => h <= m)
    BY <1>1, LatestIs
  <1>3. log[m].status # "COMPLETED"
    BY <1>2, LatestIs
  <1>4. i < m
    <2>1. i <= m /\ i # m
      BY <1>1, <1>2, <1>3
    <2>2. QED BY <1>1, <2>1
  <1>5. PICK k \in (i + 1)..m : log[k] = [name |-> log[i].name, status |-> "REJECTED"]
    <2>1. i \in DOMAIN log /\ m \in DOMAIN log
      OBVIOUS
    <2>2. QED BY <1>1, <1>2, <1>4, <2>1 DEF RunOnce
  <1>6. k \in (i + 1)..Len(log)
    BY <1>1, <1>2
  <1>7. QED BY <1>1, <1>5, <1>6
-----------------------------------------------------------------------------
(* The steps *)

LEMMA FreshIsHonest == Honest(FreshState) /\ FreshState.log = <<>>
  <1>1. FreshState \in LoopStates /\ FreshState.log = <<>> /\ FreshState.status = None
    BY DEF FreshState, LoopStates
  <1>2. RunOnce(FreshState.log)
    BY <1>1 DEF RunOnce
  <1>3. \A s : StatusOfStage(<<>>, s) = None
    <2>1. <<>> \in Seq(LogEntries) /\ Len(<<>>) = 0
      OBVIOUS
    <2>e. PICK e : e = <<>>
      OBVIOUS
    <2>2. e \in Seq(LogEntries) /\ \A i \in 1..Len(e) : FALSE
      BY <2>1, <2>e
    <2>3. \A s : StatusOfStage(e, s) = None
      BY <2>2, LatestIs
    <2>4. QED BY <2>3, <2>e
  <1>4. FreshState.status = "COMPLETED" =>
           \A s \in 1..Stages : StatusOfStage(FreshState.log, s) = "COMPLETED"
    BY <1>1, <1>3
  <1>5. QED BY <1>1, <1>2, <1>4 DEF Honest

LEMMA LoopTypes ==
    ASSUME LInv
    PROVE  /\ sup.pc \in {"down", "visit", "wait"} /\ sup.stage \in 1..(Stages + 1)
           /\ sup.state \in LoopStates /\ sup.state.log \in Seq(LogEntries)
           /\ sup = [pc |-> sup.pc, stage |-> sup.stage, state |-> sup.state]
           /\ sup.state = [log |-> sup.state.log, status |-> sup.state.status]
           /\ past.starts \in Nat /\ past.edits \in Nat
           /\ sup.pc # "down" => Honest(sup.state)
  <1>1. sup \in [pc : {"down", "visit", "wait"}, stage : 1..(Stages + 1), state : LoopStates]
    BY DEF LInv, LoopTypeOK
  <1>2. sup.state \in LoopStates
    BY <1>1
  <1>3. sup.pc # "down" => Honest(sup.state)
    BY FreshIsHonest DEF LInv, OnFile
  <1>4. past \in [starts : Nat, edits : Nat, redone : SUBSET (1..Stages)]
    BY DEF LInv, LoopTypeOK
  <1>5. sup.state.log \in Seq(LogEntries)
        /\ sup.state = [log |-> sup.state.log, status |-> sup.state.status]
    BY <1>2 DEF LoopStates
  <1>6. QED BY <1>1, <1>2, <1>3, <1>4, <1>5

(* The supervisor moves from stage to stage or exits, and what it has       *)
(* written is honest.                                                       *)
LEMMA MoveKeepsLInv ==
    ASSUME LInv, sup.pc = "visit", NEW pc \in {"down", "visit"},
           NEW stage \in 1..(Stages + 1), NEW state, Honest(state),
           sup' = [pc |-> pc, stage |-> stage, state |-> state],
           file' = state \/ (file' = file /\ state = sup.state),
           pc = "visit" =>
              \A s \in 1..(stage - 1) : StatusOfStage(state.log, s) = "COMPLETED",
           UNCHANGED past
    PROVE  LInv'
  <1>1. sup'.pc = pc /\ sup'.stage = stage /\ sup'.state = state /\ state \in LoopStates
    BY DEF Honest
  <1>2. LoopTypeOK'
    BY <1>1 DEF LInv, LoopTypeOK
  <1>3. file' # None => Honest(file')
    BY DEF LInv
  <1>4. state = IF file' = None THEN FreshState ELSE file'
    BY <1>1, StagesFacts DEF LInv, OnFile
  <1>5. past.redone = {}
    BY DEF LInv
  <1>6. \A x : Honest(x)' <=> Honest(x)
    BY DEF Honest, RunOnce
  <1>7. QED BY <1>1, <1>2, <1>3, <1>4, <1>5, <1>6 DEF LInv, OnFile

LEMMA StartKeepsLInv ==
    ASSUME LInv, StartSupervisor
    PROVE  LInv'
  <1>1. /\ sup' = [pc |-> "visit", stage |-> 1, state |-> OnFile] /\ sup.pc = "down"
        /\ UNCHANGED file
    BY DEF StartSupervisor, OnFile
  <1>2. sup'.pc = "visit" /\ sup'.stage = 1 /\ sup'.state = OnFile
    BY <1>1
  <1>3. Honest(OnFile) /\ OnFile \in LoopStates
    BY FreshIsHonest DEF OnFile, LInv, Honest
  <1>4. /\ past' \in [starts : Nat, edits : Nat, redone : SUBSET (1..Stages)]
        /\ past'.redone = past.redone
    BY DEF LInv, LoopTypeOK, StartSupervisor
  <1>5. LoopTypeOK'
    <2>1. 1 \in 1..(Stages + 1)
      BY StagesFacts
    <2>2. QED BY <1>1, <1>3, <1>4, <2>1 DEF LInv, LoopTypeOK
  <1>6. OnFile' = OnFile
    BY <1>1 DEF OnFile
  <1>7. \A x : Honest(x)' <=> Honest(x)
    BY DEF Honest, RunOnce
  <1>8. past.redone = {}
    BY <1>1 DEF LInv
  <1>9. \A s \in 1..(sup'.stage - 1) : FALSE
    BY <1>2
  <1>10. QED BY <1>1, <1>2, <1>4, <1>5, <1>6, <1>7, <1>8, <1>9 DEF LInv

LEMMA RejectKeepsLInv ==
    ASSUME LInv, RejectStage
    PROVE  LInv'
  <1>s. PICK s : s = sup.stage
    OBVIOUS
  <1>l. PICK log : log = sup.state.log
    OBVIOUS
  <1>m. PICK new : new = IF StatusOfStage(log, s) = "REJECTED" THEN log
                         ELSE Entered(log, s, "REJECTED")
    OBVIOUS
  <1>t. PICK state : state = [log |-> new, status |-> "REJECTED"]
    OBVIOUS
  <1>1. /\ sup.pc = "visit" /\ s \in 1..Stages /\ log \in Seq(LogEntries) /\ RunOnce(log)
    BY <1>s, <1>l, LoopTypes, StagesFacts DEF RejectStage, Visiting, Honest
  <1>2. new \in Seq(LogEntries) /\ RunOnce(new)
    BY <1>m, <1>1, EnteredIs, RunOnceEntered
  <1>3. Honest(state)
    BY <1>t, <1>2 DEF Honest, LoopStates
  <1>4. /\ sup' = [sup EXCEPT !.pc = "down", !.state = state] /\ file' = state
        /\ UNCHANGED past
    BY <1>s, <1>l, <1>m, <1>t DEF RejectStage, ExitWith, WriteState
  <1>5. sup' = [pc |-> "down", stage |-> sup.stage, state |-> state]
    BY <1>4, LoopTypes
  <1>6. QED BY <1>1, <1>3, <1>4, <1>5, LoopTypes, MoveKeepsLInv

LEMMA ObserveKeepsLInv ==
    ASSUME LInv, ObserveStage
    PROVE  LInv'
  <1>s. PICK s : s = sup.stage
    OBVIOUS
  <1>l. PICK log : log = sup.state.log
    OBVIOUS
  <1>1. /\ sup.pc = "visit" /\ s \in 1..Stages /\ log \in Seq(LogEntries)
        /\ Honest(sup.state) /\ RunOnce(log) /\ UNCHANGED past
    BY <1>s, <1>l, LoopTypes, StagesFacts DEF ObserveStage, Visiting, Honest
  <1>2. s + 1 \in 1..(Stages + 1) /\ \A t \in 1..((s + 1) - 1) : t = s \/ t \in 1..(s - 1)
    BY <1>1, StagesFacts
  <1>3. \A t \in 1..(s - 1) : StatusOfStage(log, t) = "COMPLETED"
    BY <1>s, <1>l, <1>1 DEF LInv
  <1>4. CASE StatusOfStage(log, s) = "COMPLETED"
    <2>1. sup' = [sup EXCEPT !.stage = @ + 1] /\ file' = file
      BY <1>4, <1>s, <1>l DEF ObserveStage
    <2>2. sup' = [pc |-> "visit", stage |-> s + 1, state |-> sup.state]
      BY <1>s, <1>1, <2>1, LoopTypes
    <2>3. \A t \in 1..((s + 1) - 1) : StatusOfStage(sup.state.log, t) = "COMPLETED"
      BY <1>l, <1>2, <1>3, <1>4
    <2>4. QED BY <1>1, <1>2, <2>1, <2>2, <2>3, MoveKeepsLInv
  <1>5. CASE StatusOfStage(log, s) # "COMPLETED"
    <2>n. PICK new : new = Entered(log, s, "COMPLETED")
      OBVIOUS
    <2>t. PICK state : state = [log |-> new, status |-> None]
      OBVIOUS
    <2>1. new \in Seq(LogEntries) /\ RunOnce(new)
      BY <1>1, <1>5, <2>n, EnteredIs, RunOnceEntered
    <2>2. \A t : StatusOfStage(new, t) = IF t = s THEN "COMPLETED" ELSE StatusOfStage(log, t)
      BY <1>1, <2>n, StatusEntered
    <2>3. state.log = new /\ state.status = None /\ state \in LoopStates
      BY <2>t, <2>1 DEF LoopStates
    <2>4. Honest(state)
      BY <2>1, <2>3, StagesFacts DEF Honest
    <2>5. sup' = [sup EXCEPT !.stage = @ + 1, !.state = state] /\ file' = state
      BY <1>5, <1>s, <1>l, <2>n, <2>t DEF ObserveStage, WriteState
    <2>6. sup' = [pc |-> "visit", stage |-> s + 1, state |-> state]
      BY <1>s, <1>1, <2>5, LoopTypes
    <2>7. \A t \in 1..((s + 1) - 1) : StatusOfStage(state.log, t) = "COMPLETED"
      BY <1>2, <1>3, <2>2, <2>3
    <2>8. QED BY <1>1, <1>2, <2>4, <2>5, <2>6, <2>7, MoveKeepsLInv
  <1>6. QED BY <1>4, <1>5

LEMMA VanishedKeepsLInv ==
    ASSUME LInv, ArtifactVanished
    PROVE  LInv'
  <1>1. /\ sup.pc = "visit" /\ sup' = [sup EXCEPT !.pc = "down", !.state = sup.state]
        /\ file' = sup.state /\ UNCHANGED past
    BY DEF ArtifactVanished, Visiting, ExitWith, WriteState
  <1>2. sup' = [pc |-> "down", stage |-> sup.stage, state |-> sup.state]
    BY <1>1, LoopTypes
  <1>3. QED BY <1>1, <1>2, LoopTypes, MoveKeepsLInv

(* A log in which one stage is not completed is not that of a loop that is.*)
LEMMA NotCompleted ==
    ASSUME NEW state, Honest(state), NEW s \in 1..Stages,
           StatusOfStage(state.log, s) # "COMPLETED"
    PROVE  state.status # "COMPLETED"
  BY DEF Honest

LEMMA Relogged ==
    ASSUME NEW state \in LoopStates, NEW new \in Seq(LogEntries), RunOnce(new),
           state.status # "COMPLETED", NEW next, next = [state EXCEPT !.log = new]
    PROVE  Honest(next) /\ next.log = new
  <1>1. next \in LoopStates /\ next.log = new /\ next.status = state.status
    BY DEF LoopStates
  <1>2. QED BY <1>1 DEF Honest

LEMMA AwaitKeepsLInv ==
    ASSUME LInv, AwaitArtifact
    PROVE  LInv'
  <1>s. PICK s : s = sup.stage
    OBVIOUS
  <1>l. PICK log : log = sup.state.log
    OBVIOUS
  <1>a. PICK at : at = LatestEntry(log, s)
    OBVIOUS
  <1>m. PICK new : new = IF at = 0 THEN Entered(log, s, "WAITING")
                         ELSE Marked(log, at, "WAITING")
    OBVIOUS
  <1>t. PICK state : state = [sup.state EXCEPT !.log = new]
    OBVIOUS
  <1>1. /\ sup.pc = "visit" /\ s \in 1..Stages /\ log \in Seq(LogEntries)
        /\ Honest(sup.state) /\ sup.state \in LoopStates /\ RunOnce(log)
        /\ UNCHANGED past
        /\ StatusOfStage(log, s) # "COMPLETED" /\ s \notin Unattended
    BY <1>s, <1>l, LoopTypes, StagesFacts DEF AwaitArtifact, Visiting, Honest
  <1>2. at # 0 => at \in 1..Len(log) /\ log[at].name = s
    <2>1. CASE \A i \in 1..Len(log) : log[i].name # s
      <3>1. {i \in DOMAIN log : log[i].name = s} = {}
        BY <1>1, <2>1
      <3>2. QED BY <1>a, <3>1 DEF LatestEntry
    <2>2. CASE \E n \in 1..Len(log) :
                 log[n].name = s /\ (\A i \in 1..Len(log) : log[i].name = s => i <= n)
      BY <1>a, <1>1, <2>2, LatestIs
    <2>3. QED BY <1>1, <2>1, <2>2, LatestIs, ZenonT(60)
  <1>3. new \in Seq(LogEntries) /\ RunOnce(new)
    <2>1. CASE at = 0
      BY <1>m, <1>1, <2>1, EnteredIs, RunOnceEntered
    <2>2. CASE at # 0
      BY <1>m, <1>1, <1>2, <2>2, MarkedIs, RunOnceMarked
    <2>3. QED BY <2>1, <2>2
  <1>4. Honest(state)
    BY <1>l, <1>t, <1>1, <1>3, NotCompleted, Relogged
  <1>5. /\ sup' = [sup EXCEPT !.pc = "down", !.state = state] /\ file' = state
    BY <1>s, <1>l, <1>a, <1>m, <1>t DEF AwaitArtifact, ExitWith, WriteState
  <1>6. sup' = [pc |-> "down", stage |-> sup.stage, state |-> state]
    BY <1>5, LoopTypes
  <1>7. QED BY <1>1, <1>4, <1>5, <1>6, LoopTypes, MoveKeepsLInv

LEMMA CompletesKeepsLInv ==
    ASSUME LInv, LoopCompletes
    PROVE  LInv'
  <1>t. PICK state : state = [sup.state EXCEPT !.status = "COMPLETED"]
    OBVIOUS
  <1>1. /\ sup.pc = "visit" /\ sup.stage > Stages /\ UNCHANGED past
        /\ sup' = [sup EXCEPT !.pc = "down", !.state = state] /\ file' = state
    BY <1>t DEF LoopCompletes, ExitWith, WriteState
  <1>2. Honest(sup.state) /\ sup.state \in LoopStates
    BY <1>1, LoopTypes
  <1>3. /\ state \in LoopStates /\ state.log = sup.state.log
    BY <1>t, <1>2 DEF LoopStates
  <1>4. \A s \in 1..Stages : StatusOfStage(sup.state.log, s) = "COMPLETED"
    <2>1. \A s \in 1..Stages : s \in 1..(sup.stage - 1)
      BY <1>1, LoopTypes, StagesFacts
    <2>2. QED BY <1>1, <2>1 DEF LInv
  <1>5. Honest(state)
    BY <1>2, <1>3, <1>4 DEF Honest
  <1>6. sup' = [pc |-> "down", stage |-> sup.stage, state |-> state]
    BY <1>1, LoopTypes
  <1>7. QED BY <1>1, <1>5, <1>6, LoopTypes, MoveKeepsLInv

LEMMA RunKeepsLInv ==
    ASSUME LInv, RunStage
    PROVE  LInv'
  <1>s. PICK s : s = sup.stage
    OBVIOUS
  <1>l. PICK log : log = sup.state.log
    OBVIOUS
  <1>m. PICK new : new = Entered(log, s, "RUNNING")
    OBVIOUS
  <1>t. PICK state : state = [sup.state EXCEPT !.log = new]
    OBVIOUS
  <1>1. /\ sup.pc = "visit" /\ s \in 1..Stages /\ log \in Seq(LogEntries)
        /\ Honest(sup.state) /\ sup.state \in LoopStates /\ RunOnce(log)
        /\ StatusOfStage(log, s) # "COMPLETED" /\ s \in Unattended
    BY <1>s, <1>l, LoopTypes, StagesFacts DEF RunStage, Visiting, Honest
  <1>2. /\ new \in Seq(LogEntries) /\ RunOnce(new) /\ Len(new) = Len(log) + 1
        /\ new[Len(log) + 1] = [name |-> s, status |-> "RUNNING"]
    BY <1>m, <1>1, EnteredIs, RunOnceEntered
  <1>3. Honest(state) /\ state.log = new /\ state \in LoopStates
    BY <1>l, <1>t, <1>1, <1>2, NotCompleted, Relogged DEF Honest
  <1>4. /\ sup' = [sup EXCEPT !.pc = "wait", !.state = state] /\ file' = state
    BY <1>s, <1>l, <1>m, <1>t DEF RunStage, WriteState
  <1>5. sup' = [pc |-> "wait", stage |-> s, state |-> state]
    BY <1>s, <1>4, LoopTypes
  <1>6. sup'.pc = "wait" /\ sup'.stage = s /\ sup'.state = state
    BY <1>5
  <1>7. past' = past
    <2>1. ~ (file # None /\ CompletedUnrefused(file.log, s))
      <3>1. file # None => file.log = log
        BY <1>l, <1>1 DEF LInv, OnFile
      <3>2. QED BY <1>1, <3>1, NotRunAgain
    <2>2. past' = [past EXCEPT !.redone = past.redone]
      BY <1>s, <2>1 DEF RunStage
    <2>3. QED BY <2>2 DEF LInv, LoopTypeOK
  <1>8. LoopTypeOK'
    <2>1. s \in 1..(Stages + 1)
      BY <1>1, StagesFacts
    <2>2. QED BY <1>3, <1>5, <1>7, <2>1 DEF LInv, LoopTypeOK
  <1>9. state = IF file' = None THEN FreshState ELSE file'
    BY <1>3, <1>4, StagesFacts
  <1>10. \A t \in 1..(s - 1) : StatusOfStage(new, t) = "COMPLETED"
    <2>1. \A t \in 1..(s - 1) : StatusOfStage(log, t) = "COMPLETED" /\ t # s
      BY <1>s, <1>l, <1>1 DEF LInv
    <2>2. \A t : StatusOfStage(new, t) = IF t = s THEN "RUNNING" ELSE StatusOfStage(log, t)
      BY <1>1, <1>m, StatusEntered
    <2>3. QED BY <2>1, <2>2
  <1>11. \A x : Honest(x)' <=> Honest(x)
    BY DEF Honest, RunOnce
  <1>12. Len(new) > 0 /\ new[Len(new)] = [name |-> s, status |-> "RUNNING"] /\ s <= Stages
    BY <1>1, <1>2, StagesFacts
  <1>13. past.redone = {}
    BY DEF LInv
  <1>14. /\ file' # None => Honest(file')
         /\ sup'.state = OnFile'
         /\ \A t \in 1..(sup'.stage - 1) : StatusOfStage(sup'.state.log, t) = "COMPLETED"
    BY <1>3, <1>4, <1>6, <1>9, <1>10, <1>11 DEF OnFile
  <1>15. /\ sup'.stage <= Stages /\ Len(sup'.state.log) > 0
         /\ sup'.state.log[Len(sup'.state.log)] = [name |-> sup'.stage, status |-> "RUNNING"]
    BY <1>3, <1>6, <1>12
  <1>16. QED BY <1>6, <1>7, <1>8, <1>11, <1>13, <1>14, <1>15 DEF LInv

LEMMA ReturnKeepsLInv ==
    ASSUME LInv, NEW zero \in BOOLEAN, CommandReturns(zero)
    PROVE  LInv'
  <1>s. PICK s : s = sup.stage
    OBVIOUS
  <1>l. PICK log : log = sup.state.log
    OBVIOUS
  <1>d. PICK done : done = (zero /\ arts[s] # None)
    OBVIOUS
  <1>x. PICK x : x = IF done THEN "COMPLETED" ELSE "FAILED"
    OBVIOUS
  <1>m. PICK new : new = Marked(log, Len(log), x)
    OBVIOUS
  <1>t. PICK state : state = [sup.state EXCEPT !.log = new]
    OBVIOUS
  <1>1. /\ sup.pc = "wait" /\ s \in 1..Stages /\ log \in Seq(LogEntries)
        /\ Honest(sup.state) /\ sup.state \in LoopStates /\ RunOnce(log)
        /\ Len(log) > 0 /\ log[Len(log)] = [name |-> s, status |-> "RUNNING"]
    <2>1. sup.pc = "wait"
      BY DEF CommandReturns
    <2>2. /\ sup.stage <= Stages /\ Len(sup.state.log) > 0
          /\ sup.state.log[Len(sup.state.log)] = [name |-> sup.stage, status |-> "RUNNING"]
      BY <2>1 DEF LInv
    <2>3. QED BY <1>s, <1>l, <2>1, <2>2, LoopTypes, StagesFacts DEF Honest
  <1>2. Len(log) \in 1..Len(log) /\ log[Len(log)].name = s /\ log[Len(log)].status = "RUNNING"
        /\ \A i \in 1..Len(log) : i <= Len(log)
    BY <1>1
  <1>3. x \in {"COMPLETED", "REJECTED", "WAITING", "RUNNING", "FAILED"}
    BY <1>x
  <1>4. new \in Seq(LogEntries) /\ RunOnce(new)
    BY <1>m, <1>1, <1>2, <1>3, MarkedIs, RunOnceMarked
  <1>5. \A t : StatusOfStage(new, t) = IF t = s THEN x ELSE StatusOfStage(log, t)
    BY <1>m, <1>1, <1>2, <1>3, StatusMarked
  <1>6. StatusOfStage(log, s) # "COMPLETED"
    BY <1>1, <1>2, LatestIs
  <1>7. Honest(state) /\ state.log = new /\ state \in LoopStates
    BY <1>l, <1>t, <1>1, <1>4, <1>6, NotCompleted, Relogged DEF Honest
  <1>8. /\ file' = state /\ past' = past
        /\ sup' = [sup EXCEPT !.pc = IF done THEN "visit" ELSE "down",
                              !.stage = IF done THEN @ + 1 ELSE @, !.state = state]
    BY <1>s, <1>l, <1>d, <1>x, <1>m, <1>t DEF CommandReturns, WriteState
  <1>9. sup' = [pc |-> IF done THEN "visit" ELSE "down", stage |-> IF done THEN s + 1 ELSE s,
                state |-> state]
    BY <1>s, <1>8, LoopTypes
  <1>10. /\ sup'.pc = IF done THEN "visit" ELSE "down"
         /\ sup'.stage = IF done THEN s + 1 ELSE s
         /\ sup'.state = state
    BY <1>9
  <1>11. LoopTypeOK'
    <2>1. sup'.stage \in 1..(Stages + 1) /\ sup'.pc \in {"down", "visit", "wait"}
      BY <1>1, <1>10, StagesFacts
    <2>2. sup' = [pc |-> sup'.pc, stage |-> sup'.stage, state |-> sup'.state]
      BY <1>9, <1>10
    <2>3. QED BY <1>7, <1>8, <1>10, <2>1, <2>2 DEF LInv, LoopTypeOK
  <1>12. done => \A t \in 1..((s + 1) - 1) : StatusOfStage(new, t) = "COMPLETED"
    <2>1. \A t \in 1..(s - 1) : StatusOfStage(log, t) = "COMPLETED"
      BY <1>s, <1>l, <1>1 DEF LInv
    <2>2. \A t \in 1..((s + 1) - 1) : t = s \/ t \in 1..(s - 1)
      BY <1>1, StagesFacts
    <2>3. QED BY <1>x, <1>5, <2>1, <2>2
  <1>13. \A y : Honest(y)' <=> Honest(y)
    BY DEF Honest, RunOnce
  <1>14. state = IF file' = None THEN FreshState ELSE file'
    BY <1>7, <1>8, StagesFacts
  <1>15. /\ file' # None => Honest(file')
         /\ sup'.pc # "down" =>
               /\ sup'.state = OnFile'
               /\ \A t \in 1..(sup'.stage - 1) : StatusOfStage(sup'.state.log, t) = "COMPLETED"
    BY <1>7, <1>8, <1>10, <1>12, <1>13, <1>14 DEF OnFile
  <1>16. sup'.pc # "wait" /\ past'.redone = {}
    BY <1>1, <1>8, <1>10 DEF LInv
  <1>17. QED BY <1>11, <1>13, <1>15, <1>16 DEF LInv

(* Steps that leave the supervisor and its file: artifacts come and go,    *)
(* and commands whose supervisor is gone end.                              *)
LEMMA WorldKeepsLInv ==
    ASSUME LInv, UNCHANGED <<sup, file>>,
           past' \in [starts : Nat, edits : Nat, redone : SUBSET (1..Stages)],
           past'.redone = past.redone
    PROVE  LInv'
  <1>1. LoopTypeOK'
    BY DEF LInv, LoopTypeOK
  <1>2. \A x : Honest(x)' <=> Honest(x)
    BY DEF Honest, RunOnce
  <1>3. QED BY <1>1, <1>2 DEF LInv, OnFile

LEMMA KilledKeepsLInv ==
    ASSUME LInv, SupervisorKilled
    PROVE  LInv'
  <1>1. sup' = [sup EXCEPT !.pc = "down"] /\ UNCHANGED <<file, past>>
    BY DEF SupervisorKilled
  <1>2. sup'.pc = "down" /\ LoopTypeOK'
    BY <1>1 DEF LInv, LoopTypeOK
  <1>3. \A x : Honest(x)' <=> Honest(x)
    BY DEF Honest, RunOnce
  <1>4. QED BY <1>1, <1>2, <1>3 DEF LInv

LEMMA InitLInv == LoopInit => LInv
  <1> SUFFICES ASSUME LoopInit PROVE LInv
    OBVIOUS
  <1>1. /\ sup = [pc |-> "down", stage |-> 1, state |-> FreshState] /\ file = None
        /\ past = [starts |-> 0, edits |-> 0, redone |-> {}]
    BY DEF LoopInit
  <1>2. FreshState \in LoopStates /\ 1 \in 1..(Stages + 1)
    BY FreshIsHonest, StagesFacts DEF Honest
  <1>3. LoopTypeOK
    BY <1>1, <1>2 DEF LoopTypeOK
  <1>4. sup.pc = "down" /\ past.redone = {}
    BY <1>1
  <1>5. QED BY <1>1, <1>3, <1>4 DEF LInv

LEMMA LInvStep == LInv /\ [LoopStep]_loopVars => LInv'
  <1> SUFFICES ASSUME LInv, [LoopStep]_loopVars PROVE LInv'
    OBVIOUS
  <1>p. past \in [starts : Nat, edits : Nat, redone : SUBSET (1..Stages)]
    BY DEF LInv, LoopTypeOK
  <1>1. CASE StartSupervisor
    BY <1>1, StartKeepsLInv
  <1>2. CASE RejectStage \/ ObserveStage \/ ArtifactVanished \/ AwaitArtifact \/ LoopCompletes
    BY <1>2, RejectKeepsLInv, ObserveKeepsLInv, VanishedKeepsLInv, AwaitKeepsLInv,
       CompletesKeepsLInv
  <1>3. CASE RunStage
    BY <1>3, RunKeepsLInv
  <1>4. ASSUME NEW zero \in BOOLEAN, CommandReturns(zero) PROVE LInv'
    BY <1>4, ReturnKeepsLInv
  <1>5. CASE SupervisorKilled
    BY <1>5, KilledKeepsLInv
  <1>6. ASSUME NEW c \in commands, NEW content, CommandWrites(c, content) PROVE LInv'
    BY <1>p, <1>6, WorldKeepsLInv DEF CommandWrites
  <1>7. ASSUME NEW c \in commands, OrphanEnds(c) PROVE LInv'
    BY <1>p, <1>7, WorldKeepsLInv DEF OrphanEnds
  <1>8. ASSUME NEW s \in 1..Stages, NEW content, ArtifactEdited(s, content) PROVE LInv'
    <2>1. /\ past' \in [starts : Nat, edits : Nat, redone : SUBSET (1..Stages)]
          /\ past'.redone = past.redone
      BY <1>p, <1>8 DEF ArtifactEdited
    <2>2. QED BY <1>8, <2>1, WorldKeepsLInv DEF ArtifactEdited
  <1>9. CASE UNCHANGED loopVars
    BY <1>p, <1>9, WorldKeepsLInv DEF loopVars
  <1>10. QED BY <1>1, <1>2, <1>3, <1>4, <1>5, <1>6, <1>7, <1>8, <1>9 DEF LoopStep

(* For every configuration of stages and every way the supervisor is       *)
(* started, killed or has its artifacts edited: no completed stage is run  *)
(* again unless its gate refused it since, no stage runs before the ones   *)
(* ahead of it, and the file calls the loop completed only when every      *)
(* stage is.                                                               *)
THEOREM LoopIsRestartSafe == LoopSpec => []LoopRestartSafe
  <1>1. LInv => LoopRestartSafe
    <2> SUFFICES ASSUME LInv PROVE LoopRestartSafe
      OBVIOUS
    <2>1. past.redone = {}
          /\ (sup.pc = "wait" => \A s \in 1..(sup.stage - 1) :
                                    StatusOfStage(sup.state.log, s) = "COMPLETED")
      BY DEF LInv
    <2>2. file # None /\ file.status = "COMPLETED" =>
             \A s \in 1..Stages : StatusOfStage(file.log, s) = "COMPLETED"
      BY DEF LInv, Honest
    <2>3. QED BY <2>1, <2>2 DEF LoopRestartSafe
  <1>2. QED BY <1>1, InitLInv, LInvStep, PTL DEF LoopSpec
=============================================================================
