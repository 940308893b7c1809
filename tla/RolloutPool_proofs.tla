------------------------- MODULE RolloutPool_proofs -------------------------
(***************************************************************************)
(* What LocalRolloutPool reports is what its threads did, for every list   *)
(* of specs, every concurrency and any number of late model requests.  The *)
(* invariant ties the stage the metrics hold to the future the executor    *)
(* holds, which no lock covers together, and remembers of each phase of    *)
(* the calling thread what it has established for the list.                *)
(***************************************************************************)
EXTENDS RolloutPool, FiniteSetTheorems, SequenceTheorems, TLAPS

Listed(e) == \E i \in 1..Len(specs) : specs[i] = e

(* The metrics and the executor agree about one episode.                   *)
Agreed(e) ==
    /\ future[e] = "none" => stage[e] \in {"NONE", "QUEUED"}
    /\ future[e] \in {"pending", "cancelled"} => stage[e] = "QUEUED"
    /\ future[e] = "running" <=> stage[e] \in {"INIT", "RUN", "POSTRUN"}
    /\ future[e] \in {"ok", "raised"} <=> stage[e] = "TERMINAL"
    /\ status[e] # "NONE" <=> stage[e] = "TERMINAL"
    /\ future[e] = "raised" => status[e] = "FAILED"

(* While the list is being registered: what is registered is the part of   *)
(* the list that was read, without a repetition.                           *)
Registering ==
    main.pc = "register" =>
        /\ main.n \in 1..Len(specs)
        /\ \A e \in Episodes : /\ future[e] = "none"
                               /\ stage[e] = "QUEUED" =>
                                     \E i \in 1..(main.n - 1) : specs[i] = e
        /\ \A i \in 1..(main.n - 1) : stage[specs[i]] # "NONE"
        /\ \A i, j \in 1..(main.n - 1) : specs[i] = specs[j] => i = j

(* Afterwards the list has no repetition and is what is registered.        *)
AllRegistered ==
    main.pc \in {"submit", "collect", "drain", "returned"} =>
        /\ \A i, j \in 1..Len(specs) : specs[i] = specs[j] => i = j
        /\ \A e \in Episodes : stage[e] # "NONE" <=> Listed(e)

Submitting ==
    main.pc = "submit" =>
        /\ main.n \in 1..Len(specs)
        /\ \A i \in main.n..Len(specs) : future[specs[i]] = "none"

(* The results taken so far are those of episodes that ended well.         *)
Collecting ==
    /\ main.pc = "collect" => main.n \in 1..Len(specs)
    /\ main.pc = "returned" => main.n > Len(specs)
    /\ main.pc \in {"collect", "drain", "returned"} =>
          \A i \in 1..Len(specs) : i < main.n => future[specs[i]] = "ok"

SlotsRespected == IsFiniteSet(Running) /\ Cardinality(Running) <= MaxConcurrency

PInv ==
    /\ TypeOK
    /\ main = [pc |-> main.pc, n |-> main.n]
    /\ \A e \in Episodes : Agreed(e)
    /\ Registering
    /\ AllRegistered
    /\ Submitting
    /\ Collecting
    /\ SlotsRespected
    /\ ReportComplete
-----------------------------------------------------------------------------
LEMMA ListFacts ==
    ASSUME TypeOK
    PROVE  /\ Len(specs) \in Nat /\ specs \in Seq(Episodes)
           /\ \A i \in 1..Len(specs) : specs[i] \in Episodes
           /\ main.n \in Nat /\ main.n >= 1 /\ main.n <= Len(specs) + 1
  <1>1. specs \in Seq(Episodes)
    BY PoolAssumption DEF TypeOK
  <1>2. Len(specs) \in Nat
    BY <1>1
  <1>3. \A i \in 1..Len(specs) : specs[i] \in Episodes
    BY <1>1
  <1>4. QED BY <1>1, <1>2, <1>3 DEF TypeOK

(* A stage only moves forward, and not from the end.                       *)
LEMMA TransitionFacts ==
    ASSUME TypeOK, NEW e \in Episodes, NEW s \in {"INIT", "RUN", "POSTRUN"}
    PROVE  /\ Transition(e, s) \in [Episodes -> Stages]
           /\ \A d \in Episodes : d # e => Transition(e, s)[d] = stage[d]
           /\ stage[e] \in {"NONE", "TERMINAL"} => Transition(e, s) = stage
           /\ stage[e] = "QUEUED" => Transition(e, s)[e] = s
           /\ stage[e] \in {"INIT", "RUN", "POSTRUN"} =>
                 Transition(e, s)[e] \in {"INIT", "RUN", "POSTRUN"}
  BY DEF TypeOK, Transition, Order, Stages

LEMMA InitPInv == Init => PInv
  <1> SUFFICES ASSUME Init PROVE PInv
    OBVIOUS
  <1>1. Len(specs) \in Nat /\ specs \in Seq(Episodes) /\ (specs # <<>> => Len(specs) >= 1)
    BY PoolAssumption DEF Init
  <1>2. TypeOK
    <2>1. main.n \in 1..(Len(specs) + 1)
      BY <1>1 DEF Init
    <2>2. QED BY <2>1 DEF Init, TypeOK, Stages
  <1>3. \A e \in Episodes : Agreed(e)
    BY DEF Init, Agreed
  <1>4. Registering
    BY <1>1 DEF Init, Registering
  <1>5. AllRegistered
    <2>1. CASE specs = <<>>
      BY <2>1 DEF Init, AllRegistered, Listed
    <2>2. CASE specs # <<>>
      BY <2>2 DEF Init, AllRegistered
    <2>3. QED BY <2>1, <2>2
  <1>6. Submitting /\ Collecting
    BY <1>1 DEF Init, Submitting, Collecting
  <1>7. SlotsRespected
    <2>1. Running = {}
      BY DEF Init, Running
    <2>2. QED BY <2>1, FS_EmptySet, PoolAssumption DEF SlotsRespected
  <1>8. ReportComplete
    BY DEF Init, ReportComplete
  <1>9. QED BY <1>2, <1>3, <1>4, <1>5, <1>6, <1>7, <1>8 DEF PInv, Init

LEMMA RegisterKeepsPInv ==
    ASSUME PInv, Register
    PROVE  PInv'
  <1> DEFINE e == specs[main.n]
  <1>1. /\ Len(specs) \in Nat /\ specs \in Seq(Episodes)
        /\ \A i \in 1..Len(specs) : specs[i] \in Episodes
    BY ListFacts DEF PInv
  <1>2. /\ main.pc = "register" /\ main.n \in 1..Len(specs) /\ e \in Episodes
        /\ \A d \in Episodes : future[d] = "none"
    BY <1>1 DEF PInv, Register, Registering
  <1>3. UNCHANGED <<specs, future, status, observed, report>>
    BY DEF Register
  <1>4. Running' = Running
    BY <1>3 DEF Running
  <1>5. SlotsRespected'
    BY <1>4 DEF PInv, SlotsRespected
  <1>6. report = <<>>
    BY <1>2 DEF PInv, ReportComplete
  <1>7. CASE stage[e] # "NONE"
    <2>1. main' = [main EXCEPT !.pc = "raised"] /\ stage' = stage
      BY <1>7 DEF Register
    <2>2. main' = [pc |-> "raised", n |-> main.n]
      BY <2>1 DEF PInv
    <2>3. TypeOK'
      BY <1>3, <2>1, <2>2 DEF PInv, TypeOK
    <2>4. \A d \in Episodes : Agreed(d)'
      BY <1>3, <2>1 DEF PInv, Agreed
    <2>5. Registering' /\ AllRegistered' /\ Submitting' /\ Collecting' /\ ReportComplete'
      BY <1>3, <1>6, <2>2 DEF Registering, AllRegistered, Submitting, Collecting, ReportComplete
    <2>6. QED BY <1>5, <2>2, <2>3, <2>4, <2>5 DEF PInv
  <1>8. CASE stage[e] = "NONE"
    <2>1. stage' = [stage EXCEPT ![e] = "QUEUED"] /\ main' = NextSpec("register", "submit")
      BY <1>8 DEF Register
    <2>2. stage \in [Episodes -> Stages]
      BY DEF PInv, TypeOK
    <2>3. /\ main.n < Len(specs) => main' = [pc |-> "register", n |-> main.n + 1]
          /\ main.n = Len(specs) => main' = [pc |-> "submit", n |-> 1]
      BY <1>1, <1>2, <2>1 DEF NextSpec
    <2>4. TypeOK'
      <3>1. main'.pc \in {"register", "submit"} /\ main'.n \in 1..(Len(specs) + 1)
        BY <1>1, <1>2, <2>3
      <3>2. stage' \in [Episodes -> Stages]
        BY <2>1, <2>2 DEF Stages
      <3>3. QED BY <1>3, <3>1, <3>2 DEF PInv, TypeOK
    <2>5. \A d \in Episodes : Agreed(d)'
      BY <1>2, <1>3, <1>8, <2>1, <2>2 DEF PInv, Agreed
    <2>6. /\ \A d \in Episodes : stage'[d] = "QUEUED" => \E i \in 1..main.n : specs[i] = d
          /\ \A i \in 1..main.n : stage'[specs[i]] # "NONE"
      <3>1. \A d \in Episodes : d # e => stage'[d] = stage[d]
        BY <2>1, <2>2
      <3>2. stage'[e] = "QUEUED"
        BY <1>2, <2>1, <2>2
      <3>3. \A d \in Episodes : stage[d] = "QUEUED" => \E i \in 1..(main.n - 1) : specs[i] = d
        BY <1>2 DEF PInv, Registering
      <3>4. \A i \in 1..(main.n - 1) : stage[specs[i]] # "NONE"
        BY <1>2 DEF PInv, Registering
      <3>5. QED BY <1>1, <1>2, <3>1, <3>2, <3>3, <3>4
    <2>7. \A i, j \in 1..main.n : specs[i] = specs[j] => i = j
      <3>1. \A i, j \in 1..(main.n - 1) : specs[i] = specs[j] => i = j
        BY <1>2 DEF PInv, Registering
      <3>2. \A i \in 1..(main.n - 1) : specs[i] # e
        BY <1>2, <1>8 DEF PInv, Registering
      <3>3. QED BY <1>1, <1>2, <3>1, <3>2
    <2>8. CASE main.n < Len(specs)
      <3>1. main' = [pc |-> "register", n |-> main.n + 1] /\ main.n + 1 \in 1..Len(specs)
        BY <1>1, <1>2, <2>3, <2>8
      <3>2. (main.n + 1) - 1 = main.n
        BY <1>1, <1>2
      <3>3. Registering'
        BY <1>2, <1>3, <2>6, <2>7, <3>1, <3>2 DEF Registering
      <3>4. AllRegistered' /\ Submitting' /\ Collecting' /\ ReportComplete'
        BY <1>3, <1>6, <3>1 DEF AllRegistered, Submitting, Collecting, ReportComplete
      <3>5. QED BY <1>5, <2>4, <2>5, <3>1, <3>3, <3>4 DEF PInv
    <2>9. CASE main.n = Len(specs)
      <3>1. main' = [pc |-> "submit", n |-> 1]
        BY <2>3, <2>9
      <3>2. AllRegistered'
        <4>1. ASSUME NEW d \in Episodes, stage'[d] # "NONE" PROVE Listed(d)
          <5>1. stage'[d] = "QUEUED"
            BY <1>2, <1>8, <2>1, <2>2, <4>1 DEF PInv, Agreed
          <5>2. QED BY <2>6, <2>9, <5>1 DEF Listed
        <4>2. ASSUME NEW d \in Episodes, Listed(d) PROVE stage'[d] # "NONE"
          BY <2>6, <2>9, <4>2 DEF Listed
        <4>3. \A d \in Episodes : Listed(d)' <=> Listed(d)
          BY <1>3 DEF Listed
        <4>4. QED BY <1>3, <2>7, <2>9, <4>1, <4>2, <4>3 DEF AllRegistered
      <3>3. Submitting'
        BY <1>1, <1>2, <1>3, <3>1 DEF Submitting
      <3>4. Registering' /\ Collecting' /\ ReportComplete'
        BY <1>3, <1>6, <3>1 DEF Registering, Collecting, ReportComplete
      <3>5. QED BY <1>5, <2>4, <2>5, <3>1, <3>2, <3>3, <3>4 DEF PInv
    <2>10. QED BY <1>1, <1>2, <2>8, <2>9
  <1>9. QED BY <1>7, <1>8

LEMMA SubmitKeepsPInv ==
    ASSUME PInv, Submit
    PROVE  PInv'
  <1> DEFINE e == specs[main.n]
  <1>1. /\ Len(specs) \in Nat /\ specs \in Seq(Episodes)
        /\ \A i \in 1..Len(specs) : specs[i] \in Episodes
    BY ListFacts DEF PInv
  <1>2. /\ main.pc = "submit" /\ main.n \in 1..Len(specs) /\ e \in Episodes
        /\ \A i \in main.n..Len(specs) : future[specs[i]] = "none"
        /\ \A i, j \in 1..Len(specs) : specs[i] = specs[j] => i = j
        /\ \A d \in Episodes : stage[d] # "NONE" <=> Listed(d)
    BY <1>1 DEF PInv, Submit, Submitting, AllRegistered
  <1>3. /\ UNCHANGED <<specs, stage, status, observed, report>>
        /\ future' = [future EXCEPT ![e] = "pending"]
        /\ main' = NextSpec("submit", "collect")
    BY DEF Submit
  <1>4. future \in [Episodes -> {"none", "pending", "running", "ok", "raised", "cancelled"}]
    BY DEF PInv, TypeOK
  <1>5. /\ main.n < Len(specs) => main' = [pc |-> "submit", n |-> main.n + 1]
        /\ main.n = Len(specs) => main' = [pc |-> "collect", n |-> 1]
    BY <1>1, <1>2, <1>3 DEF NextSpec
  <1>6. /\ main'.pc \in {"submit", "collect"} /\ main'.n \in 1..Len(specs)
        /\ main' = [pc |-> main'.pc, n |-> main'.n]
    BY <1>1, <1>2, <1>5
  <1>7. future[e] = "none" /\ stage[e] = "QUEUED"
    <2>1. future[e] = "none"
      BY <1>1, <1>2
    <2>2. Listed(e)
      BY <1>2 DEF Listed
    <2>3. QED BY <1>2, <2>1, <2>2 DEF PInv, Agreed
  <1>8. TypeOK'
    <2>1. future' \in [Episodes -> {"none", "pending", "running", "ok", "raised", "cancelled"}]
      BY <1>3, <1>4
    <2>2. main'.n \in 1..(Len(specs) + 1)
      BY <1>1, <1>6
    <2>3. QED BY <1>3, <1>6, <2>1, <2>2 DEF PInv, TypeOK
  <1>9. \A d \in Episodes : Agreed(d)'
    BY <1>3, <1>4, <1>7 DEF PInv, Agreed
  <1>10. SlotsRespected'
    <2>1. Running' = Running
      BY <1>3, <1>4, <1>7 DEF Running
    <2>2. QED BY <2>1 DEF PInv, SlotsRespected
  <1>11. Registering'
    BY <1>6 DEF Registering
  <1>12. AllRegistered'
    BY <1>2, <1>3 DEF AllRegistered, Listed
  <1>13. Submitting'
    <2>1. ASSUME main'.pc = "submit", NEW i \in main'.n..Len(specs)
          PROVE  future'[specs[i]] = "none"
      <3>1. i \in main.n..Len(specs) /\ i # main.n /\ i \in 1..Len(specs)
        BY <1>1, <1>2, <1>5, <1>6, <2>1
      <3>2. specs[i] # e /\ specs[i] \in Episodes
        BY <1>1, <1>2, <3>1
      <3>3. QED BY <1>2, <1>3, <1>4, <3>1, <3>2
    <2>2. QED BY <1>3, <1>6, <2>1 DEF Submitting
  <1>14. Collecting'
    <2>1. main'.pc = "collect" => main'.n = 1
      BY <1>1, <1>2, <1>5
    <2>2. QED BY <1>1, <1>3, <1>6, <2>1 DEF Collecting
  <1>15. ReportComplete'
    BY <1>2, <1>3, <1>6 DEF PInv, ReportComplete
  <1>16. QED
    BY <1>6, <1>8, <1>9, <1>10, <1>11, <1>12, <1>13, <1>14, <1>15 DEF PInv

LEMMA CollectKeepsPInv ==
    ASSUME PInv, Collect
    PROVE  PInv'
  <1>1. /\ Len(specs) \in Nat
        /\ \A i \in 1..Len(specs) : specs[i] \in Episodes
    BY ListFacts DEF PInv
  <1>2. /\ main.pc = "collect" /\ main.n \in 1..Len(specs) /\ future[specs[main.n]] = "ok"
        /\ \A i \in 1..Len(specs) : i < main.n => future[specs[i]] = "ok"
        /\ main = [pc |-> main.pc, n |-> main.n]
    BY DEF PInv, Collect, Collecting
  <1>3. UNCHANGED <<specs, future, stage, status, observed, report>>
    BY DEF Collect
  <1>4. \/ main' = [pc |-> "collect", n |-> main.n + 1] /\ main.n < Len(specs)
        \/ main' = [pc |-> "drain", n |-> Len(specs) + 1] /\ main.n = Len(specs)
    <2>1. CASE main.n < Len(specs)
      <3>1. main' = [main EXCEPT !.n = main.n + 1]
        BY <2>1 DEF Collect
      <3>2. main' = [pc |-> main.pc, n |-> main.n + 1]
        BY <1>2, <3>1
      <3>3. QED BY <1>2, <2>1, <3>2
    <2>2. CASE ~ (main.n < Len(specs))
      <3>1. main' = [main EXCEPT !.pc = "drain", !.n = Len(specs) + 1]
        BY <2>2 DEF Collect
      <3>2. main' = [pc |-> "drain", n |-> Len(specs) + 1]
        BY <1>2, <3>1
      <3>3. QED BY <1>1, <1>2, <2>2, <3>2
    <2>3. QED BY <2>1, <2>2
  <1>5. /\ main'.pc \in {"collect", "drain"} /\ main'.n = main.n + 1
        /\ main' = [pc |-> main'.pc, n |-> main'.n]
        /\ main'.pc = "collect" => main'.n \in 1..Len(specs)
        /\ main'.n \in 1..(Len(specs) + 1)
    BY <1>1, <1>2, <1>4
  <1>6. TypeOK'
    BY <1>3, <1>5 DEF PInv, TypeOK
  <1>7. \A d \in Episodes : Agreed(d)'
    BY <1>3 DEF PInv, Agreed
  <1>8. SlotsRespected'
    BY <1>3 DEF PInv, SlotsRespected, Running
  <1>9. Registering' /\ Submitting'
    BY <1>5 DEF Registering, Submitting
  <1>10. AllRegistered'
    BY <1>2, <1>3 DEF PInv, AllRegistered, Listed
  <1>11. Collecting'
    <2>1. \A i \in 1..Len(specs) : i < main.n + 1 => future[specs[i]] = "ok"
      BY <1>1, <1>2
    <2>2. QED BY <1>3, <1>5, <2>1 DEF Collecting
  <1>12. ReportComplete'
    BY <1>2, <1>3, <1>5 DEF PInv, ReportComplete
  <1>13. QED BY <1>5, <1>6, <1>7, <1>8, <1>9, <1>10, <1>11, <1>12 DEF PInv

LEMMA CollectRaisesKeepsPInv ==
    ASSUME PInv, CollectRaises
    PROVE  PInv'
  <1>1. /\ Len(specs) \in Nat
        /\ \A i \in 1..Len(specs) : specs[i] \in Episodes
    BY ListFacts DEF PInv
  <1>2. /\ main.pc = "collect" /\ main.n \in 1..Len(specs)
        /\ main = [pc |-> main.pc, n |-> main.n]
    BY DEF PInv, CollectRaises, Collecting
  <1>3. /\ UNCHANGED <<specs, stage, status, observed, report>>
        /\ future' = [e \in Episodes |-> IF future[e] = "pending" THEN "cancelled"
                                         ELSE future[e]]
        /\ main' = [pc |-> "drain", n |-> main.n]
    BY <1>2 DEF CollectRaises
  <1>4. future \in [Episodes -> {"none", "pending", "running", "ok", "raised", "cancelled"}]
    BY DEF PInv, TypeOK
  <1>5. TypeOK'
    <2>1. future' \in [Episodes -> {"none", "pending", "running", "ok", "raised", "cancelled"}]
      BY <1>3, <1>4
    <2>2. main'.pc = "drain" /\ main'.n \in 1..(Len(specs) + 1)
      BY <1>1, <1>2, <1>3
    <2>3. QED BY <1>3, <2>1, <2>2 DEF PInv, TypeOK
  <1>6. \A d \in Episodes : Agreed(d)'
    BY <1>3, <1>4 DEF PInv, Agreed
  <1>7. SlotsRespected'
    <2>1. Running' = Running
      BY <1>3, <1>4 DEF Running
    <2>2. QED BY <2>1 DEF PInv, SlotsRespected
  <1>8. Registering' /\ Submitting'
    BY <1>3 DEF Registering, Submitting
  <1>9. AllRegistered'
    BY <1>2, <1>3 DEF PInv, AllRegistered, Listed
  <1>10. Collecting'
    BY <1>1, <1>2, <1>3, <1>4 DEF PInv, Collecting
  <1>11. ReportComplete'
    BY <1>2, <1>3 DEF PInv, ReportComplete
  <1>12. QED BY <1>3, <1>5, <1>6, <1>7, <1>8, <1>9, <1>10, <1>11 DEF PInv

(* The snapshot of a pool whose episodes have all ended.                   *)
LEMMA FinalSnapshot ==
    ASSUME PInv, main.pc = "drain", main.n > Len(specs)
    PROVE  /\ Count("QUEUED") = 0 /\ Count("INIT") = 0 /\ Count("RUN") = 0
           /\ Count("POSTRUN") = 0
           /\ CompletedTotal \in Nat /\ FailedTotal \in Nat
           /\ CompletedTotal + FailedTotal = Len(specs)
  <1> DEFINE C == {e \in Episodes : status[e] = "COMPLETED"}
             A == {e \in Episodes : status[e] # "NONE"}
             L == 1..Len(specs)
             f == [i \in L |-> specs[i]]
  <1>1. Len(specs) \in Nat /\ \A i \in L : specs[i] \in Episodes
    BY ListFacts DEF PInv
  <1>2. \A i \in L : i < main.n => future[specs[i]] = "ok"
    BY DEF PInv, Collecting
  <1>3. \A i \in L : future[specs[i]] = "ok"
    <2>1. main.n \in Nat
      BY ListFacts DEF PInv
    <2>2. \A i \in L : i < main.n
      BY <1>1, <2>1
    <2>3. QED BY <1>2, <2>2
  <1>4. \A e \in Episodes : stage[e] # "NONE" => Listed(e)
    BY DEF PInv, AllRegistered
  <1>5. \A e \in Episodes : stage[e] \in {"NONE", "TERMINAL"}
    <2>1. ASSUME NEW e \in Episodes, stage[e] # "NONE" PROVE stage[e] = "TERMINAL"
      <3>1. future[e] = "ok"
        BY <1>3, <1>4, <2>1 DEF Listed
      <3>2. QED BY <3>1 DEF PInv, Agreed
    <2>2. QED BY <2>1
  <1>6. ASSUME NEW s \in {"QUEUED", "INIT", "RUN", "POSTRUN"} PROVE Count(s) = 0
    <2>1. {e \in Episodes : stage[e] = s} = {}
      BY <1>5
    <2>2. QED BY <2>1, FS_EmptySet DEF Count
  <1>7. A = {specs[i] : i \in L}
    <2>1. ASSUME NEW e \in A PROVE e \in {specs[i] : i \in L}
      <3>1. stage[e] = "TERMINAL"
        BY <2>1 DEF PInv, Agreed
      <3>2. QED BY <1>4, <2>1, <3>1 DEF Listed
    <2>2. ASSUME NEW i \in L PROVE specs[i] \in A
      <3>1. future[specs[i]] = "ok" /\ specs[i] \in Episodes
        BY <1>1, <1>3
      <3>2. QED BY <3>1 DEF PInv, Agreed
    <2>3. QED BY <2>1, <2>2
  <1>8. f \in Bijection(L, A)
    <2>1. \A i, j \in L : specs[i] = specs[j] => i = j
      BY DEF PInv, AllRegistered
    <2>2. QED BY <1>7, <2>1 DEF Bijection, Injection, Surjection, IsInjective
  <1>9. IsFiniteSet(L) /\ Cardinality(L) = Len(specs)
    <2>1. /\ IsFiniteSet(L)
          /\ Cardinality(L) = IF 1 > Len(specs) THEN 0 ELSE Len(specs) - 1 + 1
      BY <1>1, FS_Interval
    <2>2. QED BY <1>1, <2>1
  <1>10. IsFiniteSet(A) /\ Cardinality(A) = Len(specs)
    <2>1. ExistsBijection(L, A)
      BY <1>8 DEF ExistsBijection
    <2> HIDE DEF L, A
    <2>2. QED BY <1>9, <2>1, FS_Bijection
  <1>11. C \in SUBSET A
    OBVIOUS
  <1>12. Cardinality(C) \in Nat /\ Cardinality(C) <= Cardinality(A)
    <2> HIDE DEF C, A
    <2>1. IsFiniteSet(C) /\ Cardinality(C) <= Cardinality(A)
      BY <1>10, <1>11, FS_Subset
    <2>2. QED BY <2>1, FS_CardinalityType
  <1>13. CompletedTotal = Cardinality(C) /\ FailedTotal = Cardinality(A) - Cardinality(C)
    BY DEF CompletedTotal, FailedTotal
  <1> HIDE DEF C, A
  <1>14. QED BY <1>1, <1>6, <1>10, <1>12, <1>13

LEMMA DrainKeepsPInv ==
    ASSUME PInv, Drain
    PROVE  PInv'
  <1>1. /\ Len(specs) \in Nat /\ main.n \in Nat
        /\ main.pc = "drain" /\ Running = {} /\ main = [pc |-> main.pc, n |-> main.n]
    BY ListFacts DEF PInv, Drain
  <1>2. UNCHANGED <<specs, future, stage, status, observed>>
    BY DEF Drain
  <1>3. \A d \in Episodes : Agreed(d)'
    BY <1>2 DEF PInv, Agreed
  <1>4. SlotsRespected'
    BY <1>2 DEF PInv, SlotsRespected, Running
  <1>5. CASE main.n > Len(specs)
    <2>1. main' = [pc |-> "returned", n |-> main.n] /\ report' = Snapshot
      BY <1>1, <1>5 DEF Drain
    <2>2. /\ Count("QUEUED") = 0 /\ Count("INIT") = 0 /\ Count("RUN") = 0
          /\ Count("POSTRUN") = 0
          /\ CompletedTotal \in Nat /\ FailedTotal \in Nat
          /\ CompletedTotal + FailedTotal = Len(specs)
      BY <1>1, <1>5, FinalSnapshot
    <2>3. report' = <<0, 0, 0, 0, CompletedTotal, FailedTotal>>
      BY <2>1, <2>2 DEF Snapshot
    <2>4. report' \in Seq(Nat) /\ report' # <<>>
      BY <2>2, <2>3
    <2>5. TypeOK'
      BY <1>2, <2>1, <2>4 DEF PInv, TypeOK
    <2>6. ReportComplete'
      <3>1. CompletedTotal' = CompletedTotal
        BY <1>2 DEF CompletedTotal
      <3>2. /\ \A i \in 1..4 : report'[i] = 0
            /\ report'[5] = CompletedTotal /\ report'[6] = FailedTotal
        BY <2>3
      <3>3. QED BY <1>2, <2>1, <2>2, <2>4, <3>1, <3>2 DEF ReportComplete
    <2>7. Registering' /\ Submitting'
      BY <2>1 DEF Registering, Submitting
    <2>8. AllRegistered' /\ Collecting'
      BY <1>1, <1>2, <1>5, <2>1 DEF PInv, AllRegistered, Collecting, Listed
    <2>9. QED BY <1>3, <1>4, <2>1, <2>5, <2>6, <2>7, <2>8 DEF PInv
  <1>6. CASE ~ (main.n > Len(specs))
    <2>1. main' = [pc |-> "raised", n |-> main.n] /\ report' = report
      BY <1>1, <1>6 DEF Drain
    <2>2. TypeOK'
      BY <1>2, <2>1 DEF PInv, TypeOK
    <2>3. report = <<>>
      BY <1>1 DEF PInv, ReportComplete
    <2>4. /\ Registering' /\ Submitting' /\ AllRegistered' /\ Collecting' /\ ReportComplete'
      BY <2>1, <2>3 DEF Registering, Submitting, AllRegistered, Collecting, ReportComplete
    <2>5. QED BY <1>3, <1>4, <2>1, <2>2, <2>4 DEF PInv
  <1>7. QED BY <1>5, <1>6

(* A step of a pool thread or a proxy thread on one episode that is not    *)
(* waiting to be submitted leaves the calling thread's facts alone.        *)
LEMMA TaskFrame ==
    ASSUME PInv, NEW e \in Episodes, TypeOK', SlotsRespected',
           UNCHANGED <<specs, main, report>>,
           \A d \in Episodes : d # e => /\ future'[d] = future[d] /\ stage'[d] = stage[d]
                                        /\ status'[d] = status[d],
           future[e] \notin {"none", "cancelled"}, future'[e] # "none", Agreed(e)',
           stage[e] # "NONE", stage'[e] # "NONE",
           future[e] = "ok" => future'[e] = "ok",
           main.pc = "returned" => status' = status
    PROVE  PInv'
  <1>1. \A d \in Episodes : Agreed(d)'
    BY DEF PInv, Agreed
  <1>2. \A i \in 1..Len(specs) : specs[i] \in Episodes
    BY ListFacts DEF PInv
  <1>3. main.pc # "register"
    BY DEF PInv, Registering
  <1>4. Registering'
    BY <1>3 DEF Registering
  <1>5. AllRegistered'
    BY DEF PInv, AllRegistered, Listed
  <1>6. Submitting'
    <2>1. ASSUME main.pc = "submit", NEW i \in main.n..Len(specs)
          PROVE  future'[specs[i]] = "none"
      <3>1. future[specs[i]] = "none" /\ i \in 1..Len(specs)
        BY <2>1, ListFacts DEF PInv, Submitting
      <3>2. specs[i] # e /\ specs[i] \in Episodes
        BY <1>2, <3>1
      <3>3. QED BY <3>1, <3>2
    <2>2. QED BY <2>1 DEF PInv, Submitting
  <1>7. Collecting'
    BY <1>2 DEF PInv, Collecting
  <1>8. ReportComplete'
    <2>1. main.pc = "returned" => CompletedTotal' = CompletedTotal
      BY DEF CompletedTotal
    <2>2. QED BY <2>1 DEF PInv, ReportComplete
  <1>9. QED BY <1>1, <1>4, <1>5, <1>6, <1>7, <1>8 DEF PInv

(* When run() has returned, no future can move any more.                   *)
LEMMA ReturnedIsQuiet ==
    ASSUME PInv, main.pc = "returned", NEW e \in Episodes
    PROVE  future[e] \in {"none", "ok"}
  <1>1. CASE stage[e] = "NONE"
    BY <1>1 DEF PInv, Agreed, TypeOK
  <1>2. CASE stage[e] # "NONE"
    <2>1. Listed(e)
      BY <1>2 DEF PInv, AllRegistered
    <2>2. PICK i \in 1..Len(specs) : specs[i] = e
      BY <2>1 DEF Listed
    <2>3. i < main.n
      BY ListFacts DEF PInv, Collecting
    <2>4. QED BY <2>2, <2>3 DEF PInv, Collecting
  <1>3. QED BY <1>1, <1>2

LEMMA StartTaskKeepsPInv ==
    ASSUME PInv, NEW e \in Episodes, StartTask(e)
    PROVE  PInv'
  <1>1. /\ future \in [Episodes -> {"none", "pending", "running", "ok", "raised", "cancelled"}]
        /\ stage \in [Episodes -> Stages] /\ future[e] = "pending" /\ stage[e] = "QUEUED"
        /\ status[e] = "NONE"
    BY DEF PInv, TypeOK, StartTask, Agreed
  <1>2. /\ UNCHANGED <<specs, main, status, observed, report>>
        /\ future' = [future EXCEPT ![e] = "running"] /\ stage' = Transition(e, "INIT")
    BY DEF StartTask
  <1>3. /\ stage' \in [Episodes -> Stages] /\ stage'[e] = "INIT"
        /\ \A d \in Episodes : d # e => stage'[d] = stage[d]
    BY <1>1, <1>2, TransitionFacts DEF PInv
  <1>4. TypeOK'
    BY <1>1, <1>2, <1>3 DEF PInv, TypeOK
  <1>5. SlotsRespected'
    <2>1. Running' = Running \cup {e} /\ e \notin Running
      BY <1>1, <1>2 DEF Running
    <2>2. IsFiniteSet(Running) /\ Cardinality(Running) < MaxConcurrency
      BY DEF PInv, SlotsRespected, StartTask
    <2>3. IsFiniteSet(Running') /\ Cardinality(Running') = Cardinality(Running) + 1
      BY <2>1, <2>2, FS_AddElement
    <2>4. Cardinality(Running) \in Nat /\ MaxConcurrency \in Nat
      BY <2>2, FS_CardinalityType, PoolAssumption
    <2>5. QED BY <2>2, <2>3, <2>4 DEF SlotsRespected
  <1>6. Agreed(e)'
    BY <1>1, <1>2, <1>3 DEF Agreed
  <1>7. QED BY <1>1, <1>2, <1>3, <1>4, <1>5, <1>6, TaskFrame

(* The observer's report of a stage, on time or late.                      *)
LEMMA ObservedKeepsPInv ==
    ASSUME PInv, NEW e \in Episodes, NEW s \in {"RUN", "POSTRUN"},
           future[e] \in {"running", "ok", "raised"}, stage' = Transition(e, s),
           observed' \in SUBSET Episodes, UNCHANGED <<specs, main, future, status, report>>
    PROVE  PInv'
  <1>1. stage \in [Episodes -> Stages] /\ stage[e] \in {"INIT", "RUN", "POSTRUN", "TERMINAL"}
    BY DEF PInv, TypeOK, Agreed
  <1>2. /\ stage' \in [Episodes -> Stages]
        /\ \A d \in Episodes : d # e => stage'[d] = stage[d]
        /\ stage[e] = "TERMINAL" => stage'[e] = "TERMINAL"
        /\ stage[e] # "TERMINAL" => stage'[e] \in {"INIT", "RUN", "POSTRUN"}
    BY <1>1, TransitionFacts DEF PInv
  <1>3. TypeOK'
    BY <1>2 DEF PInv, TypeOK
  <1>4. SlotsRespected'
    BY DEF PInv, SlotsRespected, Running
  <1>5. Agreed(e)'
    BY <1>1, <1>2 DEF PInv, Agreed
  <1>6. QED BY <1>1, <1>2, <1>3, <1>4, <1>5, TaskFrame

LEMMA FinishTaskKeepsPInv ==
    ASSUME PInv, NEW e \in Episodes, NEW r \in {"COMPLETED", "FAILED", "raised"},
           FinishTask(e, r)
    PROVE  PInv'
  <1>1. /\ future \in [Episodes -> {"none", "pending", "running", "ok", "raised", "cancelled"}]
        /\ stage \in [Episodes -> Stages] /\ status \in [Episodes -> {"NONE", "COMPLETED", "FAILED"}]
        /\ future[e] = "running" /\ stage[e] \in {"INIT", "RUN", "POSTRUN"}
    BY DEF PInv, TypeOK, FinishTask, Agreed
  <1>2. /\ UNCHANGED <<specs, main, observed, report>>
        /\ future' = [future EXCEPT ![e] = IF r = "raised" THEN "raised" ELSE "ok"]
        /\ stage' = [stage EXCEPT ![e] = "TERMINAL"]
        /\ status' = [status EXCEPT ![e] = IF r = "COMPLETED" THEN r ELSE "FAILED"]
    BY DEF FinishTask
  <1>3. TypeOK'
    BY <1>1, <1>2 DEF PInv, TypeOK, Stages
  <1>4. SlotsRespected'
    <2>1. Running' = Running \ {e} /\ e \in Running
      BY <1>1, <1>2 DEF Running
    <2>2. IsFiniteSet(Running) /\ Cardinality(Running) <= MaxConcurrency
      BY DEF PInv, SlotsRespected
    <2>3. IsFiniteSet(Running') /\ Cardinality(Running') = Cardinality(Running) - 1
      BY <2>1, <2>2, FS_RemoveElement
    <2>4. Cardinality(Running) \in Nat /\ MaxConcurrency \in Nat
      BY <2>2, FS_CardinalityType, PoolAssumption
    <2>5. QED BY <2>2, <2>3, <2>4 DEF SlotsRespected
  <1>5. Agreed(e)'
    BY <1>1, <1>2 DEF Agreed
  <1>6. main.pc # "returned"
    BY <1>1, ReturnedIsQuiet
  <1>7. \A d \in Episodes : d # e => /\ future'[d] = future[d] /\ stage'[d] = stage[d]
                                     /\ status'[d] = status[d]
    BY <1>1, <1>2
  <1>8. future'[e] # "none" /\ stage'[e] # "NONE"
    BY <1>1, <1>2
  <1>9. QED BY <1>1, <1>2, <1>3, <1>4, <1>5, <1>6, <1>7, <1>8, TaskFrame

LEMMA PStep == PInv /\ [Next]_vars => PInv'
  <1> SUFFICES ASSUME PInv, [Next]_vars PROVE PInv'
    OBVIOUS
  <1>1. CASE Main
    BY <1>1, RegisterKeepsPInv, SubmitKeepsPInv, CollectKeepsPInv, CollectRaisesKeepsPInv,
       DrainKeepsPInv DEF Main
  <1>2. ASSUME NEW e \in Episodes, Task(e) PROVE PInv'
    <2>1. CASE StartTask(e)
      BY <2>1, StartTaskKeepsPInv
    <2>2. CASE ObservePostrun(e)
      <3>1. observed' \in SUBSET Episodes
        BY <2>2 DEF ObservePostrun, PInv, TypeOK
      <3>2. QED BY <2>2, <3>1, ObservedKeepsPInv DEF ObservePostrun
    <2>3. CASE \E r \in {"COMPLETED", "FAILED", "raised"} : FinishTask(e, r)
      BY <2>3, FinishTaskKeepsPInv
    <2>4. QED BY <1>2, <2>1, <2>2, <2>3 DEF Task
  <1>3. ASSUME NEW e \in Episodes, ObserveRun(e) PROVE PInv'
    <2>1. observed' \in SUBSET Episodes
      BY <1>3 DEF ObserveRun, PInv, TypeOK
    <2>2. QED BY <1>3, <2>1, ObservedKeepsPInv DEF ObserveRun
  <1>4. CASE UNCHANGED vars
    <2>1. TypeOK' /\ main' = [pc |-> main'.pc, n |-> main'.n]
      BY <1>4 DEF vars, PInv, TypeOK
    <2>2. \A e \in Episodes : Agreed(e)'
      BY <1>4 DEF vars, PInv, Agreed
    <2>3. Registering' /\ Submitting' /\ Collecting'
      BY <1>4 DEF vars, PInv, Registering, Submitting, Collecting
    <2>4. AllRegistered' /\ SlotsRespected'
      BY <1>4 DEF vars, PInv, AllRegistered, Listed, SlotsRespected, Running
    <2>5. ReportComplete'
      BY <1>4 DEF vars, PInv, ReportComplete, CompletedTotal
    <2>6. QED BY <2>1, <2>2, <2>3, <2>4, <2>5 DEF PInv
  <1>5. QED BY <1>1, <1>2, <1>3, <1>4 DEF Next
-----------------------------------------------------------------------------
(* For every list of specs, every max_concurrency and any interleaving of  *)
(* the pool's threads with late model requests: the gauges and the written *)
(* report say what the futures did, and never more than max_concurrency    *)
(* episodes are in flight.                                                 *)
THEOREM PoolIsTruthful == Spec => []PoolTruthful
  <1>1. PInv => PoolTruthful
    <2> SUFFICES ASSUME PInv PROVE PoolTruthful
      OBVIOUS
    <2>1. InFlight = Running
      BY DEF PInv, Agreed, InFlight, Running
    <2>2. GaugesTruthful
      BY <2>1 DEF PInv, Agreed, GaugesTruthful, SlotsRespected
    <2>3. QED BY <2>2 DEF PInv, PoolTruthful
  <1>2. QED BY InitPInv, PStep, <1>1, PTL DEF Spec
=============================================================================
