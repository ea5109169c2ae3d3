--------------------------- MODULE LayeringProofs ---------------------------
(***************************************************************************)
(* For every set of ids and every length of plan: the layering of          *)
(* plan_waves respects the open edges, and it errs for bad edges or a      *)
(* dependency cycle only, and always for them.                             *)
(* No subtask is held back beyond what its edges ask for: of all orders    *)
(* that respect the edges it has the fewest waves, and it is found in as   *)
(* many turns as it has.                                                   *)
(***************************************************************************)
EXTENDS Layering, TLAPS, NaturalsInduction, WellFoundedInduction, FiniteSetTheorems

USE DEF Unplaced

(* What the loop maintains: placed subtasks sit in waves already built,    *)
(* and their open edges lead to strictly earlier waves.                    *)
RankInv ==
  /\ \A i \in DOMAIN plan : rank[i] <= wave
  /\ \A i \in DOMAIN plan : rank[i] # Unplaced =>
       \A d \in plan[i].deps :
         \/ d \in completed
         \/ \E j \in DOMAIN plan :
              /\ plan[j].id = d
              /\ rank[j] # Unplaced
              /\ rank[j] < rank[i]

(* Once the edges are validated the ids of the plan are distinct. *)
EdgeInv ==
  /\ phase \in {"layer", "layered"} => ~BadEdges(plan, completed)
  /\ phase = "layered" => AllPlaced(rank)

(* A layering that got stuck leaves a set of subtasks that wait for one    *)
(* another.                                                                *)
RejectInv == phase = "rejected" => BadEdges(plan, completed) \/ Cyclic

IInv == TypeOK /\ RankInv /\ EdgeInv /\ RejectInv
-----------------------------------------------------------------------------
LEMMA InitIInv == Init => IInv
<1> SUFFICES ASSUME Init PROVE IInv
  OBVIOUS
<1>1. TypeOK
  BY IdsAssumption DEF Init, TypeOK, NoRank
<1>2. RankInv /\ EdgeInv /\ RejectInv
  BY DEF Init, RankInv, EdgeInv, RejectInv, NoRank
<1> QED
  BY <1>1, <1>2 DEF IInv

(* The stuck subtasks are the witness of the cycle. *)
LEMMA StuckIsCyclic ==
  ASSUME TypeOK, ~BadEdges(plan, completed), ~AllPlaced(rank),
         Ready(plan, completed, rank) = {}
  PROVE  Cyclic
<1> DEFINE S == {i \in DOMAIN plan : rank[i] = Unplaced}
<1>1. S # {}
  BY DEF AllPlaced, TypeOK
<1>2. ASSUME NEW i \in S
      PROVE  \E j \in S : Needs(i, j)
  <2>1. PICK d \in plan[i].deps :
          /\ d \notin completed
          /\ \A j \in DOMAIN plan : plan[j].id = d => rank[j] = Unplaced
    BY DEF Ready
  <2>2. d \in IdsOf(plan)
    BY <2>1 DEF BadEdges, HasUnknownDep
  <2>3. PICK j \in DOMAIN plan : plan[j].id = d
    BY <2>2 DEF IdsOf
  <2> QED
    BY <2>1, <2>3 DEF Needs
<1>3. S \in SUBSET DOMAIN plan
  OBVIOUS
<1> QED
  BY <1>1, <1>2, <1>3 DEF Cyclic, Deadlocked

LEMMA StepIInv == IInv /\ [Next]_vars => IInv'
<1> SUFFICES ASSUME IInv, [Next]_vars PROVE IInv'
  OBVIOUS
<1> USE DEF IInv
<1>1. CASE Validate
  BY <1>1 DEF Validate, TypeOK, RankInv, EdgeInv, RejectInv, AllPlaced
<1>2. CASE Layer
  <2> DEFINE R == Ready(plan, completed, rank)
  <2>1. /\ phase = "layer"
        /\ rank' = [i \in DOMAIN rank |-> IF i \in R THEN wave + 1 ELSE rank[i]]
        /\ wave' = wave + 1
        /\ plan' = plan /\ completed' = completed /\ phase' = phase
    BY <1>2 DEF Layer, PlaceWave
  <2>2. TypeOK'
    BY <2>1 DEF TypeOK
  <2>3. DOMAIN rank = DOMAIN plan
    BY DEF TypeOK
  <2>4. wave \in Nat /\ \A i \in DOMAIN plan : rank[i] \in Nat /\ rank[i] <= wave
    BY DEF TypeOK, RankInv
  <2>5. RankInv'
    <3>1. ASSUME NEW i \in DOMAIN plan
          PROVE  rank'[i] <= wave'
      BY <2>1, <2>3, <2>4
    <3>2. ASSUME NEW i \in DOMAIN plan, rank'[i] # Unplaced,
                 NEW d \in plan[i].deps, d \notin completed
          PROVE  \E j \in DOMAIN plan :
                   plan[j].id = d /\ rank'[j] # Unplaced /\ rank'[j] < rank'[i]
      <4>1. CASE i \in R
        <5>1. PICK j \in DOMAIN plan : rank[j] # Unplaced /\ plan[j].id = d
          BY <3>2, <4>1 DEF Ready
        <5>2. j \notin R
          BY <5>1 DEF Ready
        <5>3. rank'[j] = rank[j] /\ rank'[i] = wave + 1
          BY <2>1, <2>3, <4>1, <5>2
        <5> QED
          BY <5>1, <5>3, <2>4
      <4>2. CASE i \notin R
        <5>1. rank'[i] = rank[i]
          BY <2>1, <2>3, <4>2
        <5>2. PICK j \in DOMAIN plan :
                plan[j].id = d /\ rank[j] # Unplaced /\ rank[j] < rank[i]
          BY <3>2, <5>1 DEF RankInv
        <5>3. j \notin R
          BY <5>2 DEF Ready
        <5>4. rank'[j] = rank[j]
          BY <2>1, <2>3, <5>3
        <5> QED
          BY <5>1, <5>2, <5>4
      <4> QED
        BY <4>1, <4>2
    <3> QED
      BY <3>1, <3>2, <2>1 DEF RankInv
  <2>6. EdgeInv' /\ RejectInv'
    BY <2>1 DEF EdgeInv, RejectInv
  <2> QED
    BY <2>2, <2>5, <2>6
<1>3. CASE Stuck
  <2>1. Cyclic
    BY <1>3, StuckIsCyclic DEF Stuck, EdgeInv
  <2>2. Cyclic' = Cyclic
    BY <1>3 DEF Stuck, Cyclic, Deadlocked, Needs
  <2> QED
    BY <1>3, <2>1, <2>2 DEF Stuck, TypeOK, RankInv, EdgeInv, RejectInv
<1>4. CASE Return
  BY <1>4 DEF Return, TypeOK, RankInv, EdgeInv, RejectInv, AllPlaced
<1>5. CASE UNCHANGED vars
  BY <1>5 DEF vars, TypeOK, RankInv, EdgeInv, RejectInv, AllPlaced, Cyclic,
              Deadlocked, Needs
<1> QED
  BY <1>1, <1>2, <1>3, <1>4, <1>5 DEF Next

(* In a finished layering an open edge into a placed subtask is an edge to *)
(* an earlier wave, because ids are distinct.                              *)
LEMMA LayeredEdges == IInv => EdgesPointBack
<1> SUFFICES ASSUME IInv, phase = "layered",
                    NEW i \in DOMAIN plan, NEW j \in DOMAIN plan, Needs(i, j)
             PROVE  rank[j] < rank[i]
  BY DEF EdgesPointBack
<1>1. DOMAIN rank = DOMAIN plan
  BY DEF IInv, TypeOK
<1>2. rank[i] # Unplaced /\ ~HasDuplicateId(plan)
  BY <1>1 DEF IInv, EdgeInv, AllPlaced, BadEdges
<1>3. PICK k \in DOMAIN plan : plan[k].id = plan[j].id /\ rank[k] < rank[i]
  BY <1>2 DEF IInv, RankInv, Needs
<1>4. k = j
  BY <1>2, <1>3 DEF HasDuplicateId
<1> QED
  BY <1>3, <1>4

(* A layering that respects the edges rules out a cycle: a set of subtasks *)
(* waiting for one another has no member of lowest rank.                   *)
LEMMA LayeredIsAcyclic == IInv /\ phase = "layered" => ~Cyclic
<1> SUFFICES ASSUME IInv, phase = "layered", NEW S \in SUBSET DOMAIN plan, Deadlocked(S)
             PROVE  FALSE
  BY DEF Cyclic
<1> DEFINE T == {rank[i] : i \in S}
<1>1. T \subseteq Nat /\ T # {}
  BY DEF IInv, TypeOK, Deadlocked
<1>2. PICK r \in T : \A t \in T : ~(<<t, r>> \in OpToRel(<, Nat))
  BY <1>1, NatLessThanWellFounded, WFMin
<1>3. PICK i \in S : rank[i] = r
  OBVIOUS
<1>4. PICK j \in S : Needs(i, j)
  BY DEF Deadlocked
<1>5. rank[j] < rank[i]
  BY <1>4, LayeredEdges DEF EdgesPointBack
<1>6. rank[j] \in T /\ rank[j] \in Nat /\ r \in Nat
  BY <1>1
<1>7. <<rank[j], r>> \in OpToRel(<, Nat)
  BY <1>3, <1>5, <1>6 DEF OpToRel
<1> QED
  BY <1>2, <1>6, <1>7

LEMMA Invariance == Spec => []IInv
<1>1. Init => IInv
  BY InitIInv
<1>2. IInv /\ [Next]_vars => IInv'
  BY StepIInv
<1> QED
  BY <1>1, <1>2, PTL DEF Spec

-----------------------------------------------------------------------------
(* What a wave leaves for the next ones: a placed subtask hangs on the     *)
(* wave before its own, and one that is not placed hangs on the last wave  *)
(* or on another that is not placed.                                       *)
EarlyInv ==
  /\ \A i \in DOMAIN plan : rank[i] > 1 =>
       \E j \in DOMAIN plan : Needs(i, j) /\ rank[j] = rank[i] - 1
  /\ wave > 0 => \A i \in DOMAIN plan : rank[i] = Unplaced =>
       \E j \in DOMAIN plan : Needs(i, j) /\ rank[j] \in {Unplaced, wave}

(* One turn of the loop keeps it: what becomes ready waited for the last   *)
(* wave, and what does not become ready waits for something unplaced.      *)
LEMMA LayerKeepsEarly == IInv /\ EarlyInv /\ Layer => EarlyInv'
<1> SUFFICES ASSUME IInv, EarlyInv, Layer PROVE EarlyInv'
  OBVIOUS
<1> DEFINE R == Ready(plan, completed, rank)
<1>1. /\ rank' = [i \in DOMAIN rank |-> IF i \in R THEN wave + 1 ELSE rank[i]]
      /\ wave' = wave + 1 /\ plan' = plan /\ completed' = completed
  BY DEF Layer, PlaceWave
<1>2. /\ DOMAIN rank = DOMAIN plan /\ wave \in Nat
      /\ \A i \in DOMAIN plan : rank[i] \in Nat
  BY DEF IInv, TypeOK
<1>3. ~HasDuplicateId(plan) /\ ~HasUnknownDep(plan, completed)
  BY DEF IInv, EdgeInv, Layer, BadEdges
<1>4. \A i \in R : rank[i] = Unplaced
  BY DEF Ready
<1>5. \A i, j \in DOMAIN plan : Needs(i, j)' <=> Needs(i, j)
  BY <1>1 DEF Needs
<1>6. ASSUME NEW i \in DOMAIN plan, rank'[i] > 1
      PROVE  \E j \in DOMAIN plan : Needs(i, j)' /\ rank'[j] = rank'[i] - 1
  <2>1. CASE i \in R
    <3>1. rank'[i] = wave + 1 /\ wave > 0 /\ rank[i] = Unplaced
      BY <1>1, <1>2, <1>4, <1>6, <2>1
    <3>2. PICK j \in DOMAIN plan : Needs(i, j) /\ rank[j] \in {Unplaced, wave}
      BY <3>1 DEF EarlyInv
    <3>3. PICK k \in DOMAIN plan : rank[k] # Unplaced /\ plan[k].id = plan[j].id
      BY <2>1, <3>2 DEF Ready, Needs
    <3>4. k = j
      BY <1>3, <3>3 DEF HasDuplicateId
    <3>5. rank[j] = wave /\ j \notin R
      BY <1>4, <3>2, <3>3, <3>4
    <3> QED
      BY <1>1, <1>2, <1>5, <3>1, <3>2, <3>5
  <2>2. CASE i \notin R
    <3>1. rank'[i] = rank[i]
      BY <1>1, <1>2, <2>2
    <3>2. PICK j \in DOMAIN plan : Needs(i, j) /\ rank[j] = rank[i] - 1
      BY <1>6, <3>1 DEF EarlyInv
    <3>3. j \notin R
      BY <1>2, <1>4, <1>6, <3>1, <3>2
    <3> QED
      BY <1>1, <1>2, <1>5, <3>1, <3>2, <3>3
  <2> QED
    BY <2>1, <2>2
<1>7. ASSUME NEW i \in DOMAIN plan, rank'[i] = Unplaced
      PROVE  \E j \in DOMAIN plan : Needs(i, j)' /\ rank'[j] \in {Unplaced, wave'}
  <2>1. i \notin R /\ rank[i] = Unplaced
    BY <1>1, <1>2, <1>7
  <2>2. PICK d \in plan[i].deps :
          d \notin completed /\ \A j \in DOMAIN plan : plan[j].id = d => rank[j] = Unplaced
    BY <2>1 DEF Ready
  <2>3. PICK j \in DOMAIN plan : plan[j].id = d
    BY <1>3, <2>2 DEF HasUnknownDep, IdsOf
  <2>4. Needs(i, j) /\ rank[j] = Unplaced
    BY <2>2, <2>3 DEF Needs
  <2> QED
    BY <1>1, <1>2, <1>5, <2>4
<1> QED
  BY <1>1, <1>6, <1>7 DEF EarlyInv

LEMMA Earliness == Spec => [](IInv /\ EarlyInv)
<1>1. Init => EarlyInv
  BY DEF Init, EarlyInv, NoRank
<1>2. IInv /\ EarlyInv /\ [Next]_vars => EarlyInv'
  <2> SUFFICES ASSUME IInv, EarlyInv, [Next]_vars PROVE EarlyInv'
    OBVIOUS
  <2>1. CASE Layer
    BY <2>1, LayerKeepsEarly
  <2>2. CASE UNCHANGED <<plan, completed, rank, wave>>
    BY <2>2 DEF EarlyInv, Needs
  <2> QED
    BY <2>1, <2>2 DEF Next, Validate, Stuck, Return, vars
<1> QED
  BY <1>1, <1>2, Invariance, PTL DEF Spec

(* The state of plan_waves is well typed for every plan. *)
THEOREM LayeringTypeCorrect == Spec => []TypeOK
<1>1. IInv => TypeOK
  BY DEF IInv
<1> QED
  BY <1>1, Invariance, PTL

(* topology.rs, module header: a subtask in wave N depends only on         *)
(* subtasks in waves before N, for every plan and every set of completed   *)
(* ids (an edge that an earlier plan satisfied is not an edge any more).   *)
THEOREM LayeringRespectsEdges == Spec => []EdgesPointBack
<1>1. IInv => EdgesPointBack
  BY LayeredEdges
<1> QED
  BY <1>1, Invariance, PTL

(* plan_waves refuses exactly the invalid graphs: it never refuses an      *)
(* acyclic plan with good edges and never layers a cyclic one.             *)
THEOREM LayeringRejectsExactly == Spec => []RejectedIffInvalid
<1>1. IInv => RejectedIffInvalid
  <2> SUFFICES ASSUME IInv PROVE RejectedIffInvalid
    OBVIOUS
  <2>1. phase = "rejected" => BadEdges(plan, completed) \/ Cyclic
    BY DEF IInv, RejectInv
  <2>2. phase = "layered" => ~BadEdges(plan, completed) /\ ~Cyclic
    BY LayeredIsAcyclic DEF IInv, EdgeInv
  <2> QED
    BY <2>1, <2>2 DEF RejectedIffInvalid
<1> QED
  BY <1>1, Invariance, PTL

(* topology.rs: plan_waves places a subtask as soon as its prerequisites   *)
(* are, so that what can run in the same wave does, for every plan.        *)
THEOREM LayeringIsEarliest == Spec => []EarliestWave
<1>1. IInv /\ EarlyInv => EarliestWave
  BY DEF EarlyInv, EarliestWave
<1> QED
  BY <1>1, Earliness, PTL
-----------------------------------------------------------------------------
(* All the ways to number the subtasks so that open edges point back. *)
Schedules ==
  {r \in [DOMAIN plan -> Nat \ {0}] : \A i, j \in DOMAIN plan : Needs(i, j) => r[j] < r[i]}

(* No schedule runs a placed subtask earlier, or one that is not placed in *)
(* a wave that is built; and no wave is empty.                             *)
LeastInv ==
  /\ \A r \in Schedules : \A i \in DOMAIN plan :
       /\ rank[i] # Unplaced => rank[i] <= r[i]
       /\ rank[i] = Unplaced => wave < r[i]
  /\ \A w \in 1 .. wave : \E i \in DOMAIN plan : rank[i] = w

LEMMA LayerKeepsLeast == IInv /\ LeastInv /\ Layer => LeastInv'
<1> SUFFICES ASSUME IInv, LeastInv, Layer PROVE LeastInv'
  OBVIOUS
<1> DEFINE R == Ready(plan, completed, rank)
<1>1. /\ rank' = [i \in DOMAIN rank |-> IF i \in R THEN wave + 1 ELSE rank[i]]
      /\ wave' = wave + 1 /\ plan' = plan /\ completed' = completed /\ R # {}
  BY DEF Layer, PlaceWave
<1>2. /\ DOMAIN rank = DOMAIN plan /\ wave \in Nat
      /\ \A i \in DOMAIN plan : rank[i] \in Nat /\ rank[i] <= wave
  BY DEF IInv, TypeOK, RankInv
<1>3. ~HasUnknownDep(plan, completed)
  BY DEF IInv, EdgeInv, Layer, BadEdges
<1>4. R \subseteq DOMAIN plan /\ \A i \in R : rank[i] = Unplaced
  BY DEF Ready
<1> HIDE DEF R
<1>5. Schedules' = Schedules
  BY <1>1 DEF Schedules, Needs
<1>6. \A w \in 1 .. wave' : \E i \in DOMAIN plan : rank'[i] = w
  <2> SUFFICES ASSUME NEW w \in 1 .. wave' PROVE \E i \in DOMAIN plan : rank'[i] = w
    OBVIOUS
  <2>1. CASE w = wave + 1
    BY <1>1, <1>2, <1>4, <2>1
  <2>2. CASE w # wave + 1
    <3>1. w \in 1 .. wave
      BY <1>1, <1>2, <2>2
    <3>2. PICK i \in DOMAIN plan : rank[i] = w
      BY <3>1 DEF LeastInv
    <3> QED
      BY <1>1, <1>2, <1>4, <3>1, <3>2
  <2> QED
    BY <2>1, <2>2
<1>7. ASSUME NEW r \in Schedules, NEW i \in DOMAIN plan
      PROVE  /\ rank'[i] # Unplaced => rank'[i] <= r[i]
             /\ rank'[i] = Unplaced => wave' < r[i]
  <2>1. /\ \A j \in DOMAIN plan : r[j] \in Nat
        /\ \A j \in DOMAIN plan : Needs(i, j) => r[j] < r[i]
    BY DEF Schedules
  <2>2. \A j \in DOMAIN plan : rank[j] = Unplaced => wave < r[j]
    BY DEF LeastInv
  <2>3. CASE i \in R
    BY <1>1, <1>2, <1>4, <2>1, <2>2, <2>3
  <2>4. CASE i \notin R /\ rank[i] # Unplaced
    BY <1>1, <1>2, <2>4 DEF LeastInv
  <2>5. CASE i \notin R /\ rank[i] = Unplaced
    <3>1. PICK d \in plan[i].deps :
            d \notin completed /\ \A j \in DOMAIN plan : plan[j].id = d => rank[j] = Unplaced
      BY <2>5 DEF R, Ready
    <3>2. PICK j \in DOMAIN plan : plan[j].id = d
      BY <1>3, <3>1 DEF HasUnknownDep, IdsOf
    <3>3. Needs(i, j) /\ rank[j] = Unplaced
      BY <3>1, <3>2 DEF Needs
    <3>4. wave < r[j] /\ r[j] < r[i] /\ r[j] \in Nat /\ r[i] \in Nat
      BY <2>1, <2>2, <3>3
    <3>5. rank'[i] = Unplaced
      BY <1>1, <1>2, <2>5
    <3> QED
      BY <1>1, <1>2, <3>4, <3>5
  <2> QED
    BY <2>3, <2>4, <2>5
<1>8. DOMAIN plan' = DOMAIN plan
  BY <1>1
<1> QED
  BY <1>5, <1>6, <1>7, <1>8 DEF LeastInv

LEMMA Leastness == Spec => [](IInv /\ LeastInv)
<1>1. Init => LeastInv
  <2> SUFFICES ASSUME Init PROVE LeastInv
    OBVIOUS
  <2>1. wave = 0 /\ \A i \in DOMAIN plan : rank[i] = Unplaced
    BY DEF Init, NoRank
  <2>2. \A r \in Schedules : \A i \in DOMAIN plan : 0 < r[i]
    BY DEF Schedules
  <2>3. 1 .. wave = {}
    BY <2>1
  <2> QED
    BY <2>1, <2>2, <2>3 DEF LeastInv
<1>2. IInv /\ LeastInv /\ [Next]_vars => LeastInv'
  <2> SUFFICES ASSUME IInv, LeastInv, [Next]_vars PROVE LeastInv'
    OBVIOUS
  <2>1. CASE Layer
    BY <2>1, LayerKeepsLeast
  <2>2. CASE UNCHANGED <<plan, completed, rank, wave>>
    BY <2>2 DEF LeastInv, Schedules, Needs
  <2> QED
    BY <2>1, <2>2 DEF Next, Validate, Stuck, Return, vars
<1> QED
  BY <1>1, <1>2, Invariance, PTL DEF Spec

(* The layering is the least of all schedules: no order that respects the  *)
(* open edges runs any subtask in an earlier wave, so that a plan gets as  *)
(* few waves as its longest chain of edges allows.                         *)
LayeringLeast ==
  phase = "layered" => \A r \in Schedules : \A i \in DOMAIN plan : rank[i] <= r[i]

THEOREM LayeringIsLeast == Spec => []LayeringLeast
<1>1. IInv /\ LeastInv => LayeringLeast
  BY DEF IInv, EdgeInv, TypeOK, AllPlaced, LeastInv, LayeringLeast
<1> QED
  BY <1>1, Leastness, PTL

(* The loop of plan_waves turns at most once for each subtask, whether it  *)
(* layers the plan or meets a cycle: the bound behind Returns.             *)
THEOREM LayeringTurns == Spec => [](wave <= Len(plan))
<1>1. IInv /\ LeastInv => wave <= Len(plan)
  <2> SUFFICES ASSUME IInv, LeastInv PROVE wave <= Len(plan)
    OBVIOUS
  <2>1. PICK n \in 1 .. MaxPlan : plan \in [1 .. n -> Subtask]
    BY DEF IInv, TypeOK, Plans
  <2>2. n \in Nat /\ DOMAIN plan = 1 .. n /\ Len(plan) = n
    BY <2>1, MaxPlanAssumption
  <2>3. wave \in Nat
    BY DEF IInv, TypeOK
  <2> DEFINE f == [w \in 1 .. wave |-> CHOOSE i \in DOMAIN plan : rank[i] = w]
  <2>4. \A w \in 1 .. wave : f[w] \in 1 .. n /\ rank[f[w]] = w
    BY <2>2 DEF LeastInv
  <2>5. f \in [1 .. wave -> 1 .. n]
    BY <2>4
  <2> HIDE DEF f
  <2>6. f \in Injection(1 .. wave, 1 .. n)
    BY <2>4, <2>5 DEF Injection, IsInjective
  <2>7. Cardinality(1 .. wave) <= Cardinality(1 .. n)
    BY <2>2, <2>6, FS_Interval, FS_Injection
  <2>8. Cardinality(1 .. wave) = wave /\ Cardinality(1 .. n) = n
    BY <2>2, <2>3, FS_Interval
  <2> QED
    BY <2>2, <2>7, <2>8
<1> QED
  BY <1>1, Leastness, PTL
=============================================================================
