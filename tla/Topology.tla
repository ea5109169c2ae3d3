------------------------------ MODULE Topology ------------------------------
(***************************************************************************)
(* The vocabulary of core/src/orchestrator/topology.rs: what makes a plan  *)
(* of the conductor an invalid dependency graph, and which subtasks Kahn's *)
(* layering may place next.                                                *)
(*                                                                         *)
(* A plan is a sequence of subtasks [id, deps].  The waves that plan_waves *)
(* builds are represented by a rank: rank[i] is the number of the wave     *)
(* that holds the i-th subtask, Unplaced while it is in none.  Within a    *)
(* wave the subtasks keep the order of the plan, so the rank and the index *)
(* together give the order in which the run visits them.                   *)
(***************************************************************************)
EXTENDS Integers, Sequences

Unplaced == 0

IdsOf(plan) == {plan[i].id : i \in DOMAIN plan}

(* The three rejections that precede the layering. *)
HasDuplicateId(plan) ==
  \E i, j \in DOMAIN plan : i # j /\ plan[i].id = plan[j].id

HasSelfEdge(plan) ==
  \E i \in DOMAIN plan : plan[i].id \in plan[i].deps

HasUnknownDep(plan, completed) ==
  \E i \in DOMAIN plan : \E d \in plan[i].deps : d \notin IdsOf(plan) \cup completed

BadEdges(plan, completed) ==
  HasDuplicateId(plan) \/ HasSelfEdge(plan) \/ HasUnknownDep(plan, completed)

NoRank(plan) == [i \in DOMAIN plan |-> Unplaced]

AllPlaced(rank) == \A i \in DOMAIN rank : rank[i] # Unplaced

(* Mutants of Ready: one satisfied dependency is enough; work completed by *)
(* an earlier plan is forgotten.                                           *)
ReadyTooEarly(plan, completed, rank) ==
  {i \in DOMAIN plan :
     /\ rank[i] = Unplaced
     /\ \/ plan[i].deps \subseteq completed
        \/ \E j \in DOMAIN plan : rank[j] # Unplaced /\ plan[j].id \in plan[i].deps}

ReadyForgetsCompleted(plan, completed, rank) ==
  {i \in DOMAIN plan :
     /\ rank[i] = Unplaced
     /\ \A d \in plan[i].deps :
          \E j \in DOMAIN plan : rank[j] # Unplaced /\ plan[j].id = d}

(* The subtasks whose every dependency sits in an earlier wave or was      *)
(* completed by a plan before this one.                                    *)
Ready(plan, completed, rank) ==
  {i \in DOMAIN plan :
     /\ rank[i] = Unplaced
     /\ \A d \in plan[i].deps :
          \/ d \in completed
          \/ \E j \in DOMAIN plan : rank[j] # Unplaced /\ plan[j].id = d}

(* Mutant of PlaceWave: a wave of one subtask only. *)
PlaceOne(rank, ready, wave) ==
  [i \in DOMAIN rank |-> IF i = CHOOSE j \in ready : TRUE THEN wave ELSE rank[i]]

PlaceWave(rank, ready, wave) ==
  [i \in DOMAIN rank |-> IF i \in ready THEN wave ELSE rank[i]]
=============================================================================
