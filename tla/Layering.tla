------------------------------ MODULE Layering ------------------------------
(***************************************************************************)
(* plan_waves of core/src/orchestrator/topology.rs as a machine: one step  *)
(* validates the edges, one step places one wave, and the call returns     *)
(* either the layering ("layered") or an error ("rejected").               *)
(*                                                                         *)
(* The environment picks any plan over Ids of at most MaxPlan subtasks,    *)
(* duplicates, self edges and unknown ids included, and the ids that       *)
(* earlier plans completed.                                                *)
(***************************************************************************)
EXTENDS Topology

CONSTANTS
  Ids,      \* subtask ids a plan may use
  Earlier,  \* the sets of ids earlier plans may have completed
  MaxPlan   \* bound on the length of a plan

ASSUME IdsAssumption == Ids \subseteq Nat /\ Earlier \subseteq SUBSET Ids
ASSUME MaxPlanAssumption == MaxPlan \in Nat \ {0}

VARIABLES
  plan,       \* the argument subtasks
  completed,  \* the argument completed
  rank,       \* the waves built so far
  wave,       \* waves.len()
  phase       \* "validate", "layer", "layered" or "rejected"

vars == <<plan, completed, rank, wave, phase>>

Subtask == [id : Ids, deps : SUBSET Ids]
Plans == UNION {[1 .. n -> Subtask] : n \in 1 .. MaxPlan}

TypeOK ==
  /\ plan \in Plans
  /\ completed \subseteq Ids
  /\ rank \in [DOMAIN plan -> Nat]
  /\ wave \in Nat
  /\ phase \in {"validate", "layer", "layered", "rejected"}

Init ==
  /\ plan \in Plans
  /\ completed \in Earlier
  /\ rank = NoRank(plan)
  /\ wave = 0
  /\ phase = "validate"

Validate ==
  /\ phase = "validate"
  /\ phase' = IF BadEdges(plan, completed) THEN "rejected" ELSE "layer"
  /\ UNCHANGED <<plan, completed, rank, wave>>

(* One turn of the while loop: place every subtask that became ready. *)
Layer ==
  /\ phase = "layer"
  /\ Ready(plan, completed, rank) # {}
  /\ rank' = PlaceWave(rank, Ready(plan, completed, rank), wave + 1)
  /\ wave' = wave + 1
  /\ UNCHANGED <<plan, completed, phase>>

(* Mutant: only a plan without any first wave is seen to be cyclic. *)
StuckAtFirstWave ==
  /\ phase = "layer"
  /\ wave = 0
  /\ Ready(plan, completed, rank) = {}
  /\ phase' = "rejected"
  /\ UNCHANGED <<plan, completed, rank, wave>>

Stuck ==
  /\ phase = "layer"
  /\ ~AllPlaced(rank)
  /\ Ready(plan, completed, rank) = {}
  /\ phase' = "rejected"
  /\ UNCHANGED <<plan, completed, rank, wave>>

Return ==
  /\ phase = "layer"
  /\ AllPlaced(rank)
  /\ phase' = "layered"
  /\ UNCHANGED <<plan, completed, rank, wave>>

Next == Validate \/ Layer \/ Stuck \/ Return

Spec == Init /\ [][Next]_vars /\ WF_vars(Next)
-----------------------------------------------------------------------------
(* An edge that still has to be satisfied: i needs j, and j's id was not   *)
(* completed by an earlier plan.                                           *)
Needs(i, j) == plan[j].id \in plan[i].deps \ completed

(* A set of subtasks none of which can run first.  A plan has a dependency *)
(* cycle exactly when it has such a set.                                   *)
Deadlocked(S) == S # {} /\ \A i \in S : \E j \in S : Needs(i, j)
Cyclic == \E S \in SUBSET DOMAIN plan : Deadlocked(S)

(* Every open edge points to an earlier wave: a subtask in wave N needs    *)
(* only subtasks of waves before N (the promise of the module's header).   *)
EdgesPointBack ==
  phase = "layered" =>
    \A i, j \in DOMAIN plan : Needs(i, j) => rank[j] < rank[i]

(* No subtask is held back: a subtask of a wave after the first has an     *)
(* open edge into the wave just before its own, so the layering is the     *)
(* earliest one possible, for any depth of the graph.                      *)
EarliestWave ==
  phase = "layered" =>
    \A i \in DOMAIN plan : rank[i] > 1 =>
      \E j \in DOMAIN plan : Needs(i, j) /\ rank[j] = rank[i] - 1

(* The call errs exactly for the plans its doc comment lists: bad edges or *)
(* a cycle.  An acyclic plan is never refused and a cyclic one never runs. *)
RejectedIffInvalid ==
  /\ phase = "rejected" => BadEdges(plan, completed) \/ Cyclic
  /\ phase = "layered" => ~BadEdges(plan, completed) /\ ~Cyclic

(* The layering loop ends for every plan the conductor can emit. *)
Returns == <>(phase \in {"layered", "rejected"})
=============================================================================
