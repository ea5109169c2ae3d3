------------------------------ MODULE MCConduct ------------------------------
(* Plans for the bounded runs of Conduct.  A subtask is written S(id, the  *)
(* ids it needs).                                                          *)
EXTENDS Conduct

S(i, d) == [id |-> i, deps |-> d]

(* First plans: chains, an independent pair, a fork, a join.               *)
(* Replacement plans: new work that builds on completed ids, and the       *)
(* replies the layering must refuse.                                       *)
Chain       == <<S(1, {}), S(2, {1})>>
Diamond     == <<S(1, {}), S(2, {}), S(3, {1, 2})>>
Pair        == <<S(1, {}), S(2, {})>>
OutOfOrder  == <<S(2, {1}), S(1, {})>>
Fork        == <<S(1, {}), S(2, {1}), S(3, {})>>
LongChain   == <<S(1, {}), S(2, {1}), S(3, {2})>>
BuildsOn    == <<S(3, {1})>>
FreshChain  == <<S(3, {}), S(4, {3})>>
Cycle       == <<S(3, {4}), S(4, {3})>>
UnknownEdge == <<S(3, {9})>>

(* One pass with every gate, one pass and a replacement, a conductor that  *)
(* reuses ids, and plans for a budget.                                     *)
GatePlans   == {OutOfOrder, LongChain, Diamond}
ReplanPlans == {Chain, OutOfOrder, Fork, BuildsOn, FreshChain, Cycle, UnknownEdge}
ReusedPlans == {Chain, Pair}
BudgetPlans == {OutOfOrder, <<S(3, {})>>}

MCTrees == {"t0", "t1"}
=============================================================================
