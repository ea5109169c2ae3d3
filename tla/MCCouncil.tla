------------------------------ MODULE MCCouncil ------------------------------
(* Three members, two of them with one label and different ladders. *)
EXTENDS Council

MCLabelOf == [m \in Members |-> IF m = "c" THEN "lc" ELSE "la"]
MCLadderOf ==
  [v \in Voices |-> CASE v = "a" -> <<"x">> [] v = "b" -> <<"x", "y">> [] OTHER -> <<"y", "x">>]
===============================================================================
