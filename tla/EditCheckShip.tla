---------------------------- MODULE EditCheckShip ----------------------------
(***************************************************************************)
(* What a conduct run promises its caller, without plans, waves, attempts, *)
(* gates or replans: work on the tree is shipped only after a check of the *)
(* tree as it then is, a run that reports success leaves a tree that was   *)
(* checked after the last edit, and the report is final.                   *)
(***************************************************************************)
VARIABLES
  phase,     \* "running" or the report: "success", "failed", "halted", "aborted"
  trusted,   \* no edit since a check that did not fail
  shipped    \* the work accepted so far

vars == <<phase, trusted, shipped>>

Reports == {"success", "failed", "halted", "aborted"}

Init ==
  /\ phase = "running"
  /\ trusted = TRUE
  /\ shipped = {}

Edit ==
  /\ phase = "running"
  /\ trusted' = FALSE
  /\ UNCHANGED <<phase, shipped>>

Check ==
  /\ phase = "running"
  /\ ~trusted
  /\ trusted' \in BOOLEAN
  /\ UNCHANGED <<phase, shipped>>

Ship ==
  /\ phase = "running"
  /\ trusted
  /\ \E w \in shipped' \ shipped : shipped' = shipped \cup {w}
  /\ UNCHANGED <<phase, trusted>>

Succeed ==
  /\ phase = "running"
  /\ trusted
  /\ shipped # {}
  /\ phase' = "success"
  /\ UNCHANGED <<trusted, shipped>>

Stop ==
  /\ phase = "running"
  /\ phase' \in Reports \ {"success"}
  /\ UNCHANGED <<trusted, shipped>>

Next == Edit \/ Check \/ Ship \/ Succeed \/ Stop

Spec == Init /\ [][Next]_vars
==============================================================================
