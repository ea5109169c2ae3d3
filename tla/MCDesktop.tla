------------------------------- MODULE MCDesktop -------------------------------
(* Three calls: a launch and two picks. *)
EXTENDS Desktop
================================================================================
