------------------------------- MODULE MCServer -------------------------------
(* Two sockets that compete for the permit, each with a run of one subtask *)
(* and one pause or resume frame.                                          *)
EXTENDS Server
=============================================================================
