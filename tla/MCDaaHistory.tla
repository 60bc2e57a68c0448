---------------------------- MODULE MCDaaHistory ----------------------------
(* The histories, with the constants of the runs of the line interface. *)
EXTENDS DaaHistory, MCDaa
=============================================================================
