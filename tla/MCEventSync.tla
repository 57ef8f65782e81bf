----------------------------- MODULE MCEventSync ----------------------------
(***************************************************************************)
(* An instance of EventSync for TLC: the second event belongs to another   *)
(* session than the first and the third.                                   *)
(***************************************************************************)
EXTENDS EventSync

MCSession == [e \in 1..MaxEvents |-> IF e = 2 THEN "other" ELSE "open"]
=============================================================================
