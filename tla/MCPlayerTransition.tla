------------------------ MODULE MCPlayerTransition ------------------------
(* Instances of PlayerTransition for TLC. *)
EXTENDS PlayerTransition
=============================================================================
