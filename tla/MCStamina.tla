----------------------------- MODULE MCStamina ------------------------------
(* Instances of Stamina for TLC. *)
EXTENDS Stamina, TLC

CONSTANT stage
=============================================================================
