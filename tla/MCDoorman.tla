----------------------------- MODULE MCDoorman -----------------------------
(* Instances of Doorman for TLC. *)
EXTENDS Doorman
=============================================================================
