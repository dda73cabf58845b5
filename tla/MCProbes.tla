------------------------------ MODULE MCProbes -------------------------------
(* Probes on small instances: one box runs the images. *)
EXTENDS Probes, TLC

CONSTANT Runner

MCImagesOf == [b \in Boxes |-> IF b = Runner THEN Images ELSE {}]
=============================================================================
