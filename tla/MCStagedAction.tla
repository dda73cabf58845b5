--------------------------- MODULE MCStagedAction ---------------------------
(* StagedAction on small instances: an Elastic IP and the records of two zones. *)
EXTENDS StagedAction

MCGroupOf == [a \in Addresses |-> IF a = "eip" THEN "eip" ELSE "dns"]
=============================================================================
