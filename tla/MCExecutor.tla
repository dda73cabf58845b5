---------------------------- MODULE MCExecutor ----------------------------
(* Small instances of Executor for TLC. *)
EXTENDS Executor

\* Two planned changes, one of a module with a grace period, and one from the page.
MCKindOf == [c \in Changes |-> IF c = "delete" THEN "snapshot_delete" ELSE "ebs"]
MCGraceHours == [k \in Kinds |-> IF k = "snapshot_delete" THEN 1 ELSE 0]
===========================================================================
