------------------------------ MODULE MCWatcher ------------------------------
(* Instances of Watcher for TLC. *)
EXTENDS Watcher

\* i1 shares its account with n1, a node of a pool; i2 is alone in its own.
AccountByName == [i \in Instances |-> IF i = "i2" THEN "b" ELSE "a"]
PoolByName == [i \in Instances |-> IF i = "n1" THEN "pool" ELSE NoPool]
=============================================================================
