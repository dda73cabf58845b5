------------------------------- MODULE Ledger -------------------------------
(***************************************************************************)
(* What a reader of the executor's list of actions can count on, whoever   *)
(* writes it: a change is open at most once, what was tried is never open  *)
(* again, a row that says done tells of a change that was made, and a row  *)
(* that was removed does not come back, nor does its id.                   *)
(***************************************************************************)
EXTENDS Naturals

CONSTANTS
    Ids,      \* the ids a row can have
    Changes   \* what a row can be about

VARIABLES
    entry,  \* what the list says of each id
    of,     \* the change a row is about
    made,   \* the rows whose change was really made
    next    \* the id of the next row

vars == <<entry, of, made, next>>

Entries == {"none", "proposed", "stale", "tried", "done"}

Init ==
    /\ entry = [i \in Ids |-> "none"]
    /\ of \in [Ids -> Changes]
    /\ made = [i \in Ids |-> FALSE]
    /\ next = 1

\* A row can be open if it is new, or was open or set aside.
MayOpen(i) == entry[i] \in {"proposed", "stale"} \/ (i = next /\ next' = next + 1)

MayBecome(i, e) ==
    /\ e = "proposed" => MayOpen(i)
    /\ e = "stale" => entry[i] \in {"proposed", "stale"}
    /\ e = "tried" => entry[i] # "none"
    /\ e = "done" => entry[i] # "none" /\ made'[i]

\* One event can concern several rows: a pass sets aside all it no longer proposes.
Next ==
    /\ entry' \in [Ids -> Entries] /\ of' \in [Ids -> Changes] /\ made' \in [Ids -> BOOLEAN]
    /\ next' \in {next, next + 1}
    /\ \A i \in Ids :
          /\ MayBecome(i, entry'[i])
          /\ of'[i] # of[i] => i = next
          /\ made[i] => made'[i]
          /\ made'[i] /\ ~made[i] => i < next
    /\ \A i, j \in Ids :
          entry'[i] = "proposed" /\ entry'[j] = "proposed" /\ of'[i] = of'[j] => i = j

Spec == Init /\ [][Next]_vars
=============================================================================
