------------------------------ MODULE Delivery ------------------------------
(***************************************************************************)
(* What a row that wants a message in the chat can count on, whatever      *)
(* channel it uses: nothing is said on behalf of a row nobody made, a      *)
(* receipt that says sent means that what the row says now was told, and   *)
(* neither a receipt nor what was told is taken back except because the    *)
(* row has something new to say.  The one exception is a row that got      *)
(* something new to say while its old message was on its way.              *)
(***************************************************************************)
CONSTANTS
    Items,     \* the rows
    Renewable  \* those that may get something new to say

VARIABLES
    receipt,  \* "absent" before the row is made, "none" until it is dealt with
    told,     \* the rows of which the chat has what they say now
    outdated  \* the rows of which an older message is on its way

vars == <<receipt, told, outdated>>

Final == {"sent", "failed", "skipped", "held"}

Init == receipt = [i \in Items |-> "absent"] /\ told = {} /\ outdated = {}

Makes(i) == receipt[i] = "absent" /\ receipt'[i] = "none"

\* The row has something new to say.
Renews(i) == i \in Renewable /\ receipt[i] # "absent" /\ receipt'[i] = "none"

\* A row is dealt with; one step may make it and deal with it.
Settles(i) ==
    /\ receipt'[i] \in Final
    /\ receipt'[i] = "sent" /\ receipt[i] # "sent" => i \in told' \cup outdated

\* One event of the program can concern several rows.
Next ==
    /\ receipt' \in [Items -> Final \cup {"absent", "none"}]
    /\ \A i \in Items : receipt'[i] = receipt[i] \/ Makes(i) \/ Renews(i) \/ Settles(i)
    /\ \A i \in (told \ told') \cup (outdated' \ outdated) : Renews(i)
    /\ \A i \in told' \ told : receipt[i] # "absent"

Spec == Init /\ [][Next]_vars
=============================================================================
