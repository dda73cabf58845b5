----------------------------- MODULE MCAgentRuns -----------------------------
(* AgentRuns on a small instance: the flow of each topic. *)
EXTENDS AgentRuns, TLC

CONSTANTS Alerts, Recommendation, Thread, Day

MCTopics == Alerts \cup {Recommendation, Thread, Day}

MCKindOf == [t \in MCTopics |->
    IF t \in Alerts THEN "incident"
    ELSE IF t = Recommendation THEN "resolution"
    ELSE IF t = Thread THEN "thread_chat" ELSE "observe"]

\* The topics a behaviour has touched.
Used == {row[i].topic : i \in {j \in Ids : row[j].status # "none"}}
        \cup {dispatch[d].topic : d \in {e \in Dispatches : dispatch[e].at # "idle"}} \cup closed

\* Bound: the flows do not mix in one behaviour: each has a table of its own, and an
\* answer looks for its row in the table of its flow only.  A plan gets two requests.
FlowsApart ==
    \/ Used \subseteq Alerts
    \/ Used = {Thread}
    \/ Used = {Day}
    \/ Used = {Recommendation} /\ run[MaxReq].status = "none"

\* Dispatch handlers are interchangeable.
AnyDispatch == Permutations(Dispatches)
=============================================================================
