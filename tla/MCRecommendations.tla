------------------------- MODULE MCRecommendations -------------------------
(* Instances of Recommendations for TLC. *)
EXTENDS Recommendations

\* Keys are named for their rule: the collection run's, the security scan's, the daily review's, an action module's.
FilerByName ==
    [k \in Keys |-> CASE k = "stopped_i1" -> "run" [] k = "sec_i1" -> "scan" [] k = "review_i1" -> "review" [] OTHER -> "module"]
SourceByName == [k \in Keys |-> IF k = "sec_i1" THEN "cis" ELSE "q1"]
=============================================================================
