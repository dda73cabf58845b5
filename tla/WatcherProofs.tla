---------------------------- MODULE WatcherProofs ----------------------------
(***************************************************************************)
(* For any instances, accounts, pools and callers: the watcher's state is  *)
(* well typed, and it says "gone" only of what AWS did not have when the   *)
(* pass asked.                                                             *)
(***************************************************************************)
EXTENDS Watcher, TLAPS

LEMMA NothingTyped == Nothing \in Sample /\ In(Nothing) = {} /\ IdlePass \in PassType
BY DEF Nothing, Sample, In, IdlePass, PassType

LEMMA InTyped == ASSUME NEW s PROVE In(s) \subseteq Instances
BY DEF In

-----------------------------------------------------------------------------
(* Types *)

LEMMA InitTyped == Init => TypeOK
<1> SUFFICES ASSUME Init PROVE TypeOK
  OBVIOUS
<1>1. cloud \in Sample /\ visible \subseteq Accounts /\ events \in 0 .. MaxEvents
  BY WatcherAssumption DEF Init, WatcherAssumption
<1>2. sampled \in BOOLEAN /\ last \in Sample
  BY NothingTyped DEF Init
<1>3. pass \in [Callers -> PassType]
  BY NothingTyped DEF Init
<1>4. churn \in [Pools -> {"none", "open", "acknowledged"}]
  BY DEF Init
<1> QED BY <1>1, <1>2, <1>3, <1>4 DEF Init, TypeOK

\* What the two answers of a query look like.
LEMMA AskedTyped ==
    ASSUME TypeOK, NEW c \in Callers, Collects(c) \/ CollectFails(c)
    PROVE  TypeOK'
<1>1. CASE Collects(c)
  <2> DEFINE got == [i \in Instances |-> IF AccountOf[i] \in visible THEN cloud[i] ELSE "none"]
             new == [at |-> "got", ok |-> TRUE, there |-> In(cloud), got |-> got]
  <2>1. got \in Sample
    BY DEF TypeOK, Sample
  <2>2. new \in PassType
    BY <2>1, InTyped DEF PassType
  <2>3. pass' = [pass EXCEPT ![c] = new]
    BY <1>1 DEF Collects
  <2> HIDE DEF new
  <2>4. pass' \in [Callers -> PassType]
    BY <2>2, <2>3 DEF TypeOK
  <2> QED BY <1>1, <2>4 DEF Collects, TypeOK, aws, alerts, history
<1>2. CASE CollectFails(c)
  <2> DEFINE new == [IdlePass EXCEPT !.at = "got", !.there = In(cloud)]
  <2>1. new \in PassType
    BY NothingTyped, InTyped DEF PassType, IdlePass
  <2>2. pass' = [pass EXCEPT ![c] = new]
    BY <1>2 DEF CollectFails
  <2> HIDE DEF new
  <2>3. pass' \in [Callers -> PassType]
    BY <2>1, <2>2 DEF TypeOK
  <2> QED BY <1>2, <2>3 DEF CollectFails, TypeOK, aws, alerts, history
<1> QED BY <1>1, <1>2

LEMMA StoresTyped ==
    ASSUME TypeOK, NEW c \in Callers, Stores(c)
    PROVE  TypeOK'
<1> DEFINE got == pass[c].got
           before == Before(c)
           new == In(got) \ In(before)
           went == {i \in In(got) \cap In(before) : got[i] # before[i]}
           left == {i \in In(before) \ In(got) : CanCallGone(i, got)}
<1>1. pass[c] \in PassType
  BY DEF TypeOK
<1>2. got \in Sample
  BY <1>1 DEF PassType
<1>3. left \subseteq Instances
  BY InTyped
<1>4. pass' = [pass EXCEPT ![c] = IdlePass] /\ sampled' = TRUE /\ last' = (IF In(got) = {} THEN last ELSE got) /\ UNCHANGED aws
  BY DEF Stores
<1>5. pass' \in [Callers -> PassType] /\ last' \in Sample
  BY <1>2, <1>4, NothingTyped, InTyped DEF TypeOK
<1>6. CASE ~sampled
  <2>1. told' = {} /\ wrong' = {} /\ UNCHANGED alerts
    BY <1>6 DEF Stores
  <2> QED BY <1>4, <1>5, <2>1 DEF TypeOK, aws, alerts
<1>7. CASE sampled
  <2>1. gone' = StillGone(c) \cup (left \cap Own)
    BY <1>7 DEF Stores
  <2>2. nat' \in {nat \cup spikes : spikes \in SUBSET Gateways}
    BY <1>7 DEF Stores
  <2>3. churn' = [p \in Pools |-> IF \E i \in new \cup went \cup left : PoolOf[i] = p THEN "open" ELSE churn[p]]
    BY <1>7 DEF Stores
  <2>4. told' = left \cap Own
    BY <1>7 DEF Stores
  <2>5. wrong' = left \cap pass[c].there
    BY <1>7 DEF Stores
  <2> HIDE DEF new, went, left, got
  <2>6. gone' \subseteq {i \in Instances : PoolOf[i] = NoPool}
    BY <2>1 DEF StillGone, Own, TypeOK
  <2>7. nat' \subseteq Gateways
    BY <2>2 DEF TypeOK
  <2>8. churn' \in [Pools -> {"none", "open", "acknowledged"}]
    BY <2>3 DEF TypeOK
  <2>9. told' \subseteq Instances /\ wrong' \subseteq Instances
    BY <1>3, <2>4, <2>5
  <2> QED BY <1>4, <1>5, <2>6, <2>7, <2>8, <2>9 DEF TypeOK, aws
<1> QED BY <1>6, <1>7 DEF TypeOK

LEMMA OthersTyped ==
    ASSUME TypeOK, Acknowledge \/ NewDay \/ Restart \/ CloudChanges \/ SightChanges
    PROVE  TypeOK'
<1>0. events \in Nat /\ (Event => events' \in 0 .. MaxEvents)
  BY WatcherAssumption DEF TypeOK, Event, WatcherAssumption
<1>1. CASE Acknowledge
  BY <1>1 DEF Acknowledge, TypeOK, aws, history
<1>2. CASE NewDay
  BY <1>2 DEF NewDay, TypeOK, aws, history
<1>3. CASE Restart
  BY <1>0, <1>3, NothingTyped DEF Restart, TypeOK, alerts, history
<1>4. CASE CloudChanges
  BY <1>0, <1>4 DEF CloudChanges, TypeOK, Sample, alerts, history
<1>5. CASE SightChanges
  BY <1>0, <1>5 DEF SightChanges, TypeOK, alerts, history
<1> QED BY <1>1, <1>2, <1>3, <1>4, <1>5

LEMMA NextTyped == TypeOK /\ [Next]_vars => TypeOK'
<1> SUFFICES ASSUME TypeOK, [Next]_vars PROVE TypeOK'
  OBVIOUS
<1>1. ASSUME NEW c \in Callers, PassStep(c) PROVE TypeOK'
  BY <1>1, AskedTyped, StoresTyped DEF PassStep
<1>2. CASE UNCHANGED vars
  BY <1>2 DEF vars, aws, alerts, history, TypeOK
<1> QED BY <1>1, <1>2, OthersTyped DEF Next

\* Every variable keeps its type.
THEOREM TypeCorrect == Spec => []TypeOK
<1> QED BY InitTyped, NextTyped, PTL DEF Spec

-----------------------------------------------------------------------------
(* Gone was gone *)

\* What makes it inductive: an answer that shows an account shows all AWS had of it at that moment. Nothing of the
\* kind holds of an account that is not in the answer, which is why canCallGone is needed.
WholeAccount(p) ==
    \A i \in Instances : AccountOf[i] \in AccountsSeen(p.got) /\ p.got[i] = "none" => i \notin p.there
AnswersAreWhole == \A c \in Callers : WholeAccount(pass[c])
NoneWrong == wrong = {}

GoneInv == TypeOK /\ AnswersAreWhole /\ NoneWrong

LEMMA IdleWhole == ASSUME NEW p, p.got = Nothing PROVE WholeAccount(p)
BY DEF WholeAccount, AccountsSeen, In, Nothing

LEMMA CollectsWhole ==
    ASSUME TypeOK, NEW c \in Callers, Collects(c)
    PROVE  WholeAccount(pass'[c]) /\ \A d \in Callers \ {c} : pass'[d] = pass[d]
<1> DEFINE got == [i \in Instances |-> IF AccountOf[i] \in visible THEN cloud[i] ELSE "none"]
           new == [at |-> "got", ok |-> TRUE, there |-> In(cloud), got |-> got]
<1>1. AccountsSeen(got) \subseteq visible
  BY DEF AccountsSeen, In
<1>2. WholeAccount(new)
  BY <1>1 DEF WholeAccount, In
<1> HIDE DEF new
<1>3. pass' = [pass EXCEPT ![c] = new]
  BY DEF Collects, new
<1> QED BY <1>2, <1>3 DEF TypeOK

LEMMA StoresGone ==
    ASSUME TypeOK, NEW c \in Callers, WholeAccount(pass[c]), NoneWrong, Stores(c)
    PROVE  NoneWrong'
<1> DEFINE got == pass[c].got
           left == {i \in In(Before(c)) \ In(got) : CanCallGone(i, got)}
<1>1. left \cap pass[c].there = {}
  BY DEF WholeAccount, CanCallGone, In
<1>2. CASE ~sampled
  BY <1>2 DEF Stores, NoneWrong
<1>3. CASE sampled
  <2>1. wrong' = left \cap pass[c].there
    BY <1>3 DEF Stores
  <2> HIDE DEF left
  <2> QED BY <1>1, <2>1 DEF NoneWrong
<1> QED BY <1>2, <1>3 DEF TypeOK

LEMMA GoneInitial == Init => GoneInv
BY InitTyped, IdleWhole DEF Init, GoneInv, AnswersAreWhole, NoneWrong, IdlePass

LEMMA GoneStep == GoneInv /\ [Next]_vars => GoneInv'
<1> SUFFICES ASSUME GoneInv, [Next]_vars PROVE GoneInv'
  OBVIOUS
<1> USE DEF GoneInv
<1>0. TypeOK'
  BY NextTyped
<1>1. ASSUME UNCHANGED <<pass, wrong>> PROVE GoneInv'
  BY <1>0, <1>1 DEF AnswersAreWhole, WholeAccount, NoneWrong, AccountsSeen, In
<1>2. ASSUME NEW c \in Callers, pass' = [pass EXCEPT ![c] = IdlePass] PROVE AnswersAreWhole'
  <2>1. WholeAccount(IdlePass)
    BY IdleWhole DEF IdlePass
  <2>2. ASSUME NEW d \in Callers PROVE WholeAccount(pass'[d])
    BY <1>2, <2>1 DEF AnswersAreWhole, TypeOK
  <2> QED BY <2>2 DEF AnswersAreWhole, WholeAccount
<1>3. ASSUME NEW c \in Callers, Collects(c) PROVE GoneInv'
  <2>1. ASSUME NEW d \in Callers PROVE WholeAccount(pass'[d])
    BY <1>3, CollectsWhole DEF AnswersAreWhole
  <2> QED BY <1>0, <1>3, <2>1 DEF AnswersAreWhole, WholeAccount, NoneWrong, Collects, history
<1>4. ASSUME NEW c \in Callers, CollectFails(c) PROVE GoneInv'
  <2> DEFINE new == [IdlePass EXCEPT !.at = "got", !.there = In(cloud)]
  <2>1. WholeAccount(new)
    BY IdleWhole DEF IdlePass
  <2>2. pass' = [pass EXCEPT ![c] = new]
    BY <1>4 DEF CollectFails
  <2> HIDE DEF new
  <2>3. ASSUME NEW d \in Callers PROVE WholeAccount(pass'[d])
    BY <2>1, <2>2 DEF AnswersAreWhole, TypeOK
  <2> QED BY <1>0, <1>4, <2>3 DEF AnswersAreWhole, WholeAccount, NoneWrong, CollectFails, history
<1>5. ASSUME NEW c \in Callers, Stores(c) PROVE GoneInv'
  <2>1. WholeAccount(pass[c])
    BY DEF AnswersAreWhole
  <2>2. NoneWrong'
    BY <1>5, <2>1, StoresGone
  <2>3. pass' = [pass EXCEPT ![c] = IdlePass]
    BY <1>5 DEF Stores
  <2> QED BY <1>0, <1>2, <2>2, <2>3
<1>6. CASE Restart
  <2>1. \A d \in Callers : WholeAccount(pass'[d])
    BY <1>6, IdleWhole DEF Restart, IdlePass
  <2> QED BY <1>0, <1>6, <2>1 DEF AnswersAreWhole, WholeAccount, NoneWrong, Restart, history
<1>7. CASE Acknowledge \/ NewDay \/ CloudChanges \/ SightChanges \/ UNCHANGED vars
  BY <1>1, <1>7 DEF Acknowledge, NewDay, CloudChanges, SightChanges, vars, history
<1> QED BY <1>3, <1>4, <1>5, <1>6, <1>7 DEF Next, PassStep

\* The newest sample and the open alerts agree because one transaction writes both; the first sample writes no alert
\* and finds none.
SeenInv == gone \cap In(last) = {} /\ (~sampled => gone = {})

LEMMA SeenStep == TypeOK /\ SeenInv /\ [Next]_vars => SeenInv'
<1> SUFFICES ASSUME TypeOK, SeenInv, [Next]_vars PROVE SeenInv'
  OBVIOUS
<1> USE DEF SeenInv
<1>1. ASSUME NEW c \in Callers, Stores(c) PROVE SeenInv'
  <2> DEFINE got == pass[c].got
             left == {i \in In(Before(c)) \ In(got) : CanCallGone(i, got)}
  <2>1. left \cap In(got) = {} /\ (In(got) = {} => left = {})
    BY DEF CanCallGone, AccountsSeen
  <2>2. sampled' = TRUE /\ last' = IF In(got) = {} THEN last ELSE got
    BY <1>1 DEF Stores
  <2>3. IF ~sampled THEN gone' = gone ELSE gone' = (gone \ In(got)) \cup (left \cap Own)
    BY <1>1 DEF Stores, StillGone, alerts
  <2> HIDE DEF left, got
  <2>4. CASE ~sampled
    BY <2>2, <2>3, <2>4
  <2>5. CASE sampled /\ In(got) = {}
    BY <2>1, <2>2, <2>3, <2>5
  <2>6. CASE sampled /\ In(got) # {}
    <3>1. last' = got /\ sampled' = TRUE
      BY <2>2, <2>6
    <3>2. gone' \cap In(got) = {}
      BY <2>1, <2>3, <2>6
    <3> QED BY <3>1, <3>2 DEF In
  <2> QED BY <2>4, <2>5, <2>6 DEF TypeOK
<1>2. ASSUME UNCHANGED <<sampled, last>>, gone' \subseteq gone PROVE SeenInv'
  BY <1>2 DEF In
<1>3. ASSUME NEW c \in Callers, Collects(c) \/ CollectFails(c) PROVE SeenInv'
  BY <1>2, <1>3 DEF Collects, CollectFails, alerts
<1>4. CASE Acknowledge \/ NewDay \/ Restart \/ CloudChanges \/ SightChanges \/ UNCHANGED vars
  BY <1>2, <1>4 DEF Acknowledge, NewDay, Restart, CloudChanges, SightChanges, alerts, vars
<1> QED BY <1>1, <1>3, <1>4 DEF Next, PassStep

\* An instance is called gone only if AWS did not have it when the pass asked, whatever the credentials see and
\* however many queries fail, and none is open as gone that the newest sample has.
THEOREM GoneWasGoneHolds == Spec => []GoneWasGone
<1>1. Init => GoneInv /\ SeenInv
  BY GoneInitial DEF Init, SeenInv
<1>2. GoneInv /\ SeenInv /\ [Next]_vars => (GoneInv /\ SeenInv)'
  BY GoneStep, SeenStep DEF GoneInv
<1>3. GoneInv /\ SeenInv => GoneWasGone
  BY DEF GoneInv, NoneWrong, SeenInv, GoneWasGone
<1> QED BY <1>1, <1>2, <1>3, PTL DEF Spec
=============================================================================
