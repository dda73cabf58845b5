------------------------------- MODULE Watcher -------------------------------
(***************************************************************************)
(* The watcher (watcher.ts): a pass asks AWS for every instance and every  *)
(* NAT gateway, awaits the answers, and in one transaction stores the      *)
(* sample, compares it with the last sample that had instances and raises  *)
(* alerts: new, changed, gone.  AWS answers per account; an account the    *)
(* credentials cannot see is simply missing from the answer.  The cron and *)
(* the page each run at most one pass, and look at different flags, so two *)
(* can overlap.                                                            *)
(*                                                                         *)
(* Of the alerts only the open ones that a later pass looks at are kept:   *)
(* an instance said to be gone, a gateway with too much traffic, a pool's  *)
(* row of the day.  Whether an alert is posted is in Notifications.        *)
(***************************************************************************)
EXTENDS Naturals, FiniteSets

CONSTANTS
    Instances, Accounts, AccountOf,
    PoolOf,    \* the autoscaled pool of an instance, or NoPool
    NoPool,
    Gateways,  \* NAT gateways
    States,    \* of an instance that AWS shows
    Callers,   \* "cron", and "page" when a person also starts passes
    MaxEvents  \* bound: changes in AWS and of what is in sight, restarts

Pools == {PoolOf[i] : i \in Instances} \ {NoPool}

ASSUME WatcherAssumption ==
    /\ AccountOf \in [Instances -> Accounts]
    /\ DOMAIN PoolOf = Instances
    /\ "none" \notin States
    /\ MaxEvents \in Nat

VARIABLES
    cloud,    \* AWS: the state of each instance, "none" when there is no such instance
    visible,  \* the accounts the credentials see
    events,   \* counted against MaxEvents
    sampled,  \* watch_samples has a sample
    last,     \* the newest sample that has instance states
    pass,     \* the process: what each caller's pass brought
    gone,     \* instances with an open "is gone" alert
    nat,      \* gateways with an open nat_traffic alert
    churn,    \* per pool: its node_churn row of today
    told,     \* history: instances the newest comparison called gone
    wrong     \* history: instances the newest comparison called gone that AWS had when the pass asked

aws == <<cloud, visible, events>>
alerts == <<gone, nat, churn>>
history == <<told, wrong>>
vars == <<aws, sampled, last, pass, alerts, history>>

Sample == [Instances -> States \cup {"none"}]
Nothing == [i \in Instances |-> "none"]
\* `got` what the query returned, `ok` whether it did; `there` is history: the instances AWS had at that
\* moment.
PassType == [at : {"idle", "got"}, ok : BOOLEAN, got : Sample, there : SUBSET Instances]
IdlePass == [at |-> "idle", ok |-> FALSE, got |-> Nothing, there |-> {}]

TypeOK ==
    /\ cloud \in Sample /\ visible \subseteq Accounts /\ events \in 0 .. MaxEvents
    /\ sampled \in BOOLEAN /\ last \in Sample
    /\ pass \in [Callers -> PassType]
    /\ gone \subseteq {i \in Instances : PoolOf[i] = NoPool} /\ nat \subseteq Gateways
    /\ churn \in [Pools -> {"none", "open", "acknowledged"}]
    /\ told \subseteq Instances /\ wrong \subseteq Instances

Init ==
    /\ cloud \in Sample /\ visible \in SUBSET Accounts /\ events = 0
    /\ sampled = FALSE /\ last = Nothing
    /\ pass = [c \in Callers |-> IdlePass]
    /\ gone = {} /\ nat = {} /\ churn = [p \in Pools |-> "none"]
    /\ told = {} /\ wrong = {}

In(s) == {i \in Instances : s[i] # "none"}

-----------------------------------------------------------------------------
(* A pass *)

\* collect: one answer for every account the credentials see.
Collects(c) ==
    /\ pass[c].at = "idle"
    /\ pass' = [pass EXCEPT ![c] =
           [at |-> "got", ok |-> TRUE, there |-> In(cloud),
            got |-> [i \in Instances |-> IF AccountOf[i] \in visible THEN cloud[i] ELSE "none"]]]
    /\ UNCHANGED <<aws, sampled, last, alerts, history>>

\* The instance query fails; the rest of the pass goes on.
CollectFails(c) ==
    /\ pass[c].at = "idle"
    /\ pass' = [pass EXCEPT ![c] = [IdlePass EXCEPT !.at = "got", !.there = In(cloud)]]
    /\ UNCHANGED <<aws, sampled, last, alerts, history>>

AccountsSeen(s) == {AccountOf[i] : i \in In(s)}

\* Mutant: any instance that is missing is gone.
CanCallGone_any(i, s) == In(s) # {}

\* Mutant: nothing is ever gone.
CanCallGone_never(i, s) == FALSE

\* canCallGone: its account answered with at least one instance.
CanCallGone(i, s) == AccountOf[i] \in AccountsSeen(s)

\* What the pass compares with: nothing after a failed query.
Before(c) == IF pass[c].ok THEN last ELSE Nothing

\* Mutant: the instances of this sample are not looked for among the gone ones.
StillGone_forever(c) == gone

\* An instance seen again closes the alert it got.
StillGone(c) == gone \ In(pass[c].got)

\* Mutant: the nodes of a pool are treated like any instance.
Own_all == Instances

\* poolOf: an instance that no pool launched.
Own == {i \in Instances : PoolOf[i] = NoPool}

\* watchOnce after its awaits: store, compare, raise. The first sample of all is compared with nothing; what
\* happens to the nodes of a pool goes into the pool's row of the day, opened again.
Stores(c) ==
    LET got == pass[c].got
        before == Before(c)
        new == In(got) \ In(before)
        went == {i \in In(got) \cap In(before) : got[i] # before[i]}
        left == {i \in In(before) \ In(got) : CanCallGone(i, got)}
    IN  /\ pass[c].at = "got"
        /\ pass' = [pass EXCEPT ![c] = IdlePass]
        /\ sampled' = TRUE
        /\ last' = IF In(got) = {} THEN last ELSE got
        /\ IF ~sampled
           THEN told' = {} /\ wrong' = {} /\ UNCHANGED alerts
           ELSE /\ gone' = StillGone(c) \cup (left \cap Own)
                /\ nat' \in {nat \cup spikes : spikes \in SUBSET Gateways}
                /\ churn' = [p \in Pools |-> IF \E i \in new \cup went \cup left : PoolOf[i] = p THEN "open" ELSE churn[p]]
                /\ told' = left \cap Own
                /\ wrong' = left \cap pass[c].there
        /\ UNCHANGED aws

-----------------------------------------------------------------------------
(* People, the clock, the process and AWS *)

Acknowledge ==
    /\ \/ \E i \in gone : gone' = gone \ {i} /\ UNCHANGED <<nat, churn>>
       \/ \E g \in nat : nat' = nat \ {g} /\ UNCHANGED <<gone, churn>>
       \/ \E p \in Pools : churn[p] = "open" /\ churn' = [churn EXCEPT ![p] = "acknowledged"] /\ UNCHANGED <<gone, nat>>
    /\ UNCHANGED <<aws, sampled, last, pass, history>>

\* At midnight the pools start a new row.
NewDay ==
    /\ churn' = [p \in Pools |-> "none"]
    /\ UNCHANGED <<aws, sampled, last, pass, gone, nat, history>>

Event == events < MaxEvents /\ events' = events + 1

Restart ==
    /\ Event
    /\ pass' = [c \in Callers |-> IdlePass]
    /\ UNCHANGED <<cloud, visible, sampled, last, alerts, history>>

CloudChanges ==
    /\ Event
    /\ \E i \in Instances, s \in States \cup {"none"} : s # cloud[i] /\ cloud' = [cloud EXCEPT ![i] = s]
    /\ UNCHANGED <<visible, sampled, last, pass, alerts, history>>

\* Another parent account, a member registered or not, a role that resolves or not.
SightChanges ==
    /\ Event
    /\ visible' \in (SUBSET Accounts) \ {visible}
    /\ UNCHANGED <<cloud, sampled, last, pass, alerts, history>>

PassStep(c) == Collects(c) \/ CollectFails(c) \/ Stores(c)
Next ==
    \/ \E c \in Callers : PassStep(c)
    \/ Acknowledge \/ NewDay \/ Restart \/ CloudChanges \/ SightChanges

\* The watcher's cron fires for as long as the process lives, and its query works time and again.
Fairness == SF_vars(Collects("cron")) /\ WF_vars(Stores("cron"))
Spec == Init /\ [][Next]_vars
FairSpec == Spec /\ Fairness

-----------------------------------------------------------------------------
(* Properties *)

\* An instance is called gone only if AWS did not have it when the pass asked: neither a query that failed nor an
\* account out of sight makes an instance gone, whatever the passes in between saw. And none is open as gone that the
\* newest sample has, in whichever order overlapping passes store theirs. (watchOnce, canCallGone)
GoneWasGone == wrong = {} /\ gone \cap In(last) = {}

\* Once AWS stays as it is, no instance that is there and in sight stays open as gone. (watchOnce, "watcher (seen
\* again)")
SeenAgainCloses == <>[](\A i \in gone : cloud[i] = "none" \/ AccountOf[i] \notin visible)

\* While everything is in sight and no account runs empty, an instance of its own that left is told, however the
\* cron's pass and the page's overlap. (watchOnce)
DepartureIsTold ==
    [](visible = Accounts /\ Accounts = AccountsSeen(cloud)) =>
        \A i \in Instances :
            (last[i] # "none" /\ cloud[i] = "none" /\ PoolOf[i] = NoPool) ~> (cloud[i] # "none" \/ i \in told)
=============================================================================
