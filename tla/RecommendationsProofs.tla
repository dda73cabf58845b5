----------------------- MODULE RecommendationsProofs -----------------------
(***************************************************************************)
(* For any keys, filers, sources and crons: the table is well typed, a job *)
(* never runs beside itself, and a decision stands until the next one, but *)
(* for a step run that read the row before it and writes it pending.       *)
(***************************************************************************)
EXTENDS Recommendations, TLAPS

\* Why DecisionStands is kept: a step run that is out with a status read before the decision has the decision in
\* `meanwhile`, and what was decided has its record.
Covered ==
    \A k \in Keys :
        /\ step[k].at = "out" /\ step[k].early /\ said[k] \notin {"none", "pending"} => k \in meanwhile
        /\ status[k] \in Kept => said[k] # "none"
Stands == DecisionStands /\ Covered

\* They are proved together: that a row of `runs` counts to one rests on the flag.
RecInv == TypeOK /\ RunningIsBusy /\ Stands

TableTyped ==
    /\ status \in [Keys -> Statuses \cup {"none"}]
    /\ said \in [Keys -> Kept \cup {"none"}]
    /\ meanwhile \subseteq Keys
JobsTyped == job \in [Jobs -> JobType] /\ running \in [Jobs -> 0 .. 1]

\* What was decided is neither open nor snoozed nor resolved.
LEMMA DecidedStatus ==
    ASSUME TypeOK, Stands, NEW k \in Keys, said[k] # "none"
    PROVE  status[k] \in Kept
BY DEF TypeOK, Stands, DecisionStands, Kept

\* A batch and a sweep write no status of their own making, and none over a decision.
LEMMA UpsertKeeps ==
    ASSUME TypeOK, Stands, NEW batch, NEW sweep, Upsert(batch, sweep), UNCHANGED <<history, step>>,
           \A k \in sweep : status[k] = "open"
    PROVE  TableTyped' /\ Stands'
<1>1. TableTyped'
  BY DEF Upsert, Filed, TypeOK, Statuses, TableTyped, history
<1>2. ASSUME NEW k \in Keys, status[k] \in Kept PROVE status'[k] = status[k]
  <2>1. k \notin sweep /\ status[k] \notin {"none", "resolved"}
    BY <1>2 DEF Kept
  <2> QED BY <2>1 DEF Upsert, Filed
<1>3. ASSUME NEW k \in Keys, status'[k] \in Kept PROVE status[k] \in Kept
  BY <1>3 DEF Upsert, Filed, Kept
<1>4. DecisionStands'
  BY <1>2, DecidedStatus DEF Stands, DecisionStands, history
<1>5. Covered'
  BY <1>3 DEF Stands, Covered, history
<1> QED BY <1>1, <1>4, <1>5 DEF Stands

\* A status written together with its record.
LEMMA SaidKeeps ==
    ASSUME TypeOK, Stands, NEW k \in Keys, NEW s \in Statuses,
           status' = [status EXCEPT ![k] = s], Says(k, s), UNCHANGED step,
           meanwhile' \subseteq Keys, \A x \in Keys \ {k} : x \in meanwhile => x \in meanwhile',
           step[k].at = "out" /\ step[k].early /\ s \in Kept => k \in meanwhile'
    PROVE  TableTyped' /\ Stands'
<1>1. TableTyped'
  BY DEF TypeOK, Says, TableTyped
<1>2. /\ status'[k] = s /\ said'[k] = IF s \in Kept THEN s ELSE "none"
      /\ \A x \in Keys \ {k} : status'[x] = status[x] /\ said'[x] = said[x]
  BY DEF TypeOK, Says
<1>3. DecisionStands'
  BY <1>2 DEF Stands, DecisionStands
<1>4. Covered'
  BY <1>2 DEF Stands, Covered, Kept
<1> QED BY <1>1, <1>3, <1>4 DEF Stands

\* The early tick writes pending: over no decision, or over one made meanwhile.
LEMMA TickKeeps ==
    ASSUME TypeOK, Stands, NEW k \in Keys, NEW early \in BOOLEAN, NEW ticked \in BOOLEAN,
           AfterProgress(k, early, ticked), UNCHANGED meanwhile,
           \A x \in Keys : step'[x].at = "out" => step'[x] = step[x],
           early => said[k] \in {"none", "pending"} \/ k \in meanwhile
    PROVE  TableTyped' /\ Stands'
<1>1. CASE early /\ ticked
  <2>1. TableTyped'
    BY <1>1 DEF AfterProgress, TypeOK, TableTyped, Statuses, Kept
  <2>2. /\ status'[k] = "pending" /\ said'[k] = IF said[k] = "none" THEN "pending" ELSE said[k]
        /\ \A x \in Keys \ {k} : status'[x] = status[x] /\ said'[x] = said[x]
    BY <1>1 DEF AfterProgress, TypeOK
  <2>3. DecisionStands'
    BY <1>1, <2>2 DEF Stands, DecisionStands
  <2>4. Covered'
    BY <1>1, <2>2 DEF Stands, Covered
  <2> QED BY <2>1, <2>3, <2>4 DEF Stands
<1>2. CASE ~(early /\ ticked)
  <2>1. UNCHANGED <<status, said>>
    BY <1>2 DEF AfterProgress
  <2> QED BY <2>1 DEF TypeOK, Stands, DecisionStands, Covered, TableTyped
<1> QED BY <1>1, <1>2

\* One row of a job at a time, whatever the job does next.
LEMMA BeginTyped ==
    ASSUME TypeOK, RunningIsBusy, NEW j \in Jobs, ~Busy(j), Begin(j)
    PROVE  JobsTyped' /\ RunningIsBusy'
<1>1. running[j] = 0
  BY DEF RunningIsBusy, Busy
<1>2. SourcesOf(j) \subseteq Sources
  BY RecommendationsAssumption DEF SourcesOf, KeysOf, RecommendationsAssumption
<1>3. [IdleJob EXCEPT !.at = "asking", !.left = SourcesOf(j)] \in JobType
  BY <1>2 DEF IdleJob, JobType
<1>4. JobsTyped'
  BY <1>1, <1>3 DEF Begin, TypeOK, JobsTyped
<1>5. running' = [running EXCEPT ![j] = 1]
  BY <1>1 DEF Begin, TypeOK
<1>6. job'[j].at = "asking" /\ \A i \in Jobs \ {j} : job'[i] = job[i]
  BY DEF Begin, TypeOK, IdleJob
<1>7. ASSUME NEW i \in Jobs PROVE running'[i] = IF job'[i].at \in {"asking", "filed"} THEN 1 ELSE 0
  BY <1>5, <1>6 DEF RunningIsBusy, TypeOK
<1> QED BY <1>4, <1>7 DEF RunningIsBusy

\* The row of a job that is out is closed, and the job has ended or still hands over.
LEMMA ClosesTyped ==
    ASSUME TypeOK, RunningIsBusy, NEW j \in Jobs, job[j].at \in {"asking", "filed"}, NEW at \in {"idle", "handing"},
           job' = [job EXCEPT ![j] = [IdleJob EXCEPT !.at = at]], running' = [running EXCEPT ![j] = @ - 1]
    PROVE  JobsTyped' /\ RunningIsBusy'
<1>0. running[j] = 1
  BY DEF RunningIsBusy
<1>1. running' = [running EXCEPT ![j] = 0]
  BY <1>0
<1>2. [IdleJob EXCEPT !.at = at] \in JobType
  BY DEF IdleJob, JobType
<1>3. JobsTyped'
  BY <1>1, <1>2 DEF TypeOK, JobsTyped
<1>4. job'[j].at = at /\ \A i \in Jobs \ {j} : job'[i] = job[i]
  BY DEF TypeOK, IdleJob
<1>5. ASSUME NEW i \in Jobs PROVE running'[i] = IF job'[i].at \in {"asking", "filed"} THEN 1 ELSE 0
  BY <1>1, <1>4 DEF RunningIsBusy, TypeOK
<1> QED BY <1>3, <1>5 DEF RunningIsBusy

\* A job goes on to another place with the same row.
LEMMA GoesTyped ==
    ASSUME TypeOK, RunningIsBusy, NEW j \in Jobs, NEW m \in JobType, UNCHANGED running, job' = [job EXCEPT ![j] = m],
           m.at \in {"asking", "filed"} <=> job[j].at \in {"asking", "filed"}
    PROVE  JobsTyped' /\ RunningIsBusy'
<1>1. JobsTyped'
  BY DEF TypeOK, JobsTyped
<1>2. \A i \in Jobs : job'[i].at \in {"asking", "filed"} <=> job[i].at \in {"asking", "filed"}
  BY DEF TypeOK
<1> QED BY <1>1, <1>2 DEF RunningIsBusy

LEMMA SameJobs ==
    ASSUME TypeOK, RunningIsBusy, UNCHANGED <<running, job>>
    PROVE  JobsTyped' /\ RunningIsBusy'
BY DEF TypeOK, RunningIsBusy, JobsTyped

LEMMA SameTable ==
    ASSUME TypeOK, Stands, UNCHANGED <<status, history>>, \A k \in Keys : step'[k].at = "out" => step'[k] = step[k]
    PROVE  TableTyped' /\ Stands'
BY DEF TypeOK, Stands, DecisionStands, Covered, TableTyped, history

\* An event counts, or none happened.
LEMMA EventTyped == ASSUME TypeOK, Event \/ events' = events PROVE events' \in 0 .. MaxEvents
BY RecommendationsAssumption DEF TypeOK, Event, RecommendationsAssumption

\* What a whole step has to show.
LEMMA Together ==
    ASSUME TableTyped', Stands', JobsTyped', RunningIsBusy', events' \in 0 .. MaxEvents,
           present' \in [Keys -> BOOLEAN], gating' \subseteq Jobs, step' \in [Keys -> StepType]
    PROVE  RecInv'
BY DEF RecInv, TypeOK, TableTyped, JobsTyped

LEMMA JobSteps ==
    ASSUME RecInv, NEW j \in Jobs,
           \/ ClickStart(j) \/ CronLooks(j) \/ GateRefuses(j) \/ Throws(j)
           \/ CronStarts(j) \/ Files(j) \/ Completes(j) \/ Ends(j)
           \/ \E s \in Sources : Answers(j, s) \/ Fails(j, s)
    PROVE  RecInv'
<1> USE DEF RecInv
<1>0. /\ present \in [Keys -> BOOLEAN] /\ gating \subseteq Jobs /\ step \in [Keys -> StepType]
      /\ events \in 0 .. MaxEvents
  BY DEF TypeOK
<1>1. CASE ClickStart(j)
  BY <1>0, <1>1, BeginTyped, SameTable, Together DEF ClickStart
<1>2. CASE CronLooks(j)
  <2>1. gating' \subseteq Jobs
    BY <1>0, <1>2 DEF CronLooks
  <2> QED BY <1>0, <1>2, <2>1, SameJobs, SameTable, Together DEF CronLooks
<1>3. CASE GateRefuses(j)
  <2>1. gating' \subseteq Jobs /\ events' \in 0 .. MaxEvents
    BY <1>0, <1>3, EventTyped DEF GateRefuses
  <2> QED BY <1>0, <1>3, <2>1, SameJobs, SameTable, Together DEF GateRefuses
<1>4. CASE Throws(j)
  <2>1. IdleJob = [IdleJob EXCEPT !.at = "idle"] /\ events' \in 0 .. MaxEvents
    BY <1>4, EventTyped DEF Throws, IdleJob
  <2>2. JobsTyped' /\ RunningIsBusy'
    BY <1>4, <2>1, ClosesTyped DEF Throws
  <2> QED BY <1>0, <1>4, <2>1, <2>2, SameTable, Together DEF Throws
<1>5. CASE CronStarts(j)
  <2>1. gating' \subseteq Jobs
    BY <1>0, <1>5 DEF CronStarts
  <2>2. JobsTyped' /\ RunningIsBusy'
    BY <1>5, SameJobs, BeginTyped DEF CronStarts
  <2> QED BY <1>0, <1>5, <2>1, <2>2, SameTable, Together DEF CronStarts
<1>6. CASE Files(j)
  <2>1. \A k \in Sweep(j) : status[k] = "open"
    BY DEF Sweep, Swept
  <2>2. TableTyped' /\ Stands'
    BY <1>6, <2>1, UpsertKeeps DEF Files
  <2>3. job[j] \in JobType /\ job[j].at = "asking"
    BY <1>6 DEF Files, TypeOK
  <2> DEFINE m == [job[j] EXCEPT !.at = "filed", !.got = {}]
  <2>4. job' = [job EXCEPT ![j] = m]
    BY <1>6 DEF Files, TypeOK
  <2>5. m \in JobType /\ m.at = "filed"
    BY <2>3 DEF JobType
  <2> HIDE DEF m
  <2>6. JobsTyped' /\ RunningIsBusy'
    <3>1. m.at \in {"asking", "filed"} <=> job[j].at \in {"asking", "filed"}
      BY <2>3, <2>5
    <3> QED BY <1>6, <2>4, <2>5, <3>1, GoesTyped DEF Files
  <2> QED BY <1>0, <1>6, <2>2, <2>6, Together DEF Files
<1>7. CASE Completes(j)
  <2>1. JobsTyped' /\ RunningIsBusy'
    BY <1>7, ClosesTyped DEF Completes
  <2> QED BY <1>0, <1>7, <2>1, SameTable, Together DEF Completes
<1>9. CASE Ends(j)
  <2>1. IdleJob \in JobType /\ IdleJob.at = "idle"
    BY DEF IdleJob, JobType
  <2>2. JobsTyped' /\ RunningIsBusy'
    <3>1. IdleJob.at \in {"asking", "filed"} <=> job[j].at \in {"asking", "filed"}
      BY <1>9, <2>1 DEF Ends
    <3> QED BY <1>9, <2>1, <3>1, GoesTyped DEF Ends
  <2> QED BY <1>0, <1>9, <2>2, SameTable, Together DEF Ends
<1>8. ASSUME NEW s \in Sources, Answers(j, s) \/ Fails(j, s) PROVE RecInv'
  <2>1. PICK got \in SUBSET Keys, bad \in SUBSET Keys, broken \in BOOLEAN : Asked(j, s, got, bad, broken)
    <3>1. Of(j, s) \subseteq Keys
      BY DEF Of, KeysOf
    <3>2. CASE Fails(j, s)
      BY <3>1, <3>2 DEF Fails
    <3>3. CASE Answers(j, s)
      <4>1. PICK failed \in SUBSET Of(j, s) : Asked(j, s, {k \in Of(j, s) : present[k]} \ failed, failed, FALSE)
        BY <3>3 DEF Answers
      <4> QED BY <3>1, <4>1
    <3> QED BY <1>8, <3>2, <3>3
  <2>2. job[j] \in JobType /\ job[j].at = "asking"
    BY <2>1 DEF Asked, TypeOK
  <2> DEFINE m == [job[j] EXCEPT !.left = @ \ {s}, !.got = @ \cup got, !.bad = @ \cup bad, !.broken = @ \/ broken]
  <2>3. job' = [job EXCEPT ![j] = m]
    BY <2>1, <2>2 DEF Asked, TypeOK
  <2>4. m \in JobType /\ m.at = "asking"
    BY <2>2 DEF JobType
  <2> HIDE DEF m
  <2>5. JobsTyped' /\ RunningIsBusy'
    <3>1. running' = running
      BY <2>1 DEF Asked
    <3> QED BY <3>1, <2>2, <2>3, <2>4, GoesTyped
  <2> QED BY <1>0, <2>1, <2>5, SameTable, Together DEF Asked
<1> QED BY <1>1, <1>2, <1>3, <1>4, <1>5, <1>6, <1>7, <1>8, <1>9

LEMMA Batches ==
    ASSUME RecInv,
           \/ \E f \in {"review", "groups"} : OwnPass(f)
           \/ \E f \in {"module", "agent"}, batch \in SUBSET Keys : PartialBatch(f, batch)
    PROVE  RecInv'
<1> USE DEF RecInv
<1>0. /\ present \in [Keys -> BOOLEAN] /\ gating \subseteq Jobs /\ step \in [Keys -> StepType]
      /\ events \in 0 .. MaxEvents
  BY DEF TypeOK
<1>1. ASSUME NEW f \in {"review", "groups"}, OwnPass(f) PROVE RecInv'
  <2> DEFINE sweep == IF f = "groups" THEN {k \in KeysOf(f) : status[k] = "open"} ELSE {}
  <2>1. \A k \in sweep : status[k] = "open"
    OBVIOUS
  <2>2. TableTyped' /\ Stands'
    BY <1>1, <2>1, UpsertKeeps DEF OwnPass, process
  <2> QED BY <1>0, <1>1, <2>2, SameJobs, Together DEF OwnPass, process
<1>2. ASSUME NEW f \in {"module", "agent"}, NEW batch \in SUBSET Keys, PartialBatch(f, batch) PROVE RecInv'
  <2>1. TableTyped' /\ Stands'
    BY <1>2, UpsertKeeps DEF PartialBatch, process
  <2> QED BY <1>0, <1>2, <2>1, SameJobs, Together DEF PartialBatch, process
<1> QED BY <1>1, <1>2

LEMMA PeopleSteps ==
    ASSUME RecInv, NEW k \in Keys,
           \/ \E s \in Decisions : Decide(k, s)
           \/ \E ticked \in BOOLEAN : Tick(k, ticked) \/ StepReturns(k, ticked)
           \/ StepStarts(k) \/ ExecutorCloses(k) \/ Cloud(k)
    PROVE  RecInv'
<1> USE DEF RecInv
<1>0. /\ present \in [Keys -> BOOLEAN] /\ gating \subseteq Jobs /\ step \in [Keys -> StepType]
      /\ events \in 0 .. MaxEvents
  BY DEF TypeOK
<1>1. ASSUME NEW s \in Decisions, Decide(k, s) PROVE RecInv'
  <2>1. s \in Statuses
    BY RecommendationsAssumption DEF RecommendationsAssumption
  <2>2. TableTyped' /\ Stands'
    BY <1>0, <1>1, <2>1, SaidKeeps DEF Decide, process, TypeOK, StepType
  <2> QED BY <1>0, <1>1, <2>2, SameJobs, Together DEF Decide, process
<1>2. ASSUME NEW ticked \in BOOLEAN, Tick(k, ticked) PROVE RecInv'
  <2>1. TableTyped' /\ Stands'
    <3>1. Early(k) \in BOOLEAN /\ AfterProgress(k, Early(k), ticked)
      BY <1>2 DEF Tick, Early
    <3>2. Early(k) => said[k] = "none"
      BY DecidedStatus DEF Early, Kept
    <3> QED BY <1>2, <3>1, <3>2, TickKeeps DEF Tick, process
  <2> QED BY <1>0, <1>2, <2>1, SameJobs, Together DEF Tick, process
<1>3. ASSUME NEW ticked \in BOOLEAN, StepReturns(k, ticked) PROVE RecInv'
  <2>1. step[k].early \in BOOLEAN
    BY <1>0 DEF StepType
  <2>2. TableTyped' /\ Stands'
    <3>1. step[k].early => said[k] \in {"none", "pending"} \/ k \in meanwhile
      BY <1>3 DEF StepReturns, Stands, Covered
    <3>2. \A x \in Keys : step'[x].at = "out" => step'[x] = step[x]
      BY <1>0, <1>3 DEF StepReturns, IdleStep
    <3> QED BY <1>3, <2>1, <3>1, <3>2, TickKeeps DEF StepReturns
  <2>3. step' \in [Keys -> StepType]
    BY <1>0, <1>3 DEF StepReturns, StepType, IdleStep
  <2> QED BY <1>0, <1>3, <2>2, <2>3, SameJobs, Together DEF StepReturns
<1>4. CASE StepStarts(k)
  <2>1. step' \in [Keys -> StepType]
    BY <1>0, <1>4 DEF StepStarts, StepType, Early
  <2>2. TableTyped' /\ Stands'
    <3>1. Early(k) => said[k] = "none"
      BY DecidedStatus DEF Early, Kept
    <3>2. /\ step'[k] = [at |-> "out", early |-> Early(k)]
          /\ \A x \in Keys \ {k} : step'[x] = step[x]
      BY <1>0, <1>4 DEF StepStarts
    <3>3. Covered'
      BY <1>4, <3>1, <3>2 DEF StepStarts, Stands, Covered, history
    <3>4. DecisionStands'
      BY <1>4 DEF StepStarts, Stands, DecisionStands, history
    <3>5. TableTyped'
      BY <1>4 DEF StepStarts, TypeOK, TableTyped, history
    <3> QED BY <3>3, <3>4, <3>5 DEF Stands
  <2> QED BY <1>0, <1>4, <2>1, <2>2, SameJobs, Together DEF StepStarts
<1>5. CASE ExecutorCloses(k)
  <2>1. TableTyped' /\ Stands'
    <3>1. said[k] = "approved"
      BY <1>5 DEF ExecutorCloses, Stands, DecisionStands, Covered, Kept
    <3>2. step[k].at = "out" /\ step[k].early => k \in meanwhile
      BY <3>1 DEF Stands, Covered
    <3> QED BY <1>5, <3>2, SaidKeeps DEF ExecutorCloses, Statuses, process, TypeOK
  <2> QED BY <1>0, <1>5, <2>1, SameJobs, Together DEF ExecutorCloses, process
<1>6. CASE Cloud(k)
  <2>1. present' \in [Keys -> BOOLEAN]
    BY <1>0, <1>6 DEF Cloud
  <2> QED BY <1>0, <1>6, <2>1, SameJobs, SameTable, Together DEF Cloud, process
<1> QED BY <1>1, <1>2, <1>3, <1>4, <1>5, <1>6

LEMMA RecInit == Init => RecInv
<1> SUFFICES ASSUME Init PROVE RecInv
  OBVIOUS
<1>1. IdleJob \in JobType /\ IdleStep \in StepType /\ IdleJob.at = "idle"
  BY DEF IdleJob, JobType, IdleStep, StepType
<1>2. TypeOK
  BY <1>1, RecommendationsAssumption DEF Init, TypeOK, RecommendationsAssumption
<1>3. RunningIsBusy /\ Stands
  BY <1>1 DEF Init, RunningIsBusy, Stands, DecisionStands, Covered, IdleStep, Kept
<1> QED BY <1>2, <1>3 DEF RecInv

LEMMA RecStep == RecInv /\ [Next]_vars => RecInv'
<1> SUFFICES ASSUME RecInv, [Next]_vars PROVE RecInv'
  OBVIOUS
<1>1. ASSUME NEW j \in Jobs, ClickStart(j) \/ CronLooks(j) \/ GateRefuses(j) \/ JobStep(j) \/ Throws(j) PROVE RecInv'
  BY <1>1, JobSteps DEF JobStep
<1>2. CASE Restart
  <2>1. IdleJob \in JobType /\ IdleStep \in StepType /\ IdleJob.at = "idle"
    BY DEF IdleJob, JobType, IdleStep, StepType
  <2>2. JobsTyped' /\ RunningIsBusy'
    BY <1>2, <2>1 DEF Restart, JobsTyped, RunningIsBusy
  <2>3. TableTyped' /\ Stands'
    BY <1>2, SameTable DEF Restart, RecInv, IdleStep
  <2>4. events' \in 0 .. MaxEvents
    BY <1>2, EventTyped DEF Restart, RecInv
  <2> QED BY <1>2, <2>1, <2>2, <2>3, <2>4, Together DEF Restart, RecInv, TypeOK
<1>3. CASE UNCHANGED vars
  <2>1. TableTyped' /\ Stands' /\ JobsTyped' /\ RunningIsBusy'
    BY <1>3, SameTable, SameJobs DEF vars, process, RecInv
  <2> QED BY <1>3, <2>1, Together DEF vars, process, RecInv, TypeOK
<1>4. CASE Next
  BY <1>1, <1>2, <1>4, Batches, PeopleSteps DEF Next
<1> QED BY <1>3, <1>4

\* What the table, the jobs and the handlers hold always has its declared type: no job has a second row that says running.
THEOREM TypeCorrect == Spec => []TypeOK
<1>1. RecInv => TypeOK
  BY DEF RecInv
<1> QED BY <1>1, RecInit, RecStep, PTL DEF Spec

\* A job has its one `running` row from its start to the row's end, through clicks, crons that waited for credentials,
\* failures and restarts, and none while it hands over or rests.
THEOREM RunningIsBusyHolds == Spec => []RunningIsBusy
<1>1. RecInv => RunningIsBusy
  BY DEF RecInv
<1> QED BY <1>1, RecInit, RecStep, PTL DEF Spec

\* No batch, sweep, tick or restart changes what a person or the executor decided, and no step run does, but for one
\* that read the row before the decision was made: whatever the keys and whoever files them.
THEOREM DecisionStandsHolds == Spec => []DecisionStands
<1>1. RecInv => DecisionStands
  BY DEF RecInv, Stands
<1> QED BY <1>1, RecInit, RecStep, PTL DEF Spec
=============================================================================
