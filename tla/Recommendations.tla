--------------------------- MODULE Recommendations ---------------------------
(***************************************************************************)
(* The recommendations table and everything that writes it: the collection *)
(* run (collector.ts) and the security scan (compliance.ts), each asking   *)
(* AWS source by source and filing one batch at its end; the passes that   *)
(* file a partial batch (review.ts, security_groups.ts, an action module,  *)
(* an agent's answer); a person's decisions, checklist ticks and step runs *)
(* (routes/browse.ts, step_runner.ts); and the executor closing what it    *)
(* applied (executor.ts).                                                  *)
(*                                                                         *)
(* A key is a fingerprint rule:resource.  What a recommendation says, its  *)
(* evidence and its saving are left out: only its status and whether AWS   *)
(* shows its condition matter here, and of its checklist only that a step  *)
(* is ticked.                                                              *)
(***************************************************************************)
EXTENDS Naturals, FiniteSets

CONSTANTS
    Keys,      \* fingerprints
    Sources,   \* queries of the run, benchmarks of the scan
    FilerOf,   \* who files a key
    SourceOf,  \* where the run or the scan would see it
    Decisions, \* the statuses a person chooses among
    Planned,   \* the keys with a tailored plan, whose steps can be run
    Crons,     \* the jobs whose cron is on (any can be started from the page)
    MaxEvents  \* bound: restarts, refusals of AWS that end a job

Jobs == {"run", "scan"}
\* "module": a pass of its own under a rule the stale sweep does not know;
\* "groups": the security groups, refreshed with the inventory.
Filers == Jobs \cup {"review", "groups", "module", "agent"}
Statuses == {"open", "approved", "rejected", "snoozed", "pending", "done", "resolved"}

ASSUME RecommendationsAssumption ==
    /\ FilerOf \in [Keys -> Filers]
    /\ SourceOf \in [Keys -> Sources]
    /\ Decisions \subseteq Statuses \ {"resolved"}
    /\ Planned \subseteq Keys
    /\ Crons \subseteq Jobs
    /\ MaxEvents \in Nat

VARIABLES
    present,  \* AWS: the condition holds
    status,   \* recommendations.status, "none" without a row
    running,  \* the rows of `runs` and of `compliance_scans` that say running
    job,      \* the process: what each job has seen so far
    gating,   \* the process: crons that await the credential gate
    step,     \* the process: a step run out on a key, with what it read
    events,   \* counted against MaxEvents
    said,     \* history: the last decision made on a key, if it is one to keep
    meanwhile \* history: the keys decided last while a step run was out on them

process == <<job, gating, step>>
history == <<said, meanwhile>>
vars == <<present, status, running, process, events, history>>

KeysOf(f) == {k \in Keys : FilerOf[k] = f}
SourcesOf(j) == {SourceOf[k] : k \in KeysOf(j)}

\* `left` to ask, the keys `got`, those `bad` that nobody could see, and whether a whole source failed.
JobType == [at : {"idle", "asking", "filed", "handing"}, left : SUBSET Sources, got : SUBSET Keys, bad : SUBSET Keys, broken : BOOLEAN]
IdleJob == [at |-> "idle", left |-> {}, got |-> {}, bad |-> {}, broken |-> FALSE]
\* `early`: the status read was one that the first tick makes pending.
StepType == [at : {"idle", "out"}, early : BOOLEAN]
IdleStep == [at |-> "idle", early |-> FALSE]

Kept == {"approved", "rejected", "pending", "done"}

TypeOK ==
    /\ present \in [Keys -> BOOLEAN]
    /\ status \in [Keys -> Statuses \cup {"none"}]
    /\ running \in [Jobs -> 0 .. 1]
    /\ job \in [Jobs -> JobType]
    /\ gating \subseteq Jobs
    /\ step \in [Keys -> StepType]
    /\ events \in 0 .. MaxEvents
    /\ said \in [Keys -> Kept \cup {"none"}]
    /\ meanwhile \subseteq Keys

Init ==
    /\ present \in [Keys -> BOOLEAN]
    /\ status = [k \in Keys |-> "none"]
    /\ running = [j \in Jobs |-> 0]
    /\ job = [j \in Jobs |-> IdleJob]
    /\ gating = {}
    /\ step = [k \in Keys |-> IdleStep]
    /\ events = 0
    /\ said = [k \in Keys |-> "none"]
    /\ meanwhile = {}

Exists(k) == status[k] # "none"
Busy(j) == job[j].at # "idle"
Event == events < MaxEvents /\ events' = events + 1
\* A decision is recorded with its date and its author.
Says(k, s) == said' = [said EXCEPT ![k] = IF s \in Kept THEN s ELSE "none"]

-----------------------------------------------------------------------------
(* upsertRecommendations *)

\* The row of k after a batch: a new one is open, a resolved one is open again, a decided one is left alone.
Filed(batch, k) == IF k \in batch /\ status[k] \in {"none", "resolved"} THEN "open" ELSE status[k]

\* Mutant: the sweep takes the review's rows for its own.
Swept_reviewToo == {k \in Keys : status[k] = "open" /\ FilerOf[k] \in {"run", "module", "review"}}

\* The rows a full rules batch resolves unless it brought them: open, of source rules, and of a rule that
\* does not start with review_, sec_ or sg_.
Swept == {k \in Keys : status[k] = "open" /\ FilerOf[k] \in {"run", "module"}}

\* A batch, then the rows in `sweep` that it did not bring are resolved.
Upsert(batch, sweep) ==
    status' = [k \in Keys |-> IF k \in sweep \ batch THEN "resolved" ELSE Filed(batch, k)]

-----------------------------------------------------------------------------
(* The collection run and the security scan *)

Begin(j) ==
    /\ job' = [job EXCEPT ![j] = [IdleJob EXCEPT !.at = "asking", !.left = SourcesOf(j)]]
    /\ running' = [running EXCEPT ![j] = @ + 1]

\* startRun, startComplianceScan from the page: refused while one is out.
ClickStart(j) ==
    /\ ~Busy(j)
    /\ Begin(j)
    /\ UNCHANGED <<present, status, gating, step, events, history>>

\* The cron's job looks at the flag, awaits the credentials and starts; a start it lost the race for throws.
CronLooks(j) ==
    /\ j \in Crons /\ ~Busy(j) /\ j \notin gating
    /\ gating' = gating \cup {j}
    /\ UNCHANGED <<present, status, running, job, step, events, history>>

\* Mutant: the flag read before the gate is taken for the one after it.
CronStarts_unchecked(j) ==
    /\ j \in gating
    /\ gating' = gating \ {j}
    /\ Begin(j)
    /\ UNCHANGED <<present, status, step, events, history>>

CronStarts(j) ==
    /\ j \in gating
    /\ gating' = gating \ {j}
    /\ IF Busy(j) THEN UNCHANGED <<job, running>> ELSE Begin(j)
    /\ UNCHANGED <<present, status, step, events, history>>

GateRefuses(j) ==
    /\ j \in gating
    /\ Event
    /\ gating' = gating \ {j}
    /\ UNCHANGED <<present, status, running, job, step, history>>

Asked(j, s, got, bad, broken) ==
    /\ job[j].at = "asking" /\ s \in job[j].left
    /\ job' = [job EXCEPT ![j].left = @ \ {s}, ![j].got = @ \cup got, ![j].bad = @ \cup bad, ![j].broken = @ \/ broken]
    /\ UNCHANGED <<present, status, running, gating, step, events, history>>

Of(j, s) == {k \in KeysOf(j) : SourceOf[k] = s}

\* A query or a benchmark answers; single controls of it may have failed, which shows as no alarm.
Answers(j, s) ==
    \E failed \in SUBSET Of(j, s) : Asked(j, s, {k \in Of(j, s) : present[k]} \ failed, failed, FALSE)

\* It fails as a whole: logged, and the job goes on.
Fails(j, s) == Asked(j, s, {}, Of(j, s), TRUE)

\* Mutant: the scan files, and forgets to resolve its own.
Sweep_scanForgets(j) == IF j = "run" THEN Swept ELSE {}

\* The run sweeps with its batch; the scan resolves what vanished, unless a benchmark failed.
Sweep(j) ==
    IF j = "run" THEN Swept
    ELSE IF job[j].broken THEN {} ELSE {k \in KeysOf("scan") : status[k] = "open"}

\* Everything asked: the batch is filed.  The run then refreshes inventory and spend, the scan notifies.
Files(j) ==
    /\ job[j].at = "asking" /\ job[j].left = {}
    /\ Upsert(job[j].got, Sweep(j))
    /\ job' = [job EXCEPT ![j].at = "filed", ![j].got = {}]
    /\ UNCHANGED <<present, running, gating, step, events, history>>

\* The row is completed; the job awaits dispatchToAgent or notifyNewFindings with its flag still up.
Completes(j) ==
    /\ job[j].at = "filed"
    /\ running' = [running EXCEPT ![j] = @ - 1]
    /\ job' = [job EXCEPT ![j] = [IdleJob EXCEPT !.at = "handing"]]
    /\ UNCHANGED <<present, status, gating, step, events, history>>

\* Mutant: the flag is not taken down at the end.
Ends_keepsFlag(j) ==
    /\ job[j].at = "handing"
    /\ UNCHANGED vars

\* Whatever the agent or the chat answered, `finally` takes the flag down.
Ends(j) ==
    /\ job[j].at = "handing"
    /\ job' = [job EXCEPT ![j] = IdleJob]
    /\ UNCHANGED <<present, status, running, gating, step, events, history>>

\* No connection, every benchmark failed, or a reader that throws: the row is failed, nothing is filed.
Throws(j) ==
    /\ job[j].at = "asking"
    /\ Event
    /\ job' = [job EXCEPT ![j] = IdleJob]
    /\ running' = [running EXCEPT ![j] = @ - 1]
    /\ UNCHANGED <<present, status, gating, step, history>>

-----------------------------------------------------------------------------
(* Partial batches *)

\* runReview files what its statistics show; syncSecurityGroupRecommendations files, and resolves its own that are gone.
OwnPass(f) ==
    /\ Upsert({k \in KeysOf(f) : present[k]}, IF f = "groups" THEN {k \in KeysOf(f) : status[k] = "open"} ELSE {})
    /\ UNCHANGED <<present, running, process, events, history>>

\* An action module's pass, a usage profile, an agent's answer: what it could judge this time.
PartialBatch(f, batch) ==
    /\ batch # {} /\ \A k \in batch : FilerOf[k] = f /\ present[k]
    /\ Upsert(batch, {})
    /\ UNCHANGED <<present, running, process, events, history>>

-----------------------------------------------------------------------------
(* A person, and the executor *)

\* POST decision, both routes: any status over any other.
Decide(k, s) ==
    /\ Exists(k)
    /\ status' = [status EXCEPT ![k] = s]
    /\ Says(k, s)
    /\ meanwhile' = IF step[k].early THEN meanwhile \cup {k} ELSE meanwhile \ {k}
    /\ UNCHANGED <<present, running, process, events>>

\* Mutant: an approved item is moved to pending like an open one.
Early_approvedToo(k) == status[k] \in {"open", "snoozed", "approved"}

\* statusAfterProgress: the first tick of an open or snoozed item makes it pending.
Early(k) == status[k] \in {"open", "snoozed"}

\* Written whatever the row has become.  It is a decision only where nobody made one: else the one made was written over.
AfterProgress(k, early, ticked) ==
    IF early /\ ticked
    THEN /\ status' = [status EXCEPT ![k] = "pending"]
         /\ said' = [said EXCEPT ![k] = IF @ = "none" THEN "pending" ELSE @]
    ELSE UNCHANGED <<status, said>>

\* POST progress: read and written in one go, with a step ticked or none.
Tick(k, ticked) ==
    /\ Exists(k) /\ k \in Planned
    /\ AfterProgress(k, Early(k), ticked)
    /\ UNCHANGED <<present, running, process, events, meanwhile>>

\* runStep reads the row, then awaits the command.
StepStarts(k) ==
    /\ Exists(k) /\ k \in Planned /\ step[k].at = "idle"
    /\ step' = [step EXCEPT ![k] = [at |-> "out", early |-> Early(k)]]
    /\ UNCHANGED <<present, status, running, job, gating, events, history>>

\* It writes the status that follows from the one it read; the checklist has a tick if the step worked, or by an earlier one.
StepReturns(k, ticked) ==
    /\ step[k].at = "out"
    /\ AfterProgress(k, step[k].early, ticked)
    /\ step' = [step EXCEPT ![k] = IdleStep]
    /\ UNCHANGED <<present, running, job, gating, events, meanwhile>>

\* closeRecommendation, markRecommendationsDone: `... where id = ? and status = 'approved'`.
ExecutorCloses(k) ==
    /\ status[k] = "approved"
    /\ status' = [status EXCEPT ![k] = "done"]
    /\ Says(k, "done")
    /\ UNCHANGED <<present, running, process, events, meanwhile>>

-----------------------------------------------------------------------------

\* AWS changes.
Cloud(k) ==
    /\ present' = [present EXCEPT ![k] = ~@]
    /\ UNCHANGED <<status, running, process, events, history>>

\* Mutant: interrupted runs are not swept at the start.
Restart_unswept ==
    /\ Event
    /\ job' = [j \in Jobs |-> IdleJob] /\ gating' = {} /\ step' = [k \in Keys |-> IdleStep]
    /\ UNCHANGED <<present, status, running, history>>

\* The process restarts; sweepInterruptedRuns and its like run before anything else.
Restart ==
    /\ Event
    /\ job' = [j \in Jobs |-> IdleJob] /\ gating' = {} /\ step' = [k \in Keys |-> IdleStep]
    /\ running' = [j \in Jobs |-> 0]
    /\ UNCHANGED <<present, status, history>>

JobStep(j) ==
    \/ CronStarts(j)
    \/ \E s \in Sources : Answers(j, s) \/ Fails(j, s)
    \/ Files(j)
    \/ Completes(j) \/ Ends(j)

Next ==
    \/ \E j \in Jobs : ClickStart(j) \/ CronLooks(j) \/ GateRefuses(j) \/ JobStep(j) \/ Throws(j)
    \/ \E f \in {"review", "groups"} : OwnPass(f)
    \/ \E f \in {"module", "agent"}, batch \in SUBSET Keys : PartialBatch(f, batch)
    \/ \E k \in Keys, s \in Decisions : Decide(k, s)
    \/ \E k \in Keys, ticked \in BOOLEAN : Tick(k, ticked) \/ StepReturns(k, ticked)
    \/ \E k \in Keys : StepStarts(k) \/ ExecutorCloses(k) \/ Cloud(k)
    \/ Restart

\* The crons fire for ever, a started job goes on by itself, and so does the daily review.
Fairness ==
    /\ \A j \in Jobs : WF_vars(CronLooks(j)) /\ WF_vars(JobStep(j))
    /\ WF_vars(OwnPass("review"))

Spec == Init /\ [][Next]_vars /\ Fairness

-----------------------------------------------------------------------------
(* Properties *)

\* A decision that later runs must leave alone (README.md:69: a pending item is left alone like an approved one and is
\* never auto-resolved) is still there whatever batches, sweeps, ticks, restarts and step runs came after it.  Only a
\* step run that read the row before the decision may write over it, and leaves the row pending, never resolved or open.
DecisionStands ==
    \A k \in Keys : said[k] # "none" =>
        \/ status[k] = said[k]
        \/ k \in meanwhile /\ status[k] = "pending"

\* A job has one row that says running from its start until the row is completed or failed, and none outside that:
\* no second run beside one that is out, no row left by a restart, none while a completed run still hands over.
RunningIsBusy == \A j \in Jobs : running[j] = IF job[j].at \in {"asking", "filed"} THEN 1 ELSE 0

\* A job that started ends, so the next one can start.
RunsEnd == \A j \in Jobs : Busy(j) ~> ~Busy(j)

Shown(k) == status[k] \notin {"none", "resolved"}

\* A condition that stays, and that the jobs can see, is shown for good: as open or as what a person made of it.
PersistsThenShown ==
    \A k \in KeysOf("review") \cup KeysOf("run") \cup KeysOf("scan") :
        LET j == FilerOf[k]
            seen == present[k] /\ (j \in Jobs => k \notin job[j].bad)
            files == j \in Jobs => []<>(job[j].at = "filed")
        IN files /\ <>[]seen => <>[]Shown(k)

\* What is gone does not stay open: the next runs that get through resolve it.
GoneIsResolved ==
    \A k \in KeysOf("run") \cup KeysOf("scan") :
        LET j == FilerOf[k]
        IN []<>(job[j].at = "filed" /\ ~job[j].broken) /\ <>[]~present[k] => []<>(status[k] # "open")

\* Disagreement: collector.ts:273 "(for a full rules batch) resolves ones whose resource is gone".  A row is resolved
\* only by a job that asked its source, got an answer, and did not find it there.
ResolvedIsGone ==
    [][\A k \in Keys : status[k] = "open" /\ status'[k] = "resolved" =>
        \E j \in Jobs : FilerOf[k] = j /\ job[j].at = "asking" /\ k \notin job[j].bad]_vars
=============================================================================
