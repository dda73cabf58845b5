------------------------------ MODULE Executor ------------------------------
(***************************************************************************)
(* The executor (src/src/executor.ts): the ledger of auto-actions, the     *)
(* apply / read back / revert of one row, and the pass that plans, records *)
(* and applies.  Node runs one handler at a time and lets others run at    *)
(* each await, so a handler is a task whose steps are the code between two *)
(* awaits.  The page's requests are the tasks in Clicks; the pass, which   *)
(* is single-flight, does its own calls through PassTask.                  *)
(*                                                                         *)
(* Staged modules (those with `advance`) are in StagedAction, the Sphinx   *)
(* messages about a row and their receipts in Notifications.               *)
(***************************************************************************)
EXTENDS Integers, FiniteSets

CONSTANTS
    Changes,        \* a dedupe in an account: "same change on the same resource"
    PageChanges,    \* those only a person proposes (consent switches, manual power)
    Kinds,          \* the registered modules without `advance`
    KindOf,         \* the module of a change
    PressureKinds,  \* the modules of the pressure pass
    GraceHours,     \* grace period of a module, 0 for none
    Clicks,         \* requests from the page that can be in flight together
    PassTask,       \* the calls the pass makes itself
    Modes,          \* ACT_MODE values
    PassTriggers,   \* who starts a pass
    FAILURES_BEFORE_REFUSING,
    ActMaxPerPass,
    Day,            \* the length of "the last day"
    MaxRow,         \* bound: rows ever inserted
    MaxTime,        \* bound: the clock
    MaxEvents       \* bound: settings changed, rows deleted, restarts

ASSUME ExecutorAssumption ==
    /\ PageChanges \subseteq Changes /\ Changes # {}
    /\ KindOf \in [Changes -> Kinds]
    /\ PressureKinds \subseteq Kinds /\ Kinds # {}
    /\ GraceHours \in [Kinds -> Nat]
    /\ PassTask \notin Clicks
    /\ Modes \subseteq {"off", "dry_run", "apply"} /\ Modes # {}
    /\ PassTriggers \subseteq {"schedule", "pressure", "manual"}
    /\ FAILURES_BEFORE_REFUSING \in Nat \ {0}
    /\ ActMaxPerPass \in Nat \ {0}
    /\ Day \in Nat /\ MaxRow \in Nat /\ MaxTime \in Nat /\ MaxEvents \in Nat

VARIABLES
    status, change, trigger, created, revived, nextId,  \* the table `actions`
    inPlace,                                            \* AWS: the change is there
    now, mode, paused, actuator, denied,                \* clock, settings, learned denials
    task, pass,                                         \* the process
    events,                                             \* counted against MaxEvents
    landed, openSince, begun, interrupted               \* history, read by no action

rest == <<change, trigger, created, revived, nextId, openSince>>
ledger == <<status, rest>>
settings == <<mode, paused, actuator, denied>>
history == <<landed, begun, interrupted>>
vars == <<ledger, inPlace, now, settings, task, pass, events, history>>

Ids == 1 .. MaxRow
Tasks == Clicks \cup {PassTask}
Never == -1
NoRow == 0
Statuses == {"proposed", "applied", "verified", "failed", "refused", "reverted", "stale"}
Triggers == {"schedule", "pressure", "manual", "person"}

\* "none" is an id that is not in the table: not inserted yet, or deleted.
Exists(i) == status[i] # "none"

\* Mutant: `account_id = ?` without coalesce, so a null account matches no row.
RowsOf_nullAccount(c, s) == {}

\* Mutant: a proposal comes back on its failed row as well as on a stale one.
RowsOf_revivesFailed(c, s) ==
    {i \in Ids : change[i] = c /\ (status[i] = s \/ (s = "stale" /\ status[i] = "failed"))}

RowsOf(c, s) == {i \in Ids : change[i] = c /\ status[i] = s}

IsNewest(i, S) == i \in S /\ \A j \in S : j <= i     \* order by id desc limit 1

IdleTask == [at |-> "idle", row |-> NoRow, by |-> "manual", answer |-> "none"]
AnyKind == CHOOSE k \in Kinds : TRUE
IdlePass == [phase |-> "idle", by |-> "schedule", mode |-> "off", kinds |-> {}, kind |-> AnyKind,
             rows |-> {}, row |-> NoRow, proposals |-> {}, keep |-> {}, budget |-> 0,
             reach |-> "unknown", known |-> FALSE, blocked |-> {}]

LedgerTypeOK ==
    /\ status \in [Ids -> Statuses \cup {"none"}]
    /\ change \in [Ids -> Changes]
    /\ trigger \in [Ids -> Triggers]
    /\ created \in [Ids -> 0 .. MaxTime]
    /\ revived \in [Ids -> (0 .. MaxTime) \cup {Never}]
    /\ openSince \in [Ids -> 0 .. MaxTime]
    /\ nextId \in 1 .. MaxRow + 1

WorldTypeOK ==
    /\ inPlace \in [Changes -> BOOLEAN]
    /\ now \in 0 .. MaxTime
    /\ mode \in Modes /\ paused \in BOOLEAN /\ actuator \in BOOLEAN
    /\ denied \in SUBSET Kinds
    /\ events \in 0 .. MaxEvents

Places == {"idle", "caps", "creds", "who", "calling", "landed", "reading",
           "answered", "rcreds", "rwho", "undoing", "undone"}
Answers == {"none", "ok", "no", "pending", "error"}
TaskType == [at : Places, row : Ids \cup {NoRow}, by : Triggers, answer : Answers]

\* A working task has a row.
TaskTypeOK ==
    /\ task \in [Tasks -> TaskType]
    /\ \A t \in Tasks : task[t].at # "idle" => task[t].row \in Ids

PassType ==
    [phase : {"idle", "readback", "reading", "plan", "record", "decide", "reach", "applying"},
     by : Triggers, mode : {"off", "dry_run", "apply"},
     kinds : SUBSET Kinds, kind : Kinds,
     rows : SUBSET Ids, row : Ids \cup {NoRow},
     proposals : SUBSET Changes, keep : SUBSET Changes, budget : 0 .. ActMaxPerPass,
     reach : {"unknown", "yes", "no"}, known : BOOLEAN, blocked : SUBSET Kinds]

PassTypeOK ==
    /\ pass \in PassType
    /\ pass.phase = "reach" => pass.row \in Ids

HistoryTypeOK ==
    /\ landed \in [Ids -> BOOLEAN]
    /\ begun \in Nat
    /\ interrupted \in SUBSET Ids

TypeOK == LedgerTypeOK /\ WorldTypeOK /\ TaskTypeOK /\ PassTypeOK /\ HistoryTypeOK

Init ==
    \E m \in Modes, p \in BOOLEAN :
    /\ status = [i \in Ids |-> "none"]
    /\ change = [i \in Ids |-> CHOOSE c \in Changes : TRUE]
    /\ trigger = [i \in Ids |-> "schedule"]
    /\ created = [i \in Ids |-> 0]
    /\ revived = [i \in Ids |-> Never]
    /\ openSince = [i \in Ids |-> 0]
    /\ nextId = 1
    /\ inPlace = [c \in Changes |-> FALSE]
    /\ now = 0
    /\ mode = m /\ paused = p /\ actuator = TRUE /\ denied = {}
    /\ task = [t \in Tasks |-> IdleTask]
    /\ pass = IdlePass
    /\ events = 0
    /\ landed = [i \in Ids |-> FALSE]
    /\ begun = 0
    /\ interrupted = {}

-----------------------------------------------------------------------------
(* The ledger. *)

\* `update actions set status = ... where id = ?`: nothing happens to a deleted row.
\* The trigger it also writes is read on open rows only, so it is left out.
\* Mutant: the update is conditional on the row still being open.
SetStatus_openOnly(i, s) == status' = IF status[i] = "proposed" THEN [status EXCEPT ![i] = s] ELSE status

SetStatus(i, s) == status' = IF Exists(i) THEN [status EXCEPT ![i] = s] ELSE status

Insert(c, b) ==
    /\ nextId \in Ids
    /\ status' = [status EXCEPT ![nextId] = "proposed"]
    /\ change' = [change EXCEPT ![nextId] = c]
    /\ trigger' = [trigger EXCEPT ![nextId] = b]
    /\ created' = [created EXCEPT ![nextId] = now]
    /\ openSince' = [openSince EXCEPT ![nextId] = now]
    /\ nextId' = nextId + 1
    /\ UNCHANGED revived

\* The grace period restarts from the revival.
Revive(i, b) ==
    /\ status' = [status EXCEPT ![i] = "proposed"]
    /\ trigger' = [trigger EXCEPT ![i] = b]
    /\ revived' = [revived EXCEPT ![i] = now]
    /\ openSince' = [openSince EXCEPT ![i] = now]
    /\ UNCHANGED <<change, created, nextId>>

\* r is the id of the row that now carries the proposal.
RecordProposal(c, b, r) ==
    LET open == RowsOf(c, "proposed")
        stale == RowsOf(c, "stale")
    IN  \/ IsNewest(r, open) /\ UNCHANGED ledger     \* refreshed: same id, same dates, same trigger
        \/ open = {} /\ IsNewest(r, stale) /\ Revive(r, b)
        \/ open = {} /\ stale = {} /\ r = nextId /\ Insert(c, b)

\* Open rows of kind k that the pass did not propose, the ones a person made excepted.
Leftover(k, keep) ==
    {i \in Ids : /\ status[i] = "proposed" /\ KindOf[change[i]] = k
                 /\ trigger[i] # "manual" /\ change[i] \notin keep}

RecentFailures(c) == {i \in RowsOf(c, "failed") : created[i] + Day > now}
FailureHold(c) == Cardinality(RecentFailures(c)) >= FAILURES_BEFORE_REFUSING

LastAttemptFailed(c) ==
    \E i \in Ids : /\ IsNewest(i, {j \in Ids : change[j] = c /\ Exists(j)})
                   /\ status[i] \in {"failed", "refused"}

\* Mutant: the grace period always counts from the row's creation.
GraceLeft_fromCreation(i) == created[i] + GraceHours[KindOf[change[i]]] > now

GraceLeft(i) ==
    LET since == IF revived[i] # Never THEN revived[i] ELSE created[i]
    IN  since + GraceHours[KindOf[change[i]]] > now

-----------------------------------------------------------------------------
(* A task: one handler's call on one row.  Finish is its return; a task of *)
(* the pass returns into the pass, and an exception ends the whole pass.   *)

Move(t, at) == task' = [task EXCEPT ![t].at = at]
Begin(t, at, i, b) == task' = [task EXCEPT ![t] = [at |-> at, row |-> i, by |-> b, answer |-> "none"]]

\* Mutant: passInFlight is cleared on the normal way out only.
Finish_noFinally(t, threw) ==
    /\ task' = [task EXCEPT ![t] = IdleTask]
    /\ pass' = IF t # PassTask \/ threw THEN pass
               ELSE [pass EXCEPT !.phase = IF @ = "reading" THEN "readback" ELSE "decide", !.row = NoRow]

Finish(t, threw) ==
    /\ task' = [task EXCEPT ![t] = IdleTask]
    /\ pass' = IF t # PassTask THEN pass
               ELSE IF threw THEN IdlePass
               ELSE [pass EXCEPT !.phase = IF @ = "reading" THEN "readback" ELSE "decide",
                                 !.row = NoRow]

-----------------------------------------------------------------------------
(* applyAction *)

\* The checks made before the first await; each of them throws.
CannotApply(i) == status[i] # "proposed" \/ mode = "off" \/ paused

ClickApply(t, i) ==
    /\ task[t].at = "idle"
    /\ ~CannotApply(i)
    /\ Begin(t, "creds", i, "manual")
    /\ UNCHANGED <<ledger, inPlace, now, settings, pass, events, history>>

\* What the role lacks, asked for a pass's row only; a missing right throws.
CapsBack(t) ==
    /\ task[t].at = "caps"
    /\ IF KindOf[change[task[t].row]] \in denied
       THEN Finish(t, TRUE) ELSE Move(t, "creds") /\ UNCHANGED pass
    /\ UNCHANGED <<ledger, inPlace, now, settings, events, history>>

\* Credentials came back: no actuator role refuses the row, else the call goes out.
CallOrRefuse(t) ==
    LET i == task[t].row IN
    /\ task[t].at = "creds"
    /\ IF actuator
       THEN Move(t, "calling") /\ UNCHANGED <<status, pass>>
       ELSE /\ SetStatus(i, "refused")
            /\ Finish(t, ~Exists(i))
    /\ UNCHANGED <<rest, inPlace, now, settings, events, history>>

\* A person's own temporary credentials (runAsPerson): no mode, pause or failure check.
ClickAsPerson(t, i) ==
    /\ task[t].at = "idle"
    /\ status[i] \in {"proposed", "failed", "applied"}
    /\ Begin(t, "who", i, "person")
    /\ UNCHANGED <<ledger, inPlace, now, settings, pass, events, history>>

PersonIdentified(t, ok) ==
    /\ task[t].at \in {"who", "rwho"}
    /\ IF ok
       THEN Move(t, IF task[t].at = "who" THEN "calling" ELSE "undoing") /\ UNCHANGED pass
       ELSE Finish(t, TRUE)
    /\ UNCHANGED <<ledger, inPlace, now, settings, events, history>>

\* AWS makes the change while the handler waits for mod.apply.
AwsApplies(t) ==
    LET i == task[t].row IN
    /\ task[t].at = "calling"
    /\ inPlace' = [inPlace EXCEPT ![change[i]] = TRUE]
    /\ landed' = [landed EXCEPT ![i] = TRUE]
    /\ Move(t, "landed")
    /\ UNCHANGED <<ledger, now, settings, pass, events, begun, interrupted>>

\* mod.apply resolved: the row is applied, whatever it was meanwhile, and read back.
ApplyReturns(t) ==
    LET i == task[t].row IN
    /\ task[t].at = "landed"
    /\ SetStatus(i, "applied")
    /\ IF Exists(i) THEN Move(t, "reading") /\ UNCHANGED pass ELSE Finish(t, TRUE)
    /\ denied' = IF task[t].by = "person" THEN denied ELSE denied \ {KindOf[change[i]]}
    /\ UNCHANGED <<rest, inPlace, now, mode, paused, actuator, events, history>>

\* mod.apply threw, before or after AWS did its part.
ApplyThrows(t) ==
    LET i == task[t].row IN
    /\ task[t].at \in {"calling", "landed"}
    /\ SetStatus(i, "failed")
    /\ Finish(t, ~Exists(i))
    /\ \/ UNCHANGED denied
       \/ /\ task[t].at = "calling" /\ task[t].by # "person"    \* an AccessDenied is learned
          /\ denied' = denied \cup {KindOf[change[i]]}
    /\ UNCHANGED <<rest, inPlace, now, mode, paused, actuator, events, history>>

-----------------------------------------------------------------------------
(* verifyAction *)

ClickVerify(t, i) ==
    /\ task[t].at = "idle"
    /\ status[i] = "applied"
    /\ Begin(t, "reading", i, "manual")
    /\ UNCHANGED <<ledger, inPlace, now, settings, pass, events, history>>

\* mod.verify reads AWS, or cannot tell, or fails.
ReadBack(t, a) ==
    LET i == task[t].row IN
    /\ task[t].at = "reading"
    /\ a = "ok" => inPlace[change[i]]
    /\ a = "no" => ~inPlace[change[i]]
    /\ task' = [task EXCEPT ![t].at = "answered", ![t].answer = a]
    /\ UNCHANGED <<ledger, inPlace, now, settings, pass, events, history>>

\* The answer is written without looking at the row again.
VerifyReturns(t) ==
    LET i == task[t].row  a == task[t].answer IN
    /\ task[t].at = "answered"
    /\ CASE a = "ok" -> SetStatus(i, "verified")
         [] a = "no" -> SetStatus(i, "failed")
         [] OTHER -> UNCHANGED status
    /\ Finish(t, ~Exists(i))
    /\ UNCHANGED <<rest, inPlace, now, settings, events, history>>

-----------------------------------------------------------------------------
(* revertAction: the pause is deliberately not checked *)

\* Mutant: any row can be reverted.
ClickRevert_anyStatus(t, i) ==
    /\ task[t].at = "idle"
    /\ Exists(i) /\ mode # "off"
    /\ Begin(t, "rcreds", i, "manual")
    /\ UNCHANGED <<ledger, inPlace, now, settings, pass, events, history>>

ClickRevert(t, i) ==
    /\ task[t].at = "idle"
    /\ status[i] \in {"applied", "verified"} /\ mode # "off"
    /\ Begin(t, "rcreds", i, "manual")
    /\ UNCHANGED <<ledger, inPlace, now, settings, pass, events, history>>

RevertOrThrow(t) ==
    /\ task[t].at = "rcreds"
    /\ IF actuator THEN Move(t, "undoing") /\ UNCHANGED pass ELSE Finish(t, TRUE)
    /\ UNCHANGED <<ledger, inPlace, now, settings, events, history>>

ClickRevertAsPerson(t, i) ==
    /\ task[t].at = "idle"
    /\ status[i] \in {"applied", "verified"}
    /\ Begin(t, "rwho", i, "person")
    /\ UNCHANGED <<ledger, inPlace, now, settings, pass, events, history>>

AwsReverts(t) ==
    /\ task[t].at = "undoing"
    /\ inPlace' = [inPlace EXCEPT ![change[task[t].row]] = FALSE]
    /\ Move(t, "undone")
    /\ UNCHANGED <<ledger, now, settings, pass, events, history>>

RevertReturns(t) ==
    LET i == task[t].row IN
    /\ task[t].at = "undone"
    /\ SetStatus(i, "reverted")
    /\ Finish(t, FALSE)
    /\ UNCHANGED <<rest, inPlace, now, settings, events, history>>

\* A failed revert leaves the status.
RevertThrows(t) ==
    /\ task[t].at \in {"undoing", "undone"}
    /\ Finish(t, TRUE)
    /\ UNCHANGED <<ledger, inPlace, now, settings, events, history>>

-----------------------------------------------------------------------------
(* runExecutorPass.  A call while one is in flight gets that pass's promise *)
(* and changes nothing, so PassStart needs the idle phase.                  *)

ElseUnchanged == UNCHANGED <<inPlace, now, settings, events, landed, interrupted>>

PassStart(b) ==
    /\ pass.phase = "idle"
    /\ mode # "off" /\ ~paused
    /\ pass' = [IdlePass EXCEPT !.phase = "readback", !.by = b, !.mode = mode,
                                !.kinds = IF b = "pressure" THEN PressureKinds ELSE Kinds,
                                !.rows = {i \in Ids : status[i] = "applied"},
                                !.budget = ActMaxPerPass]
    /\ begun' = 0
    /\ UNCHANGED <<ledger, task>> /\ ElseUnchanged

\* The applied rows of the snapshot are read back one by one; a deleted one throws.
PassReadBack(i) ==
    /\ pass.phase = "readback" /\ i \in pass.rows
    /\ IF ~Exists(i) THEN pass' = IdlePass /\ UNCHANGED task
       ELSE IF status[i] # "applied" THEN pass' = [pass EXCEPT !.rows = @ \ {i}] /\ UNCHANGED task
       ELSE /\ pass' = [pass EXCEPT !.phase = "reading", !.rows = @ \ {i}]
            /\ Begin(PassTask, "reading", i, pass.by)
    /\ UNCHANGED <<ledger, begun>> /\ ElseUnchanged

PassReadBackDone ==
    /\ pass.phase = "readback" /\ pass.rows = {}
    /\ pass' = [pass EXCEPT !.phase = "plan"]
    /\ UNCHANGED <<ledger, task, begun>> /\ ElseUnchanged

\* A module plans from what AWS shows now.
PassPlan(k, P) ==
    /\ pass.phase = "plan" /\ k \in pass.kinds
    /\ P \subseteq {c \in Changes \ PageChanges : KindOf[c] = k /\ ~inPlace[c]}
    /\ nextId + Cardinality(P) <= MaxRow + 1
    /\ pass' = [pass EXCEPT !.phase = "record", !.kind = k, !.proposals = P, !.keep = P, !.rows = {}]
    /\ UNCHANGED <<ledger, task, begun>> /\ ElseUnchanged

\* A plan that throws skips its module, closeStale included.
PassPlanFails(k) ==
    /\ pass.phase = "plan" /\ k \in pass.kinds
    /\ pass' = [pass EXCEPT !.kinds = @ \ {k}]
    /\ UNCHANGED <<ledger, task, begun>> /\ ElseUnchanged

PassDone ==
    /\ pass.phase = "plan" /\ pass.kinds = {}
    /\ pass' = IdlePass
    /\ UNCHANGED <<ledger, task, begun>> /\ ElseUnchanged

\* Whether the actuator role can be assumed, asked once per pass.
RetryNeedsReach(c) == pass.mode = "apply" /\ LastAttemptFailed(c) /\ ~FailureHold(c)
PassAsksReach(a) ==
    /\ pass.reach = "unknown"
    /\ \/ pass.phase = "reach"
       \/ pass.phase = "record" /\ \E c \in pass.proposals : RetryNeedsReach(c)
    /\ a = "yes" => actuator
    /\ pass' = [pass EXCEPT !.reach = a]
    /\ UNCHANGED <<ledger, task, begun>> /\ ElseUnchanged

\* A change whose last attempt failed gets a new row only when it will be tried.
PassRecord(c) ==
    /\ pass.phase = "record" /\ c \in pass.proposals
    /\ RetryNeedsReach(c) => pass.reach # "unknown"
    /\ IF /\ pass.mode = "apply" /\ LastAttemptFailed(c)
          /\ FailureHold(c) \/ pass.reach = "no"
       THEN /\ pass' = [pass EXCEPT !.proposals = @ \ {c}]
            /\ UNCHANGED ledger
       ELSE \E r \in Ids :
            /\ pass' = [pass EXCEPT !.proposals = @ \ {c}, !.rows = @ \cup {r}]
            /\ RecordProposal(c, pass.by, r)
    /\ UNCHANGED <<task, begun>> /\ ElseUnchanged

\* After Jev's answer; outside apply mode the rows are only recorded.
PassRecorded ==
    /\ pass.phase = "record" /\ pass.proposals = {}
    /\ pass' = [pass EXCEPT !.phase = "decide", !.rows = IF pass.mode = "apply" THEN @ ELSE {}]
    /\ UNCHANGED <<ledger, task, begun>> /\ ElseUnchanged

\* What the roles lack is read once per pass.
Blocked == IF pass.known THEN pass.blocked ELSE denied

\* Left for a person (role lacks the right, Jev's hold), in its grace period, or held.
PassLeaves(i, jevHold) ==
    /\ pass.phase = "decide" /\ i \in pass.rows
    /\ jevHold \/ pass.kind \in Blocked \/ GraceLeft(i) \/ FailureHold(change[i])
    /\ pass' = [pass EXCEPT !.rows = @ \ {i}, !.known = TRUE, !.blocked = Blocked]
    /\ UNCHANGED <<ledger, task, begun>> /\ ElseUnchanged

PassTakes(i) ==
    /\ pass.phase = "decide" /\ i \in pass.rows
    /\ pass.kind \notin Blocked /\ ~GraceLeft(i) /\ ~FailureHold(change[i])
    /\ pass' = [pass EXCEPT !.phase = "reach", !.row = i, !.rows = @ \ {i},
                            !.known = TRUE, !.blocked = Blocked]
    /\ UNCHANGED <<ledger, task, begun>> /\ ElseUnchanged

\* Mutant: the cap is off by one.
CanSpend_offByOne == pass.budget >= 0

CanSpend == pass.budget > 0

PassWaits ==
    /\ pass.phase = "reach" /\ pass.reach # "unknown"
    /\ pass.reach = "no" \/ ~CanSpend
    /\ pass' = [pass EXCEPT !.phase = "decide", !.row = NoRow]
    /\ UNCHANGED <<ledger, task, begun>> /\ ElseUnchanged

\* applyAction from the pass: its exceptions end the pass.
PassApplies ==
    LET i == pass.row IN
    /\ pass.phase = "reach" /\ pass.reach = "yes" /\ CanSpend
    /\ \/ /\ CannotApply(i)
          /\ pass' = IdlePass /\ UNCHANGED <<ledger, task, begun>>
       \/ /\ ~CannotApply(i) /\ pass.by # "manual" /\ FailureHold(change[i])
          /\ SetStatus(i, "refused")
          /\ pass' = [pass EXCEPT !.phase = "decide", !.row = NoRow, !.budget = @ - 1]
          /\ UNCHANGED <<rest, task, begun>>
       \/ /\ ~CannotApply(i) /\ (pass.by = "manual" \/ ~FailureHold(change[i]))
          /\ pass' = [pass EXCEPT !.phase = "applying", !.budget = @ - 1]
          /\ Begin(PassTask, IF pass.by = "manual" THEN "creds" ELSE "caps", i, pass.by)
          /\ begun' = begun + 1
          /\ UNCHANGED ledger
    /\ ElseUnchanged

\* Mutant: the cap is counted per module.
PassCloses_newBudget ==
    /\ pass.phase = "decide" /\ pass.rows = {}
    /\ pass' = [pass EXCEPT !.phase = "plan", !.kinds = @ \ {pass.kind}, !.keep = {}, !.budget = ActMaxPerPass]
    /\ UNCHANGED <<ledger, task, begun>> /\ ElseUnchanged

\* closeStale
PassCloses ==
    /\ pass.phase = "decide" /\ pass.rows = {}
    /\ status' = [i \in Ids |-> IF i \in Leftover(pass.kind, pass.keep) THEN "stale" ELSE status[i]]
    /\ pass' = [pass EXCEPT !.phase = "plan", !.kinds = @ \ {pass.kind}, !.keep = {}]
    /\ UNCHANGED <<rest, task, begun>> /\ ElseUnchanged

-----------------------------------------------------------------------------
(* People, time and the process. *)

\* requestConsent, manualPower: a row made from the page.
PersonProposes(c) ==
    /\ c \in PageChanges
    /\ nextId + Cardinality(pass.proposals) <= MaxRow
    /\ \E r \in Ids : RecordProposal(c, "manual", r)
    /\ UNCHANGED <<inPlace, now, settings, task, pass, events, history>>

Event == events < MaxEvents /\ events' = events + 1

DELETABLE == {"proposed", "failed", "refused", "stale"}
Delete(i, force) ==
    /\ Exists(i) /\ Event
    /\ status[i] \in DELETABLE \/ force
    /\ status' = [status EXCEPT ![i] = "none"]
    /\ UNCHANGED <<rest, inPlace, now, settings,
                   task, pass, history>>

ChangeSetting == Event /\ UNCHANGED <<ledger, inPlace, now, task, pass, history>>
SetMode(m) == mode' = m /\ m # mode /\ UNCHANGED <<paused, actuator, denied>> /\ ChangeSetting
PauseActions == ~paused /\ paused' = TRUE /\ UNCHANGED <<mode, actuator, denied>> /\ ChangeSetting
ResumeActions == paused /\ paused' = FALSE /\ UNCHANGED <<mode, actuator, denied>> /\ ChangeSetting
SetActuator == actuator' = ~actuator /\ UNCHANGED <<mode, paused, denied>> /\ ChangeSetting

\* An hour goes by: learned denials are forgotten (LEARNED_TTL_MS).
Tick ==
    /\ now < MaxTime
    /\ now' = now + 1
    /\ denied' = {}
    /\ UNCHANGED <<ledger, inPlace, mode, paused, actuator, task, pass, events, history>>

\* The process restarts: handlers and the pass are gone, the table and the settings stay.
\* A call that was out may still land.
Crash ==
    /\ Event
    /\ \E arrives \in SUBSET {t \in Tasks : task[t].at = "calling"} :
          LET rows == {task[t].row : t \in arrives} IN
          /\ landed' = [i \in Ids |-> landed[i] \/ i \in rows]
          /\ inPlace' = [c \in Changes |-> inPlace[c] \/ \E i \in rows : change[i] = c]
    /\ interrupted' = interrupted \cup {task[t].row : t \in {u \in Tasks : task[u].at \in {"calling", "landed"}}}
    /\ task' = [t \in Tasks |-> IdleTask]
    /\ pass' = IdlePass
    /\ UNCHANGED <<ledger, now, settings, begun>>

-----------------------------------------------------------------------------
TaskStep(t) ==
    \/ CapsBack(t) \/ CallOrRefuse(t)
    \/ \E ok \in BOOLEAN : PersonIdentified(t, ok)
    \/ AwsApplies(t) \/ ApplyReturns(t) \/ ApplyThrows(t)
    \/ \E a \in {"ok", "no", "pending", "error"} : ReadBack(t, a)
    \/ VerifyReturns(t)
    \/ RevertOrThrow(t) \/ AwsReverts(t) \/ RevertReturns(t) \/ RevertThrows(t)

Click(t) ==
    \E i \in Ids : \/ ClickApply(t, i) \/ ClickAsPerson(t, i) \/ ClickVerify(t, i)
                   \/ ClickRevert(t, i) \/ ClickRevertAsPerson(t, i)

PassStep ==
    \/ \E i \in Ids : PassReadBack(i) \/ PassTakes(i) \/ \E h \in BOOLEAN : PassLeaves(i, h)
    \/ \E k \in Kinds : PassPlanFails(k) \/ \E P \in SUBSET Changes : PassPlan(k, P)
    \/ \E a \in {"yes", "no"} : PassAsksReach(a)
    \/ \E c \in Changes : PassRecord(c)
    \/ PassReadBackDone \/ PassDone \/ PassRecorded \/ PassWaits \/ PassApplies \/ PassCloses

People ==
    \/ \E c \in PageChanges : PersonProposes(c)
    \/ \E i \in Ids, force \in BOOLEAN : Delete(i, force)
    \/ \E m \in Modes : SetMode(m)
    \/ PauseActions \/ ResumeActions \/ SetActuator

Next ==
    \/ \E t \in Tasks : TaskStep(t)
    \/ \E t \in Clicks : Click(t)
    \/ \E b \in PassTriggers : PassStart(b)
    \/ PassStep
    \/ People
    \/ Tick
    \/ Crash

Spec == Init /\ [][Next]_vars

\* Every await settles (SDK calls time out), so a started pass keeps moving.
FairSpec == Spec /\ WF_vars(PassStep \/ TaskStep(PassTask))

-----------------------------------------------------------------------------
(* Properties. *)

\* A change has at most one open row, so a person never sees it twice and a
\* pass never applies it twice (recordProposal's refresh, revive, insert).
OneOpenRow ==
    \A i, j \in Ids :
        status[i] = "proposed" /\ status[j] = "proposed" /\ change[i] = change[j] => i = j

\* A row says applied, verified or reverted only if AWS made its change:
\* whichever handlers overlapped on it, the ledger never claims too much.
AppliedMeansLanded ==
    \A i \in Ids : status[i] \in {"applied", "verified", "reverted"} => landed[i]

\* A change AWS made is not left standing as a mere proposal once its handler
\* has returned, even when closeStale or a second handler wrote the row during
\* the call.  Only a restart while the call was out can do that.
NoLostChange ==
    \A i \in Ids :
        landed[i] /\ status[i] \in {"proposed", "stale"} =>
            \/ \E t \in Tasks : task[t].at = "landed" /\ task[t].row = i
            \/ i \in interrupted

\* The pass applies a row of a module with a grace period only when the row has
\* been open without a break for the whole period: going stale and coming back
\* starts it again (graceLeftMs, recordProposal).
GraceIsContinuous ==
    [][\A i \in Ids :
          task[PassTask].at = "idle" /\ task'[PassTask].at \in {"caps", "creds"} /\ task'[PassTask].row = i
          => openSince[i] + GraceHours[KindOf[change[i]]] <= now]_vars

\* A pass starts at most ACT_MAX_PER_PASS changes over all its modules.
BudgetKept == begun <= ActMaxPerPass

\* Whatever throws in it, a pass ends and lets the next one start (the finally
\* that clears passInFlight): no handler outcome locks the executor up.
PassEnds == pass.phase # "idle" ~> pass.phase = "idle"

\* What the list of actions promises its reader, whatever handlers, passes,
\* deletes and restarts do to the table: the refinement of Ledger.
Entry(i) ==
    IF status[i] \in {"applied", "verified", "reverted"} THEN "done"
    ELSE IF status[i] \in {"failed", "refused"} THEN "tried"
    ELSE status[i]

Kept == INSTANCE Ledger WITH entry <- [i \in Ids |-> Entry(i)], of <- change,
                             made <- landed, next <- nextId

LedgerKept == Kept!Spec
=============================================================================
