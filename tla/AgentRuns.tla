------------------------------ MODULE AgentRuns ------------------------------
(***************************************************************************)
(* The requests the advisor sends to repo2graph's agent and what becomes   *)
(* of the answers (src/src/agent.ts): each flow opens a row of its own     *)
(* (incidents, resolutions, observations, ...), posts a request, and the   *)
(* webhook or a poll hands the answer back to handleAgentResult, which     *)
(* grades it, may send the brief back once, and completes the row.         *)
(* Handlers interleave at their awaits; an answer may arrive late, twice,  *)
(* or before the request is recorded; the process may restart.             *)
(*                                                                         *)
(* The findings batch has no row of its own: its answer is imported as     *)
(* recommendations, so it is not here.                                     *)
(***************************************************************************)
EXTENDS Integers, FiniteSets

CONSTANTS
    Topics,      \* what a row is about: an alert, a recommendation, a day, a box, a thread ...
    KindOf,      \* the flow a topic belongs to
    Dispatches,  \* dispatch handlers that can be in flight together
    MaxRow,      \* bound: rows ever opened
    MaxReq,      \* bound: requests ever posted
    MaxCrash     \* bound: restarts

AllKinds == {"incident", "resolution", "observe", "usage", "pass_report", "playbook",
             "thread_chat", "plan_chat"}

ASSUME AgentRunsAssumption ==
    /\ Topics # {} /\ KindOf \in [Topics -> AllKinds]
    /\ MaxRow \in Nat /\ MaxReq \in Nat /\ MaxCrash \in Nat

VARIABLES
    row,       \* the owner rows
    run,       \* the table agent_runs
    agent,     \* repo2graph: the answer to each request
    dispatch,  \* the process: dispatch handlers
    handler,   \* the process: one handleAgentResult per request
    closed,    \* topics whose rows were deleted (a thread)
    crashes,
    accepted, stranded   \* history: how often an answer was taken; rows a crash or a lost post left pending

history == <<accepted, stranded>>
vars == <<row, run, agent, dispatch, handler, closed, crashes, history>>

Ids == 1 .. MaxRow
Reqs == 1 .. MaxReq
None == 0

\* resolution, pass_report and chat look for a pending row before they wait for
\* credentials, concepts or the session; the others after their last wait.
ChecksEarly == {"resolution", "pass_report", "thread_chat", "plan_chat"}
NeverChecks == {"playbook"}
Forceable == AllKinds \ {"thread_chat", "plan_chat", "playbook"}
\* These refuse when the newest row of the subject is pending, the others when any is.
LooksAtNewest == {"observe", "pass_report"}
\* observe posts outside any try, so a failed post leaves its row pending.
CatchesPost == AllKinds \ {"observe"}
\* The rows gradeAndMaybeRetry points at the retry.
Repointed == {"incident", "resolution", "observe", "playbook", "pass_report"}
Retried == AllKinds \ {"thread_chat", "plan_chat"}
\* The answer is stored after another wait (tier check, Jev's judgement).
StoresLate == {"incident", "playbook"}
\* An answer without the expected object fails the row.
NeedsObject == {"incident", "resolution", "usage", "thread_chat", "plan_chat"}

NoRow == [status |-> "none", topic |-> CHOOSE t \in Topics : TRUE, req |-> None, answer |-> None, forced |-> FALSE]
NoRun == [status |-> "none", kind |-> "observe", topic |-> CHOOSE t \in Topics : TRUE, retryOf |-> None]
IdleDispatch == [at |-> "idle", topic |-> CHOOSE t \in Topics : TRUE, row |-> None, req |-> None, forced |-> FALSE]
IdleHandler == [at |-> "idle", row |-> None, next |-> None]

\* "none": not opened yet; "deleted": gone with its thread.  `answer` is the request
\* whose outcome the row records.
RowType == [status : {"none", "pending", "completed", "failed", "not_applicable", "deleted"},
            topic : Topics, req : Reqs \cup {None}, answer : Reqs \cup {None}, forced : BOOLEAN]
\* "posted": the agent has the request, agent_runs does not have it (yet).
RunType == [status : {"none", "posted", "pending", "completed", "failed"}, kind : AllKinds,
            topic : Topics, retryOf : Reqs \cup {None}]
DispatchType == [at : {"idle", "checked", "opened", "sent"}, topic : Topics,
                 row : Ids \cup {None}, req : Reqs \cup {None}, forced : BOOLEAN]
HandlerType == [at : {"idle", "grading", "retrying", "storing"}, row : Ids \cup {None}, next : Reqs \cup {None}]
Grades == {"good", "weak", "useless"}   \* useless: below the bar and not the expected object
Answers == Grades \cup {"error"}

TypeOK ==
    /\ row \in [Ids -> RowType]
    /\ run \in [Reqs -> RunType]
    /\ agent \in [Reqs -> Answers \cup {"none", "working"}]
    /\ dispatch \in [Dispatches -> DispatchType]
    /\ handler \in [Reqs -> HandlerType]
    /\ \A d \in Dispatches : dispatch[d].at \in {"opened", "sent"} => dispatch[d].row \in Ids
    /\ \A d \in Dispatches : dispatch[d].at = "sent" => dispatch[d].req \in Reqs
    /\ \A q \in Reqs : handler[q].at = "retrying" => handler[q].next \in Reqs
    /\ \A q \in Reqs : handler[q].at = "storing" => handler[q].row \in Ids
    /\ closed \subseteq Topics
    /\ crashes \in 0 .. MaxCrash
    /\ accepted \in [Reqs -> Nat]
    /\ stranded \subseteq Ids

Init ==
    /\ row = [i \in Ids |-> NoRow]
    /\ run = [q \in Reqs |-> NoRun]
    /\ agent = [q \in Reqs |-> "none"]
    /\ dispatch = [d \in Dispatches |-> IdleDispatch]
    /\ handler = [q \in Reqs |-> IdleHandler]
    /\ closed = {} /\ crashes = 0
    /\ accepted = [q \in Reqs |-> 0]
    /\ stranded = {}

-----------------------------------------------------------------------------
(* Rows. *)

IsFirst(n, S) == n \in S /\ \A m \in S : n <= m
IsNewest(n, S) == n \in S /\ \A m \in S : m <= n

RowsOf(t) == {i \in Ids : row[i].status \notin {"none", "deleted"} /\ row[i].topic = t}
InFlight(t) == {i \in RowsOf(t) : row[i].status = "pending"}

\* The pending rows an unforced dispatch stops at.
InTheWay(t) ==
    {i \in InFlight(t) : KindOf[t] \in LooksAtNewest => IsNewest(i, RowsOf(t))}

MayOpen(t, force) ==
    /\ t \notin closed
    /\ force => KindOf[t] \in Forceable
    /\ InTheWay(t) = {} \/ force \/ KindOf[t] \in NeverChecks

\* A thread's rows are looked for among every thread that is not a recommendation's.
\* Mutant: the newest pending row of the flow, whatever its subject.
Siblings_anySubject(t) == {u \in Topics : KindOf[u] = KindOf[t]}

Siblings(t) == IF KindOf[t] = "thread_chat" THEN {u \in Topics : KindOf[u] = "thread_chat"} ELSE {t}

FallsBack == {"incident", "resolution", "thread_chat", "plan_chat"}

\* The row an answer to q belongs to, in the rows R: by request id, else the newest
\* pending one of the subject for the flows that fall back.  Looked for in the table
\* of the request's own flow only.
OwnersOf(R, q) ==
    LET mine == {i \in Ids : R[i].status # "deleted" /\ R[i].req = q /\ KindOf[R[i].topic] = run[q].kind}
        late == {i \in Ids : R[i].status = "pending" /\ R[i].topic \in Siblings(run[q].topic)}
    IN  IF mine # {} THEN {i \in mine : IsNewest(i, mine)}
        ELSE IF run[q].kind \in FallsBack THEN {i \in late : IsNewest(i, late)} ELSE {}

Stored(R, S, q, s) ==
    [i \in Ids |-> IF i \in S /\ R[i].status # "deleted" THEN [R[i] EXCEPT !.status = s, !.answer = q] ELSE R[i]]

\* Mutant: the row keeps following the first request.
FollowRetry_never(q, next) == row

\* The owning row follows the retry and is pending again.
FollowRetry(q, next) ==
    [i \in Ids |-> IF row[i].status # "deleted" /\ row[i].req = q /\ KindOf[row[i].topic] \in Repointed
                   THEN [row[i] EXCEPT !.req = next, !.status = "pending"] ELSE row[i]]

-----------------------------------------------------------------------------
(* A dispatch: investigateAlert, resolveRecommendation, dispatchObservation, *)
(* investigateUsage, narratePass, generatePlaybooks, ask.                    *)

Open(d, t, force) ==
    \E i \in Ids :
        /\ IsFirst(i, {j \in Ids : row[j].status = "none"})
        /\ row' = [row EXCEPT ![i] = [NoRow EXCEPT !.status = "pending", !.topic = t, !.forced = force]]
        /\ dispatch' = [dispatch EXCEPT ![d] = [IdleDispatch EXCEPT !.at = "opened", !.topic = t, !.row = i]]

\* The early check passed; the row is inserted after the waits.
Check(d, t, force) ==
    /\ dispatch[d].at = "idle" /\ KindOf[t] \in ChecksEarly
    /\ MayOpen(t, force)
    /\ dispatch' = [dispatch EXCEPT ![d] = [IdleDispatch EXCEPT !.at = "checked", !.topic = t, !.forced = force]]
    /\ UNCHANGED <<row, run, agent, handler, closed, crashes, history>>

\* Credentials may not work any more, and a deleted thread takes no message.
OpenChecked(d) ==
    /\ dispatch[d].at = "checked"
    /\ \/ dispatch' = [dispatch EXCEPT ![d] = IdleDispatch] /\ UNCHANGED row
       \/ dispatch[d].topic \notin closed /\ Open(d, dispatch[d].topic, dispatch[d].forced)
    /\ UNCHANGED <<run, agent, handler, closed, crashes, history>>

\* Mutant: the pending check made before the wait for credentials.
CheckAndOpen_noCheck(d, t, force) ==
    /\ dispatch[d].at = "idle" /\ KindOf[t] \notin ChecksEarly
    /\ force => KindOf[t] \in Forceable
    /\ Open(d, t, force)
    /\ UNCHANGED <<run, agent, handler, closed, crashes, history>>

\* The waits over, check and insert are one step.
CheckAndOpen(d, t, force) ==
    /\ dispatch[d].at = "idle" /\ KindOf[t] \notin ChecksEarly
    /\ MayOpen(t, force)
    /\ Open(d, t, force)
    /\ UNCHANGED <<run, agent, handler, closed, crashes, history>>

\* Jev's gate closes a resolution before anything is posted.
GateCloses(d) ==
    /\ dispatch[d].at = "opened" /\ KindOf[dispatch[d].topic] = "resolution"
    /\ row' = [row EXCEPT ![dispatch[d].row].status = "not_applicable"]
    /\ dispatch' = [dispatch EXCEPT ![d] = IdleDispatch]
    /\ UNCHANGED <<run, agent, handler, closed, crashes, history>>

\* repo2graph takes a request and starts on it.
Post(q, k, t, of) ==
    /\ IsFirst(q, {p \in Reqs : run[p].status = "none"})
    /\ run' = [run EXCEPT ![q] = [status |-> "posted", kind |-> k, topic |-> t, retryOf |-> of]]
    /\ agent' = [agent EXCEPT ![q] = "working"]

Send(d, q) ==
    /\ dispatch[d].at = "opened"
    /\ Post(q, KindOf[dispatch[d].topic], dispatch[d].topic, None)
    /\ dispatch' = [dispatch EXCEPT ![d].at = "sent", ![d].req = q]
    /\ UNCHANGED <<row, handler, closed, crashes, history>>

\* repo2graph's reply is here: the run is recorded and the row gets its request id.
Accepted(d) ==
    LET q == dispatch[d].req IN
    /\ dispatch[d].at = "sent"
    /\ run' = [run EXCEPT ![q].status = "pending"]
    /\ row' = [row EXCEPT ![dispatch[d].row].req = q]
    /\ dispatch' = [dispatch EXCEPT ![d] = IdleDispatch]
    /\ UNCHANGED <<agent, handler, closed, crashes, history>>

\* Mutant: no flow catches a post that failed.
Refused_uncaught(d) ==
    /\ dispatch[d].at \in {"opened", "sent"}
    /\ dispatch' = [dispatch EXCEPT ![d] = IdleDispatch]
    /\ stranded' = stranded \cup (IF KindOf[dispatch[d].topic] \in CatchesPost THEN {} ELSE {dispatch[d].row})
    /\ UNCHANGED <<row, run, agent, handler, closed, crashes, accepted>>

\* Over quota, unreachable, an error status, a reply lost on its way.
Refused(d) ==
    LET i == dispatch[d].row  caught == KindOf[dispatch[d].topic] \in CatchesPost IN
    /\ dispatch[d].at \in {"opened", "sent"}
    /\ dispatch' = [dispatch EXCEPT ![d] = IdleDispatch]
    /\ row' = IF caught /\ row[i].status # "deleted" THEN [row EXCEPT ![i].status = "failed"] ELSE row
    /\ stranded' = IF caught THEN stranded ELSE stranded \cup {i}
    /\ UNCHANGED <<run, agent, handler, closed, crashes, accepted>>

-----------------------------------------------------------------------------
(* handleAgentResult *)

\* repo2graph finishes.
Answer(q, a) ==
    /\ agent[q] = "working"
    /\ agent' = [agent EXCEPT ![q] = a]
    /\ UNCHANGED <<row, run, dispatch, handler, closed, crashes, history>>

\* Mutant: the run's status is written after the grade.
Receive_gradesFirst(q) ==
    /\ run[q].status = "pending" /\ agent[q] \in Answers
    /\ accepted' = [accepted EXCEPT ![q] = @ + 1]
    /\ handler' = [handler EXCEPT ![q] = [IdleHandler EXCEPT !.at = "grading"]]
    /\ UNCHANGED <<row, run, agent, dispatch, closed, crashes, stranded>>

\* The webhook or a poll brings the answer, at any time and any number of times.  One
\* for a run that is not recorded, or not pending any more, throws and changes nothing.
Receive(q) ==
    /\ run[q].status = "pending" /\ agent[q] \in Answers
    /\ accepted' = [accepted EXCEPT ![q] = @ + 1]
    /\ IF agent[q] = "error"
       THEN /\ run' = [run EXCEPT ![q].status = "failed"]
            /\ row' = Stored(row, OwnersOf(row, q), q, "failed")
            /\ UNCHANGED handler
       ELSE /\ run' = [run EXCEPT ![q].status = "completed"]
            /\ handler' = [handler EXCEPT ![q] = [IdleHandler EXCEPT !.at = "grading"]]
            /\ UNCHANGED row
    /\ UNCHANGED <<agent, dispatch, closed, crashes, stranded>>

\* complete<Flow>, on the rows R: stored at once, or after another wait on the row picked now.
Complete(q, R) ==
    LET owners == OwnersOf(R, q)
        object == agent[q] # "useless" \/ run[q].kind \notin NeedsObject
    IN  IF run[q].kind \in StoresLate /\ object
        THEN /\ row' = R
             /\ \/ owners = {} /\ handler' = [handler EXCEPT ![q] = IdleHandler]
                \/ \E i \in owners : handler' = [handler EXCEPT ![q] = [at |-> "storing", row |-> i, next |-> None]]
        ELSE /\ row' = Stored(R, owners, q, IF object THEN "completed" ELSE "failed")
             /\ handler' = [handler EXCEPT ![q] = IdleHandler]

\* Mutant: a retry's answer is retried too.
Retries_always(q) == agent[q] # "good" /\ run[q].kind \in Retried

\* Below the bar, a flow that retries, and not a retry itself.
Retries(q) == agent[q] # "good" /\ run[q].kind \in Retried /\ run[q].retryOf = None

GradedWell(q) ==
    /\ handler[q].at = "grading" /\ ~Retries(q)
    /\ Complete(q, row)
    /\ UNCHANGED <<run, agent, dispatch, closed, crashes, history>>

\* Mutant: the handler does not keep the retry's request id.
SendRetry_forgets(q, next) ==
    /\ handler[q].at = "grading" /\ Retries(q)
    /\ Post(next, run[q].kind, run[q].topic, q)
    /\ handler' = [handler EXCEPT ![q].at = "retrying"]
    /\ UNCHANGED <<row, dispatch, closed, crashes, history>>

\* The brief goes back with the critique.  A usage run has no link of its own in
\* gradeAndMaybeRetry: its retry is posted as an observation's.
SendRetry(q, next) ==
    /\ handler[q].at = "grading" /\ Retries(q)
    /\ Post(next, IF run[q].kind = "usage" THEN "observe" ELSE run[q].kind, run[q].topic, q)
    /\ handler' = [handler EXCEPT ![q].at = "retrying", ![q].next = next]
    /\ UNCHANGED <<row, dispatch, closed, crashes, history>>

\* Recorded; the row follows the retry, and then the first answer is completed.
RetryAccepted(q) ==
    /\ handler[q].at = "retrying"
    /\ run' = [run EXCEPT ![handler[q].next].status = "pending"]
    /\ Complete(q, FollowRetry(q, handler[q].next))
    /\ UNCHANGED <<agent, dispatch, closed, crashes, history>>

\* Over quota, or the post failed: the weak answer stands.
RetryNotSent(q) ==
    /\ \/ handler[q].at = "grading" /\ Retries(q)
       \/ handler[q].at = "retrying"
    /\ Complete(q, row)
    /\ UNCHANGED <<run, agent, dispatch, closed, crashes, history>>

\* The tier check or the judgement is back: written on the row picked before it.
StoreLate(q) ==
    /\ handler[q].at = "storing"
    /\ row' = Stored(row, {handler[q].row}, q, "completed")
    /\ handler' = [handler EXCEPT ![q] = IdleHandler]
    /\ UNCHANGED <<run, agent, dispatch, closed, crashes, history>>

-----------------------------------------------------------------------------
(* Threads and the process. *)

\* deleteThread, and deleteActions for a row's thread: the messages cascade.
DeleteThread(t) ==
    /\ KindOf[t] = "thread_chat" /\ t \notin closed
    /\ closed' = closed \cup {t}
    /\ row' = [i \in Ids |-> IF row[i].topic = t /\ row[i].status # "none"
                            THEN [row[i] EXCEPT !.status = "deleted"] ELSE row[i]]
    /\ UNCHANGED <<run, agent, dispatch, handler, crashes, history>>

\* The process restarts: handlers are gone, the tables and repo2graph's work stay.
Crash ==
    /\ crashes < MaxCrash /\ crashes' = crashes + 1
    /\ dispatch' = [d \in Dispatches |-> IdleDispatch]
    /\ handler' = [q \in Reqs |-> IdleHandler]
    /\ stranded' = stranded \cup {dispatch[d].row : d \in {e \in Dispatches : dispatch[e].at \in {"opened", "sent"}}}
                             \cup {i \in Ids : row[i].req # None /\ handler[row[i].req].at # "idle"}
    /\ UNCHANGED <<row, run, agent, closed, accepted>>

Next ==
    \/ \E d \in Dispatches :
          \/ \E t \in Topics, force \in BOOLEAN : Check(d, t, force) \/ CheckAndOpen(d, t, force)
          \/ OpenChecked(d) \/ GateCloses(d) \/ Accepted(d) \/ Refused(d)
          \/ \E q \in Reqs : Send(d, q)
    \/ \E q \in Reqs :
          \/ \E a \in Answers : Answer(q, a)
          \/ Receive(q) \/ GradedWell(q) \/ RetryAccepted(q) \/ RetryNotSent(q) \/ StoreLate(q)
          \/ \E next \in Reqs : SendRetry(q, next)
    \/ \E t \in Topics : DeleteThread(t)
    \/ Crash

Spec == Init /\ [][Next]_vars

-----------------------------------------------------------------------------
(* Properties. *)

\* "A webhook result is accepted once per dispatch" (README.md): replays, polls and
\* a webhook that comes while the first is being graded change nothing.
AcceptedOnce == \A q \in Reqs : accepted[q] <= 1

\* "A weak answer gets one concrete second chance" (README.md): no request is
\* retried twice and a retry is not retried (gradeAndMaybeRetry).
OneSecondChance ==
    \A p, q \in Reqs :
        run[q].retryOf # None =>
            /\ run[run[q].retryOf].retryOf = None
            /\ run[p].retryOf = run[q].retryOf => p = q

\* A pending row is never abandoned: its post is under way, its answer can still
\* come or be polled, or a handler is working on it.  Left out are rows whose
\* handler a restart killed and the observation whose post failed.
PendingIsTracked ==
    \A i \in Ids :
        row[i].status = "pending" =>
            \/ \E d \in Dispatches : dispatch[d].at \in {"opened", "sent"} /\ dispatch[d].row = i
            \/ row[i].req # None /\ (run[row[i].req].status = "pending" \/ handler[row[i].req].at # "idle")
            \/ i \in stranded

\* Threads share one fallback: its query joins no thread (chat.ts), so for an answer
\* any thread is the subject of any other.
SameSubject(q, t) ==
    \/ run[q].topic = t
    \/ KindOf[run[q].topic] = "thread_chat" /\ KindOf[t] = "thread_chat"

\* An answer is recorded on one row at most, of the subject it was asked about, the
\* fallback to the newest pending row included: two rows are never completed with the
\* same result, whoever else picks rows meanwhile (complete<Flow>).
AnswersOwnSubject ==
    \A i \in Ids : row[i].answer # None =>
        /\ SameSubject(row[i].answer, row[i].topic)
        /\ \A j \in Ids : row[j].answer = row[i].answer => i = j

\* The tier check of an answer of another request holds row i.
HeldByTierCheck(i) ==
    \E p \in Reqs :
        /\ handler[p].at = "storing" /\ handler[p].row = i
        /\ row[i].req # p /\ run[p].kind \in FallsBack

\* "The retry's answer replaces the first on the observation, incident or
\* resolution it belongs to" (README.md): when the handler of a retry's answer
\* returns, the row that follows the retry records it, and no later step takes it off
\* the row, be it the first answer's own completion, a late webhook or a forced
\* dispatch.  The code breaks that for an incident: an answer that found the row by the
\* fallback and still waits for its tier check writes over the retry's
\* (completeIncident), so the second part is about every other change.  A usage row
\* never follows its retry (gradeAndMaybeRetry) and is left out.
RetryAnswerLands ==
    [][\A q \in Reqs :
          run[q].retryOf # None /\ KindOf[run[q].topic] \in Repointed =>
             /\ handler[q].at # "idle" /\ handler'[q].at = "idle" /\ crashes' = crashes
                   => \E i \in Ids : row'[i].req = q /\ row'[i].answer = q
             /\ \A i \in Ids :
                   row[i].req = q /\ row[i].answer = q => row'[i] = row[i] \/ HeldByTierCheck(i)]_vars

\* Where at most one unforced row is in flight: a usage investigation always, an
\* incident or an observation until one of its subject was forced.  A forced second
\* investigation may take the first's answer by the fallback, and the row the first then
\* leaves is made pending again by its retry (agent.ts, investigate.ts); a forced
\* observation that is completed hides the pending one before it (observe.ts).
Single(t) ==
    /\ KindOf[t] \notin ChecksEarly \cup NeverChecks
    /\ KindOf[t] \in FallsBack \cup LooksAtNewest => \A i \in Ids : row[i].topic = t => ~row[i].forced

\* An alert, a day or a box has one row in flight unless one was forced: "refuses while
\* an earlier investigation of the same alert is pending" (investigate.ts), and the
\* same in observe.ts and usage_agent.ts, whoever else dispatches meanwhile.
OneInFlight == \A t \in Topics : Single(t) => Cardinality({i \in InFlight(t) : ~row[i].forced}) <= 1
=============================================================================
