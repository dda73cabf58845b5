------------------------------ MODULE Doorman ------------------------------
(***************************************************************************)
(* The doorman (doorman.ts) answers for one parked box: a visit that       *)
(* passes the filter of its profile wakes the box, a browser gets a page   *)
(* that polls, any other request is held until the box is ready.           *)
(*                                                                         *)
(* Requests interleave at their awaits.  Each reads the box (DescribeIns-  *)
(* tances, then the ready check) or takes what another read less than      *)
(* three seconds ago.  At most one wake of a box is being decided          *)
(* (`deciding`); the last one decided is in `wakes`, and for fifteen       *)
(* minutes a visit that finds it neither ready nor failed joins it.  The   *)
(* process forgets all of this in a restart; wake_events and AWS do not.   *)
(*                                                                         *)
(* The start itself is consent.ts manualPower.  Anybody else may start or  *)
(* stop the box at any time: the office hours, a person, the box itself.   *)
(***************************************************************************)
EXTENDS Naturals

CONSTANTS
    Requests,  \* handlers a behaviour has at once
    None,      \* no request
    Cap,       \* max_wakes_per_day of the profile
    MaxEvents  \* bound: stops and starts by others, restarts

ASSUME DoormanAssumption == None \notin Requests /\ Cap \in Nat \ {0} /\ MaxEvents \in Nat

VARIABLES
    box,       \* AWS: the state of the instance; running is "booting" until the app answers, then "ready"
    sleep,     \* history: how often the box has stopped
    events,    \* counted against MaxEvents
    cache,     \* boxCache: what the last read said, "none" when it is older than BOX_TTL_MS or deleted
    wakes,     \* wakes.get(instance): its outcome ("open" until its row in wake_events), ready_at, not yet 15 minutes old
    deciding,  \* deciding.get(instance): the request whose wake is being decided
    wk,        \* startWake of a request: where it waits, what its read saw, the sleep it was to end
    req,       \* the handler of a request: where it waits, what its read saw
    started,   \* wake_events: the 'started' rows, by the sleep they ended
    today,     \* wakesToday
    notes,     \* wake_events: the 'over_cap' rows of today
    marked     \* wake_events: the 'ready' rows of the wake in `wakes`

memory == <<cache, wakes, deciding, wk, req>>
rows == <<started, today, notes, marked>>
aws == <<box, sleep, events>>
vars == <<aws, memory, rows>>

Running == {"booting", "ready"}
Boxes == {"stopped", "pending", "stopping"} \cup Running
\* What a read says, as far as anybody tells its answers apart: the box is ready, it is up (pending, or it does not
\* answer the check), it is stopping, or none of these (stopped, or the read failed).
Reads == {"ready", "up", "stopping", "down"}
\* What of it requests and the cache keep.
Ready(s) == IF s = "ready" THEN "ready" ELSE "asleep"
\* A status poll, or a visit that the filter or the switch keeps from waking; a browser's visit; a call to be held.
Kinds == {"poll", "page", "call"}

WakeType == [outcome : {"none", "open", "up", "error"}, ready : BOOLEAN, young : BOOLEAN]
NoWake == [outcome |-> "none", ready |-> FALSE, young |-> FALSE]
NewWake(outcome) == [outcome |-> outcome, ready |-> FALSE, young |-> TRUE]

StartType == [at : {"idle", "reading", "with", "asking", "starting", "landed"}, saw : Reads \cup {"nothing"}, sleep : Nat]
IdleStart == [at |-> "idle", saw |-> "nothing", sleep |-> 0]

RequestType == [at : {"idle", "reading", "holding"}, saw : {"nothing", "ready", "asleep"}]
IdleRequest == [at |-> "idle", saw |-> "nothing"]

\* `deciding` names the one wake that is under way.
OneDecides == \A r \in Requests : wk[r].at # "idle" <=> deciding = r

TypeOK ==
    /\ box \in Boxes /\ sleep \in Nat /\ sleep <= events /\ events \in 0 .. MaxEvents
    /\ cache \in {"none", "ready", "asleep"}
    /\ wakes \in WakeType
    /\ deciding \in Requests \cup {None}
    /\ wk \in [Requests -> StartType] /\ req \in [Requests -> RequestType]
    /\ OneDecides
    /\ started \in [0 .. MaxEvents -> Nat] /\ today \in Nat /\ notes \in Nat /\ marked \in Nat

Init ==
    /\ box \in Boxes /\ sleep = 0 /\ events = 0
    /\ cache = "none" /\ wakes = NoWake /\ deciding = None
    /\ wk = [r \in Requests |-> IdleStart] /\ req = [r \in Requests |-> IdleRequest]
    /\ started = [n \in 0 .. MaxEvents |-> 0] /\ today = 0 /\ notes = 0 /\ marked = 0

-----------------------------------------------------------------------------
(* What handlers do between two awaits *)

\* Mutant: the wake need not have its row yet.
MarkReady_early ==
    IF wakes.outcome \in {"up", "open"} /\ ~wakes.ready
    THEN wakes' = [wakes EXCEPT !.ready = TRUE] /\ marked' = marked + 1
    ELSE UNCHANGED <<wakes, marked>>

\* markReady: the wake in the map gets its one 'ready' row, if it came to a 'started' or 'already_up' row.
MarkReady ==
    IF wakes.outcome = "up" /\ ~wakes.ready
    THEN wakes' = [wakes EXCEPT !.ready = TRUE] /\ marked' = marked + 1
    ELSE UNCHANGED <<wakes, marked>>

\* Mutant: a wake is joined however old it is.
Joinable_ever == wakes.outcome \in {"open", "up"} /\ ~wakes.ready

\* The first line of startWake: a wake that is neither ready nor failed nor fifteen minutes old is joined.
Joinable == wakes.outcome \in {"open", "up"} /\ ~wakes.ready /\ wakes.young

\* wake: shares the wake being decided, joins the last one, or starts to decide, which begins with a read of the box.
Wake(r) ==
    IF deciding # None \/ Joinable THEN UNCHANGED <<deciding, wk>>
    ELSE deciding' = r /\ wk' = [wk EXCEPT ![r].at = "reading"]

\* handle, once it knows the state of the box: a request to a box that is ready is passed through; a visit to any
\* other wakes it, and a call then waits, beginning with a read of its own.
Handles(r, kind, state) ==
    \/ /\ state = "ready" /\ MarkReady
       /\ req' = [req EXCEPT ![r] = IdleRequest]
       /\ UNCHANGED <<deciding, wk>>
    \/ /\ state # "ready" /\ kind = "poll"
       /\ req' = [req EXCEPT ![r] = IdleRequest]
       /\ UNCHANGED <<deciding, wk, wakes, marked>>
    \/ /\ state # "ready" /\ kind \in {"page", "call"} /\ Wake(r)
       /\ req' = [req EXCEPT ![r] = IF kind = "call" THEN [IdleRequest EXCEPT !.at = "holding"] ELSE IdleRequest]
       /\ UNCHANGED <<wakes, marked>>

\* What a read of the box may say now.
Answers ==
    {"down"} \cup {s \in {"ready"} : box = s} \cup {s \in {"up"} : box \in Running \cup {"pending"}}
             \cup {s \in {"stopping"} : box = s}

-----------------------------------------------------------------------------
(* Requests *)

\* A request for the box finds no fresh word of it and reads it.
Looks(r) ==
    /\ req[r].at = "idle" /\ cache = "none"
    /\ req' = [req EXCEPT ![r].at = "reading"]
    /\ UNCHANGED <<aws, cache, wakes, deciding, wk, rows>>

\* The Start button of the test page, which asks nothing before.
Presses(r) ==
    /\ Wake(r)
    /\ UNCHANGED <<aws, cache, wakes, req, rows>>

\* AWS and the box answer the read of a request; the answer is on its way.
RequestReads(r) ==
    /\ req[r].at \in {"reading", "holding"} /\ req[r].saw = "nothing"
    /\ \E s \in Answers : req' = [req EXCEPT ![r].saw = Ready(s)]
    /\ UNCHANGED <<aws, cache, wakes, deciding, wk, rows>>

\* A request knows the state of the box, from its own read or another's. What kind it is matters from here on.
Knows(r, kind) ==
    /\ \/ req[r].at = "idle" /\ cache # "none" /\ Handles(r, kind, cache) /\ UNCHANGED cache
       \/ req[r].at = "reading" /\ req[r].saw # "nothing" /\ Handles(r, kind, req[r].saw) /\ cache' = req[r].saw
    /\ UNCHANGED <<aws, started, today, notes>>

HoldRead(r) == req[r].at = "holding" /\ req[r].saw # "nothing" /\ cache' = req[r].saw

\* holdUntilReady: the box is ready, the wake in the map has failed, or the hold time is up.
HoldEnds(r) ==
    /\ HoldRead(r)
    /\ IF req[r].saw = "ready" THEN MarkReady ELSE UNCHANGED <<wakes, marked>>
    /\ req' = [req EXCEPT ![r] = IdleRequest]
    /\ UNCHANGED <<aws, deciding, wk, started, today, notes>>

\* Two seconds later it reads again.
HoldGoesOn(r) ==
    /\ HoldRead(r) /\ req[r].saw # "ready" /\ wakes.outcome # "error"
    /\ req' = [req EXCEPT ![r].saw = "nothing"]
    /\ UNCHANGED <<aws, wakes, deciding, wk, rows>>

-----------------------------------------------------------------------------
(* A wake: startWake and, in it, manualPower *)

\* Mutant: the promise stays in the map after a wake that failed.
Finish_keeps(r) ==
    /\ wk' = [wk EXCEPT ![r] = IdleStart]
    /\ deciding' = IF wakes'.outcome = "error" THEN deciding ELSE None

\* The wake is decided, well or not: `finally` takes it out of the map.
Finish(r) == wk' = [wk EXCEPT ![r] = IdleStart] /\ deciding' = None

WakeReads(r) ==
    /\ wk[r].at = "reading" /\ wk[r].saw = "nothing"
    /\ \E s \in Answers : wk' = [wk EXCEPT ![r].saw = s]
    /\ UNCHANGED <<aws, cache, wakes, deciding, req, rows>>

\* A box that is up needs no start, only the row 'already_up'; for any other the wake is entered, still without a row.
WakeReturns(r) ==
    /\ wk[r].at = "reading" /\ wk[r].saw # "nothing"
    /\ cache' = Ready(wk[r].saw)
    /\ marked' = 0
    /\ IF wk[r].saw \in {"ready", "up"}
       THEN wakes' = NewWake("up") /\ Finish(r)
       ELSE wakes' = NewWake("open") /\ wk' = [wk EXCEPT ![r].at = "with"] /\ UNCHANGED deciding
    /\ UNCHANGED <<aws, req, started, today, notes>>

\* The instances to start with it are started, or not; a box on its way down is refused.
WithOthers(r) ==
    /\ wk[r].at = "with"
    /\ IF wk[r].saw = "stopping"
       THEN wakes' = [wakes EXCEPT !.outcome = "error"] /\ Finish(r)
       ELSE wk' = [wk EXCEPT ![r].at = "asking"] /\ UNCHANGED <<wakes, deciding>>
    /\ UNCHANGED <<aws, cache, req, rows>>

\* manualPower reads the box once more and goes on only if it is stopped.
Asks(r) ==
    /\ wk[r].at = "asking" /\ box = "stopped"
    /\ wk' = [wk EXCEPT ![r].at = "starting", ![r].sleep = sleep]
    /\ UNCHANGED <<aws, cache, wakes, deciding, req, rows>>

\* The row is applied: StartInstances, which a running box takes for done.
Lands(r) ==
    /\ wk[r].at = "starting" /\ box # "stopping"
    /\ box' = IF box = "stopped" THEN "pending" ELSE box
    /\ wk' = [wk EXCEPT ![r].at = "landed", ![r].sleep = sleep]
    /\ UNCHANGED <<sleep, events, cache, wakes, deciding, req, rows>>

\* It comes to nothing: not tagged, in a pool, not stopped, AWS refuses, the call lands and the reply is lost, or the
\* row ends failed or refused.
Fails(r) ==
    /\ wk[r].at \in {"asking", "starting", "landed"}
    /\ wakes' = [wakes EXCEPT !.outcome = "error"]
    /\ cache' = "none"
    /\ Finish(r)
    /\ UNCHANGED <<aws, req, rows>>

\* noticeOverCap, right after the 'started' row: one note a day, past the cap.
NoticeOverCap == notes' = IF today + 1 > Cap /\ notes = 0 THEN notes + 1 ELSE notes

Starts(r) ==
    /\ wk[r].at = "landed"
    /\ wakes' = [wakes EXCEPT !.outcome = "up"]
    /\ started' = [started EXCEPT ![wk[r].sleep] = @ + 1]
    /\ today' = today + 1
    /\ NoticeOverCap
    /\ cache' = "none"
    /\ Finish(r)
    /\ UNCHANGED <<aws, req, marked>>

-----------------------------------------------------------------------------
(* The clock, the box and the process *)

\* The cache ages, or a proxied request that the box did not answer drops it.
CacheGoes ==
    /\ cache # "none" /\ cache' = "none"
    /\ UNCHANGED <<aws, wakes, deciding, wk, req, rows>>

\* Fifteen minutes after a wake began.
WakeAges ==
    /\ wakes.young /\ wakes' = [wakes EXCEPT !.young = FALSE]
    /\ UNCHANGED <<aws, cache, deciding, wk, req, rows>>

NewDay ==
    /\ today > 0 /\ today' = 0 /\ notes' = 0
    /\ UNCHANGED <<aws, memory, started, marked>>

BoxMoves ==
    /\ \/ box = "pending" /\ box' = "booting"
       \/ box = "booting" /\ box' = "ready"
       \/ box = "stopping" /\ box' = "stopped"
    /\ UNCHANGED <<sleep, events, memory, rows>>

Event == events < MaxEvents /\ events' = events + 1

\* The executor, a person or the box itself: another sleep begins.
Stops ==
    /\ Event
    /\ box \in Running \cup {"pending"} /\ box' = "stopping" /\ sleep' = sleep + 1
    /\ UNCHANGED <<memory, rows>>

OthersStart ==
    /\ Event
    /\ box = "stopped" /\ box' = "pending"
    /\ UNCHANGED <<sleep, memory, rows>>

Restart ==
    /\ Event
    /\ cache' = "none" /\ wakes' = NoWake /\ deciding' = None
    /\ wk' = [r \in Requests |-> IdleStart] /\ req' = [r \in Requests |-> IdleRequest]
    /\ marked' = 0
    /\ UNCHANGED <<box, sleep, started, today, notes>>

RequestStep(r) ==
    \/ Looks(r) \/ Presses(r) \/ RequestReads(r) \/ HoldEnds(r) \/ HoldGoesOn(r)
    \/ \E kind \in Kinds : Knows(r, kind)
WakeStep(r) == WakeReads(r) \/ WakeReturns(r) \/ WithOthers(r) \/ Asks(r) \/ Lands(r) \/ Fails(r) \/ Starts(r)

Next ==
    \/ \E r \in Requests : RequestStep(r) \/ WakeStep(r)
    \/ CacheGoes \/ WakeAges \/ NewDay \/ BoxMoves \/ Stops \/ OthersStart \/ Restart

\* Browsers keep coming (a box nobody visits sleeps on), calls return, holds end, clocks run, and AWS does not refuse
\* every start for ever.
Fairness ==
    /\ SF_vars(\E r \in Requests : Looks(r)) /\ SF_vars(\E r \in Requests : Knows(r, "page"))
    /\ WF_vars(\E r \in Requests : RequestReads(r)) /\ SF_vars(\E r \in Requests : HoldEnds(r))
    /\ WF_vars(\E r \in Requests : WakeStep(r))
    /\ SF_vars(\E r \in Requests : Asks(r)) /\ SF_vars(\E r \in Requests : Lands(r))
    /\ WF_vars(CacheGoes) /\ WF_vars(WakeAges)
Spec == Init /\ [][Next]_vars
FairSpec == Spec /\ Fairness

-----------------------------------------------------------------------------
(* Properties *)

\* No two 'started' rows are about one sleep of the box, whatever bursts of requests, restarts and starts by others.
StartedOnceASleep == \A n \in 0 .. MaxEvents : started[n] <= 1

\* A wake gets at most one 'ready' row, and none if it failed.
ReadyFollowsWake == marked <= 1 /\ (marked = 1 => wakes.outcome = "up")

\* The day has its over-cap note exactly if it has more wakes than the profile expects.
NotedOnce == notes = IF today > Cap THEN 1 ELSE 0

\* wake_events tells what happened: the cap counts its 'started' rows, the waiting page's estimate its 'ready' rows.
\* (startWake, markReady, noticeOverCap)
EventsAddUp == StartedOnceASleep /\ ReadyFollowsWake /\ NotedOnce

\* While people keep visiting and AWS does not always refuse, a box that has stopped comes up again: no wake that
\* failed, was cut short by a restart or belongs to an earlier sleep keeps the next one from starting. (wake, startWake)
VisitsWakeIt == (box = "stopped") ~> (box # "stopped")
=============================================================================
