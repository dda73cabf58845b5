---------------------------- MODULE StagedAction ----------------------------
(***************************************************************************)
(* A staged change: one ledger row of src/src/actions/                     *)
(* ec2_hibernate_migrate.ts, the module with `advance`, moved stage by     *)
(* stage by src/src/executor.ts (advanceAction, driveInBackground,         *)
(* stepAction, revertAction).  A box is relaunched from an image of        *)
(* itself and its addresses follow.  Three handlers may walk the row: the  *)
(* driver, the pass and a person's request; each works on the facts it     *)
(* read when it began and writes them back whole.                          *)
(***************************************************************************)
EXTENDS Integers, FiniteSets

CONSTANTS
    Walkers,    \* who calls advanceAction: "driver", "pass"
    Addresses,  \* the Elastic IP, DNS zones and target groups of the box
    Groups,     \* what the row records as moved: facts.moved.eip, .dns, .targets
    GroupOf,    \* each address's group
    MaxWarm,    \* bound: warm images ever made, one per apply
    MaxFinal,   \* bound: final images ever made
    MaxBox,     \* bound: boxes ever launched
    MaxBusy,    \* bound: handlers on the row at once
    MaxEvents   \* bound: settings changed, rows deleted, restarts, images beyond the first of a kind

ASSUME StagedAssumption ==
    /\ Walkers \subseteq {"driver", "pass"}
    /\ GroupOf \in [Addresses -> Groups]
    /\ MaxWarm \in Nat /\ MaxFinal \in Nat /\ MaxBox \in Nat
    /\ MaxBusy \in Nat /\ MaxEvents \in Nat

VARIABLES
    status, facts,      \* the row: actions.status, actions.facts_json
    old,                \* EC2: the old box
    image, box,         \* EC2: images; boxes launched, each with the image its client token names
    home,               \* where each address leads
    halted,             \* auto-actions are paused, or off (off refuses a revert too, a pause does not)
    advancing, driving, \* the process: the sets of those names, for this row
    task,               \* the process: handlers on the row
    events,             \* counted against MaxEvents
    asked,              \* history: a person clicked Cut over
    torn,               \* history: a final image was taken of a box that ran, and not because of a revert
    undone              \* history: a revert started the old box again

row == <<status, facts>>
cloud == <<old, image, box, home>>
process == <<advancing, driving, task>>
history == <<asked, torn, undone>>
vars == <<row, cloud, halted, process, events, history>>

Warms == 1 .. MaxWarm                        \* images of the running box, made by apply
Finals == MaxWarm + 1 .. MaxWarm + MaxFinal  \* ... and those meant to be of the stopped box
Images == Warms \cup Finals
Boxes == 1 .. MaxBox
None == 0
Tasks == Walkers \cup {"page"}
Stages == {"none", "warm_image", "awaiting_cutover", "stopping_old", "final_image", "launching", "done", "reverted"}

Facts == [live : BOOLEAN, wasRunning : BOOLEAN, stage : Stages, warm : Images \cup {None},
          final : Images \cup {None}, box : Boxes \cup {None}, moved : SUBSET Groups, offers : BOOLEAN]

\* "staging" has the stage's reads ahead of it, "acting" has them behind it and its calls ahead.
\* `f` is p.facts, `got` the id AWS returned, `did` the addresses this call has moved.
Places == {"idle", "applying", "begun", "creds", "staging", "acting", "landed", "reading",
           "stepping", "stepped", "looking", "starting", "undoing"}
TaskType == [at : Places, f : Facts, got : Nat, did : SUBSET Addresses]

\* A stage has what the stages before it made.
StageHasIds(f) ==
    /\ f.stage = "warm_image" => f.warm \in Images
    /\ f.stage = "final_image" => f.final \in Images
    /\ f.stage = "launching" => f.box \in Boxes

TypeOK ==
    /\ status \in {"none", "proposed", "refused", "applied", "verified", "failed", "reverted"}
    /\ facts \in Facts /\ StageHasIds(facts)
    /\ old \in {"running", "stopping", "stopped"}
    /\ image \in [Images -> {"none", "pending", "available"}]
    /\ box \in [Boxes -> [state : {"none", "pending", "ok", "stopped"}, token : Images \cup {None}]]
    /\ home \in [Addresses -> Boxes \cup {None}]     \* None is the old box
    /\ halted \in BOOLEAN /\ advancing \in BOOLEAN /\ driving \in BOOLEAN
    /\ task \in [Tasks -> TaskType]
    /\ \A t \in Tasks : StageHasIds(task[t].f)
    /\ events \in 0 .. MaxEvents
    /\ asked \in BOOLEAN /\ torn \in BOOLEAN /\ undone \in BOOLEAN

Proposed(live, running) ==
    [live |-> live, wasRunning |-> running, stage |-> "none", warm |-> None, final |-> None, box |-> None,
     moved |-> {}, offers |-> FALSE]
IdleTask == [at |-> "idle", f |-> Proposed(TRUE, TRUE), got |-> None, did |-> {}]

\* A proposed row: live needs the box running, stop takes it either way.
Init ==
    \E live \in BOOLEAN, running \in BOOLEAN :
    /\ live => running
    /\ status = "proposed" /\ facts = Proposed(live, running)
    /\ old = IF running THEN "running" ELSE "stopped"
    /\ image = [i \in Images |-> "none"]
    /\ box = [b \in Boxes |-> [state |-> "none", token |-> None]]
    /\ home = [a \in Addresses |-> None]
    /\ halted = FALSE /\ advancing = FALSE /\ driving = FALSE
    /\ task = [t \in Tasks |-> IdleTask]
    /\ events = 0 /\ asked = FALSE /\ torn = FALSE /\ undone = FALSE

Event == events < MaxEvents /\ events' = events + 1
Exists == status # "none"
\* `update actions set facts_json = ... where id = ?`: a deleted row stays deleted.
Write(s, f) == status' = (IF Exists THEN s ELSE status) /\ facts' = (IF Exists THEN f ELSE facts)

Go(t, at) == task' = [task EXCEPT ![t].at = at]
Enter(t, at) ==
    /\ Cardinality({u \in Tasks : task[u].at # "idle"}) < MaxBusy
    /\ task' = [task EXCEPT ![t] = [IdleTask EXCEPT !.at = at, !.f = facts]]
Return(t) == task' = [task EXCEPT ![t] = IdleTask]

\* EC2 makes the next image of the old box, as it is: CreateImage is called with NoReboot.
MakeImage(ids, i) ==
    /\ i \in ids /\ image[i] = "none" /\ \A j \in ids : j < i => image[j] # "none"
    /\ image' = [image EXCEPT ![i] = "pending"]
    /\ IF \E j \in ids : image[j] # "none" THEN Event ELSE UNCHANGED events

\* Mutant: RunInstances without a client token.
Launch_noToken(b, i) ==
    /\ b \in Boxes /\ box[b].state = "none" /\ \A c \in Boxes : c < b => box[c].state # "none"
    /\ box' = [box EXCEPT ![b] = [state |-> "pending", token |-> i]]

\* RunInstances under the token of image i: the box it launched before, or a new one.
Launch(b, i) ==
    \/ b \in Boxes /\ box[b].token = i /\ UNCHANGED box
    \/ /\ \A c \in Boxes : box[c].token # i
       /\ b \in Boxes /\ box[b].state = "none" /\ \A c \in Boxes : c < b => box[c].state # "none"
       /\ box' = [box EXCEPT ![b] = [state |-> "pending", token |-> i]]

-----------------------------------------------------------------------------
(* applyAction and the module's apply, from the page and from the pass *)

Appliers == Tasks \ {"driver"}

\* The row is looked at here, and not again before it is written.
ClickApply(t) ==
    /\ task[t].at = "idle" /\ status = "proposed" /\ ~halted
    /\ Enter(t, "applying")
    /\ UNCHANGED <<row, cloud, halted, advancing, driving, events, history>>

\* No credentials, or the pass held after too many failures: refused. The pass's pre-flight may instead find a
\* right missing and throw, and the row stays as it is; a person's click has no pre-flight.
ApplyRefuses(t) ==
    /\ task[t].at = "applying"
    /\ \E s \in {"refused"} \cup (IF t = "pass" THEN {status} ELSE {}) : Write(s, facts)
    /\ Return(t)
    /\ UNCHANGED <<cloud, halted, advancing, driving, events, history>>

\* Mutant: the box is stopped whatever the mode.
ApplyLands_alwaysStops(t) ==
    /\ task[t].at = "applying"
    /\ old' = IF old = "running" THEN "stopping" ELSE old
    /\ \E i \in Warms : MakeImage(Warms, i) /\ task' = [task EXCEPT ![t].at = "begun", ![t].got = i]
    /\ UNCHANGED <<row, home, box, halted, advancing, driving, history>>

\* live: an image of the running box; stop: the box is stopped.
ApplyLands(t) ==
    LET f == task[t].f IN
    /\ task[t].at = "applying"
    /\ IF f.live
       THEN /\ \E i \in Warms : MakeImage(Warms, i) /\ task' = [task EXCEPT ![t].at = "begun", ![t].got = i]
            /\ UNCHANGED old
       ELSE /\ old' = IF f.wasRunning /\ old = "running" THEN "stopping" ELSE old
            /\ Go(t, "begun") /\ UNCHANGED <<image, events>>
    /\ UNCHANGED <<row, home, box, halted, advancing, driving, history>>

\* The row is applied, whatever it has become meanwhile, and the driver follows it.
ApplyReturns(t) ==
    LET f == task[t].f IN
    /\ task[t].at = "begun"
    /\ Write("applied", IF f.live THEN [f EXCEPT !.warm = task[t].got, !.stage = "warm_image"]
                                  ELSE [f EXCEPT !.stage = "stopping_old"])
    /\ driving' = TRUE
    /\ Return(t)
    /\ UNCHANGED <<cloud, halted, advancing, events, history>>

\* The facts are not saved: a row whose reply was lost has no stage.
ApplyThrows(t) ==
    /\ task[t].at \in {"applying", "begun"}
    /\ Write("failed", facts)
    /\ Return(t)
    /\ UNCHANGED <<cloud, halted, advancing, driving, events, history>>

Apply(t) == ApplyRefuses(t) \/ ApplyLands(t) \/ ApplyReturns(t) \/ ApplyThrows(t)

-----------------------------------------------------------------------------
(* advanceAction, called by the driver and by every pass *)

\* advanceAction returned: `wait` false ends the driver, true lets the pass start it.
Answers(t, wait) ==
    /\ Return(t)
    /\ driving' = IF t = "driver" THEN driving /\ wait ELSE driving \/ wait

\* Read before the credentials are waited for; `advancing` is looked at here and set after.
AdvanceStarts(t) ==
    /\ task[t].at = "idle"
    /\ t = "driver" => driving
    /\ status = "applied" /\ ~halted /\ ~advancing
    /\ Enter(t, "creds")
    /\ UNCHANGED <<row, cloud, halted, advancing, driving, events, history>>

\* Nothing to advance, or the six hours are over.
DriverStops ==
    /\ task["driver"].at = "idle" /\ driving
    /\ driving' = FALSE
    /\ UNCHANGED <<row, cloud, halted, advancing, task, events, history>>

CredsBack(t) ==
    /\ task[t].at = "creds"
    /\ advancing' = TRUE
    /\ Go(t, "staging")
    /\ UNCHANGED <<row, cloud, halted, driving, events, history>>

NoCreds(t) ==
    /\ task[t].at = "creds"
    /\ Answers(t, FALSE)
    /\ UNCHANGED <<row, cloud, halted, advancing, events, history>>

\* Mutant: the finally is missing.
Release_never == UNCHANGED advancing

Release == advancing' = FALSE

Waiting == {"warm_image", "stopping_old", "final_image", "launching"}   \* stages whose wait_ms is not null

\* recordStage: the facts this call read, with what it did, replace the row's.
RecordStage(t, f) ==
    /\ Write(status, f)
    /\ IF f.stage = "done" /\ status = "applied"
       THEN task' = [task EXCEPT ![t] = [IdleTask EXCEPT !.at = "reading", !.f = f]] /\ UNCHANGED <<advancing, driving>>
       ELSE Release /\ Answers(t, f.stage \in Waiting)

\* What EC2 must say for the stage to go on; while it does not, the row waits.
NotYet(f) ==
    \/ f.stage = "warm_image" /\ image[f.warm] = "pending"
    \/ f.stage = "stopping_old" /\ old = "stopping"
    \/ f.stage = "final_image" /\ image[f.final] = "pending"
    \/ f.stage = "launching" /\ box[f.box].state = "pending"

\* A stage that makes no change: it waits, or has nothing to do, or asks a person.
StageLooks(t) ==
    LET f == task[t].f IN
    /\ task[t].at = "staging"
    /\ \/ NotYet(f) /\ RecordStage(t, f)
       \/ f.stage \in {"awaiting_cutover", "done", "reverted"} /\ RecordStage(t, f)
       \/ /\ f.stage = "warm_image" /\ image[f.warm] = "available"
          /\ RecordStage(t, [f EXCEPT !.stage = "awaiting_cutover", !.offers = TRUE])
    /\ UNCHANGED <<cloud, halted, events, history>>

\* What EC2 must say for the stage to make its calls.
Ready(f) ==
    \/ f.stage = "stopping_old" /\ old = "stopped"
    \/ f.stage = "final_image" /\ image[f.final] = "available"
    \/ f.stage = "launching" /\ box[f.box].state = "ok"

\* It is read once: a revert, which does not take `advancing`, can start the old box or stop the new one after it.
StageGoes(t) ==
    /\ task[t].at = "staging" /\ Ready(task[t].f)
    /\ Go(t, "acting")
    /\ UNCHANGED <<row, cloud, halted, advancing, driving, events, history>>

\* CreateImage or RunInstances is done; the reply is on its way.
StageLands(t) ==
    LET f == task[t].f IN
    /\ task[t].at = "acting"
    /\ \/ /\ f.stage = "stopping_old"
          /\ \E i \in Finals :
                /\ MakeImage(Finals, i)
                /\ task' = [task EXCEPT ![t].at = "landed", ![t].got = i]
          /\ torn' = (torn \/ (old # "stopped" /\ ~undone))
          /\ UNCHANGED box
       \/ /\ f.stage = "final_image"
          /\ \E b \in Boxes : Launch(b, f.final) /\ task' = [task EXCEPT ![t].at = "landed", ![t].got = b]
          /\ UNCHANGED <<image, torn, events>>
    /\ UNCHANGED <<row, old, home, halted, advancing, driving, asked, undone>>

\* Mutant: the new stage is set before the id is known, so a lost reply saves it.
StageThrows_stageSet(t) ==
    LET f == task[t].f IN
    /\ task[t].at \in {"staging", "acting", "landed"}
    /\ Write("failed", IF f.stage = "final_image" /\ task[t].at = "landed" THEN [f EXCEPT !.stage = "launching"] ELSE f)
    /\ Release /\ Answers(t, FALSE)
    /\ UNCHANGED <<cloud, halted, events, history>>

StageReturns(t) ==
    LET f == task[t].f IN
    /\ task[t].at = "landed"
    /\ RecordStage(t, IF f.stage = "stopping_old" THEN [f EXCEPT !.final = task[t].got, !.stage = "final_image"]
                                                  ELSE [f EXCEPT !.box = task[t].got, !.stage = "launching"])
    /\ UNCHANGED <<cloud, halted, events, history>>

\* The new box passed its checks: its addresses follow one call at a time ...
MovesAddress(t, a) ==
    LET f == task[t].f IN
    /\ task[t].at = "acting" /\ f.stage = "launching"
    /\ GroupOf[a] \notin f.moved /\ a \notin task[t].did
    /\ home' = [home EXCEPT ![a] = f.box]
    /\ task' = [task EXCEPT ![t].did = @ \cup {a}]
    /\ UNCHANGED <<row, old, image, box, halted, advancing, driving, events, history>>

\* ... a group is noted as moved when its last call is back, and the last group ends the stage.
MovedAll(t) ==
    LET f == task[t].f IN
    /\ task[t].at = "acting" /\ f.stage = "launching"
    /\ {a \in Addresses : GroupOf[a] \notin f.moved} \subseteq task[t].did
    /\ RecordStage(t, [f EXCEPT !.moved = Groups, !.stage = "done", !.offers = FALSE])
    /\ UNCHANGED <<cloud, halted, events, history>>

\* The groups whose every call came back.
MovedGroups(t) == task[t].f.moved \cup {g \in Groups : \A a \in Addresses : GroupOf[a] = g => a \in task[t].did}

\* The address moved and the reply was lost: its group is not noted.
MoveUnanswered(t, a) ==
    LET f == task[t].f IN
    /\ task[t].at = "acting" /\ f.stage = "launching"
    /\ GroupOf[a] \notin f.moved /\ a \notin task[t].did
    /\ home' = [home EXCEPT ![a] = f.box]
    /\ Write("failed", [f EXCEPT !.moved = MovedGroups(t)])
    /\ Release /\ Answers(t, FALSE)
    /\ UNCHANGED <<old, image, box, halted, events, history>>

\* A call failed, its reply was lost, the image failed, the box did not come up, somebody
\* started the old box: no stage goes on from there.
StageThrows(t) ==
    /\ task[t].at \in {"staging", "acting", "landed"}
    /\ Write("failed", [task[t].f EXCEPT !.moved = IF task[t].f.stage = "launching" THEN MovedGroups(t) ELSE @])
    /\ Release /\ Answers(t, FALSE)
    /\ UNCHANGED <<cloud, halted, events, history>>

-----------------------------------------------------------------------------
(* verifyAction after the last stage; from the page it is as in Executor *)

\* On an error the status stays.
VerifyReturns(t, s) ==
    /\ task[t].at = "reading"
    /\ Write(s, facts)
    /\ Release /\ Answers(t, FALSE)
    /\ UNCHANGED <<cloud, halted, events, history>>

-----------------------------------------------------------------------------
(* stepAction: Cut over *)

ClickCutOver ==
    /\ task["page"].at = "idle"
    /\ status = "applied" /\ facts.offers /\ ~halted /\ ~advancing
    /\ advancing' = TRUE /\ asked' = TRUE
    /\ Enter("page", "stepping")
    /\ UNCHANGED <<row, cloud, halted, driving, events, torn, undone>>

StepLands ==
    /\ task["page"].at = "stepping"
    /\ old' = IF old = "running" THEN "stopping" ELSE old
    /\ Go("page", "stepped")
    /\ UNCHANGED <<row, image, box, home, halted, advancing, driving, events, history>>

StepReturns ==
    /\ task["page"].at = "stepped"
    /\ Write(status, [task["page"].f EXCEPT !.stage = "stopping_old", !.offers = FALSE])
    /\ Release /\ Return("page") /\ driving' = TRUE
    /\ UNCHANGED <<cloud, halted, events, history>>

StepThrows ==
    /\ task["page"].at \in {"stepping", "stepped"}
    /\ Write(status, task["page"].f)
    /\ Release /\ Return("page")
    /\ UNCHANGED <<cloud, halted, driving, events, history>>

-----------------------------------------------------------------------------
(* revertAction and the module's revert: `advancing` is looked at, not taken *)

stagedFailure == status = "failed" /\ facts.stage # "none"

ClickRevert ==
    /\ task["page"].at = "idle"
    /\ status \in {"applied", "verified"} \/ stagedFailure
    /\ ~advancing
    /\ Enter("page", "looking")
    /\ UNCHANGED <<row, cloud, halted, advancing, driving, events, history>>

\* A box that runs needs no start.
RevertReads ==
    /\ task["page"].at = "looking"
    /\ Go("page", IF task["page"].f.wasRunning /\ old # "running" THEN "starting" ELSE "undoing")
    /\ UNCHANGED <<row, cloud, halted, advancing, driving, events, history>>

\* The old box comes back first, once it has stopped.
RevertStartsOld ==
    /\ task["page"].at = "starting" /\ old # "stopping"
    /\ old' = "running" /\ undone' = TRUE
    /\ Go("page", "undoing")
    /\ UNCHANGED <<row, image, box, home, halted, advancing, driving, events, asked, torn>>

\* Only what the facts say has moved goes back.
RevertMoves(a) ==
    /\ task["page"].at = "undoing"
    /\ GroupOf[a] \in task["page"].f.moved /\ a \notin task["page"].did
    /\ home' = [home EXCEPT ![a] = None]
    /\ task' = [task EXCEPT !["page"].did = @ \cup {a}]
    /\ UNCHANGED <<row, old, image, box, halted, advancing, driving, events, history>>

\* The new box is stopped if that works, and the row says so.
RevertReturns ==
    LET f == task["page"].f IN
    /\ task["page"].at = "undoing"
    /\ {a \in Addresses : GroupOf[a] \in f.moved} \subseteq task["page"].did
    /\ \/ f.box # None /\ box' = [box EXCEPT ![f.box].state = "stopped"]
       \/ UNCHANGED box
    /\ Write("reverted", [f EXCEPT !.stage = "reverted", !.offers = FALSE])
    /\ Return("page")
    /\ UNCHANGED <<old, image, home, halted, advancing, driving, events, history>>

RevertThrows ==
    /\ task["page"].at \in {"looking", "starting", "undoing"}
    /\ Return("page")
    /\ UNCHANGED <<row, cloud, halted, advancing, driving, events, history>>

-----------------------------------------------------------------------------
(* EC2, people and the process *)

Ec2 ==
    /\ \/ old = "stopping" /\ old' = "stopped" /\ UNCHANGED <<image, box>>
       \/ \E i \in Images :
             image[i] = "pending" /\ image' = [image EXCEPT ![i] = "available"] /\ UNCHANGED <<old, box>>
       \/ \E b \in Boxes :
             box[b].state = "pending" /\ box' = [box EXCEPT ![b].state = "ok"] /\ UNCHANGED <<old, image>>
    /\ UNCHANGED <<row, home, halted, process, events, history>>

\* Mode off or a pause, and back.
Halt == Event /\ halted' = ~halted /\ UNCHANGED <<row, cloud, process, history>>

\* A failed row goes on one click, however far its stages got; an applied one with force.
Delete == Event /\ Exists /\ status' = "none" /\ UNCHANGED <<facts, cloud, halted, process, history>>

\* The process restarts; a pass finds the row again.
Crash ==
    /\ Event
    /\ advancing' = FALSE /\ driving' = FALSE
    /\ task' = [t \in Tasks |-> IdleTask]
    /\ UNCHANGED <<row, cloud, halted, history>>

Walk(t) ==
    \/ t \in Appliers /\ Apply(t)
    \/ AdvanceStarts(t) \/ CredsBack(t) \/ NoCreds(t) \/ StageLooks(t) \/ StageGoes(t) \/ StageLands(t) \/ StageReturns(t)
    \/ MovedAll(t) \/ StageThrows(t)
    \/ \E a \in Addresses : MovesAddress(t, a) \/ MoveUnanswered(t, a)
    \/ \E s \in {"verified", "failed", status} : VerifyReturns(t, s)

PageHandler ==
    \/ Apply("page")
    \/ StepLands \/ StepReturns \/ StepThrows
    \/ RevertReads \/ RevertStartsOld \/ RevertReturns \/ RevertThrows
    \/ \E a \in Addresses : RevertMoves(a)

Next ==
    \/ \E t \in Walkers : Walk(t)
    \/ "driver" \in Walkers /\ DriverStops
    \/ \E t \in Appliers : ClickApply(t)
    \/ ClickCutOver \/ ClickRevert
    \/ PageHandler
    \/ Ec2
    \/ Halt \/ Delete \/ Crash

Spec == Init /\ [][Next]_vars

\* Every await settles, EC2 gets on, a pass comes every hour, and credentials that
\* work again and again are at some point not refused.
FairSpec ==
    /\ Spec
    /\ \A t \in Walkers : WF_vars(Walk(t)) /\ SF_vars(CredsBack(t))
    /\ WF_vars(PageHandler) /\ WF_vars(Ec2)

-----------------------------------------------------------------------------
(* Properties. *)

\* "live: downtime is not fine": such a box is not stopped before a person clicks Cut
\* over, whatever walks the row (ec2_hibernate_migrate.ts).
CutOverIsAsked == facts.live /\ old # "running" => asked

\* "The client token makes the launch idempotent: a retried stage finds the same instance
\* instead of a second one", and "the warm image is only crash-consistent, which is why the
\* final one is taken stopped": after lost replies, restarts and facts overwritten by other
\* walkers, an image has one box, and the box the row names, like every box an address
\* leads to, was made from a complete final image.  Every final image is of the stopped box
\* unless a revert has started that again.
OneBoxPerImage ==
    /\ \A b, c \in Boxes : box[b].token # None /\ box[b].token = box[c].token => b = c
    /\ facts.box # None => box[facts.box].token = facts.final
    /\ \A b \in ({facts.box} \cup {home[a] : a \in Addresses}) \ {None} :
          box[b].token \in Finals /\ image[box[b].token] = "available"
    /\ ~torn

\* No failed call, overlap or restart leaves an applied row standing still: it gets to
\* the stage that waits for a person or to the last one, unless it is halted.
StagesSettle ==
    status = "applied" ~> status # "applied" \/ facts.stage \in {"awaiting_cutover", "done"} \/ halted

\* Expected to fail.  "The driver, the pass and a person's step never run one row's
\* stage twice at once" (executor.ts:729), and Revert is refused with "is moving a stage
\* right now; revert in a minute" (executor.ts:870): one call changes the boxes at a time.
OneMoverAtATime ==
    Cardinality({t \in Tasks :
        task[t].at \in {"staging", "acting", "landed", "stepping", "stepped", "starting", "undoing"}}) <= 1
=============================================================================
