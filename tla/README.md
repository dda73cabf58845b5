# Verification of aws-advisor

TLA+ models of the parts of [aws-advisor](../src/README.md) that change something or promise something over time: the
executor that applies changes to AWS, the staged relaunch of a box, the requests to the investigating agent, the table
of recommendations, everything posted to the chat, the watcher's alerts, the probe passes and the doorman that wakes a
parked box. TLC checks them on small instances; TLAPS proves their main safety properties, and two refinements, for
every size. Source paths below are relative to `src/src/`.

The advisor is one Node process over one SQLite file. Nothing runs in parallel, but every `await` lets every other
handler run: cron jobs, page requests, webhooks and background drivers interleave between awaits, and each works on
rows it read before its last one. SQLite, AWS, the chat and repo2graph survive a restart; handlers, sets, flags and
timers do not. An action of a model is therefore the code between two awaits, with everything it reads and writes.

## Inventory

| component | state | operations | talks to | what is hard | what makes it correct |
|---|---|---|---|---|---|
| Executor (`executor.ts`) | table `actions`, pause, learned denials, `passInFlight`, capability cache | record, apply, read back, revert, delete, pass, pause | action modules, consent, notifications, pass reports | page and pass on one row; deletes and restarts in a call; cap and grace over passes | the ledger never claims a change that was not made, nor loses one that was; one open row per change; cap and grace hold; a pass ends |
| Staged relaunch (`actions/ec2_hibernate_migrate.ts` under `advanceAction`, `driveInBackground`, `stepAction`, `revertAction`) | `facts_json`, the sets `advancing` and `driving`, EC2 | apply, five stages, cut over, revert | EC2, Route 53, load balancers | three walkers on stale facts, lost replies, restart between AWS and the row | no stop before a person asks; one box per image; no row stands still; a revert undoes all of it |
| Consent and run-as-me (`consent.ts`) | rows of `actions` made from the page | propose, apply or revert with a person's credentials | executor | checks of status at the click, writes after the call | as the executor's |
| Action modules (`actions/*.ts`) | AWS | plan, apply, verify, revert | AWS | partial failure | the contract the executor calls them through |
| Agent runs (`agent.ts`) | table `agent_runs`, repo2graph's work | post, webhook, poll, grade, retry | every flow below | webhook before, after, twice, racing the poll; retry overtaking the first answer | each answer is taken once, one second chance, and it lands on its own row |
| Agent flows (`investigate.ts`, `resolve.ts`, `observe.ts`, `usage_agent.ts`, `pass_report.ts`, `playbook_gen.ts`, `chat.ts`) | a row each: incidents, resolutions, observations, usage investigations, pass reports, playbook jobs, chat messages | dispatch, complete, delete a thread | agent runs, recommendations | check and insert around awaits; fallback to the newest pending row | one in flight per subject; pending means an answer can come |
| Recommendations (`collector.ts`, `compliance.ts`, `review.ts`, `security_groups.ts`, `routes/browse.ts`, `step_runner.ts`, `progress.ts`) | tables `recommendations`, `runs`, `compliance_scans`, busy flags | run, scan, file a batch, sweep, decide, tick, run a step, close | AWS, the executor | a decision during a run; a query that failed; an interrupted run; a status read before a command and written after it | decisions survive; a row is resolved only when it is gone; what persists is shown; no job beside itself |
| Notifications (`notify.ts`, the dispatchers of `executor.ts`, `pass_report.ts`, `compliance.ts`, the reply of `alert_cause.ts`) | a receipt column per table, `inFlight`, `eventsInFlight` | sweep, send by hand, queue, resend, retry | the chat | overlapping sweeps, slow or silent chat, quiet hours, restart between post and receipt | each thing told once, a receipt that says sent is true, no row waits for ever |
| Alerts and triage (`alert_store.ts`, `triage.ts`, rules that raise) | table `alerts` | raise, acknowledge, reopen | notifications, investigations | as notifications | one alert per condition |
| Watcher (`watcher.ts`) | samples, alerts | watch once, from cron and page | AWS, alerts | accounts out of sight, overlapping passes | never gone what was there, what is back is closed, a departure is told |
| Probes and SSM (`probe_pass.ts`, `image_pass.ts`, `ssm.ts`, `probe_log.ts`) | passes and runs, results, image scans | pass per kind, one box by hand, replay of uploads | SSM, S3, quota | workers on one queue, a failure that concerns all boxes, a scanner that is away, a restart in a pass | each candidate accounted for; stop when it is the same for every box; no image left unread |
| Doorman (`doorman.ts`) | the maps `boxCache`, `wakes`, `deciding`; table `wake_events` | visit, poll, press Start, hold, wake, mark ready | EC2, consent, the chat, the box | bursts of requests, reads overlapping a wake, a wake of an earlier sleep, starts and stops by others, restart | one start per sleep; the rows say what happened; a box that is visited comes up |
| Quotas (`quota.ts`) | probe attempts of the process, counts of tables | check, count | probes, agent | the agent's count is of recorded runs | no more than the limit |
| Scheduler and jobs (`scheduler.ts`, `adapters/aws/jobs.ts`) | set of running jobs | start | all jobs | page and cron together | single flight |
| Steampipe, Powerpipe, Jev | child processes, pools, an external model | query, ask | AWS | timeouts | each question its answer |
| Inventories, spend, access, tags, graph mirror, adapters, UI, API | tables replaced from one read | read, compute, show | AWS, Neo4j | little state | the computations |

`PROJECT.json` lists every component with its sources and says which are modelled, and every hazard at its line.

## The models

`Ledger` is what the executor promises the reader of its table, `Delivery` what every channel promises a row that wants
a message: abstract specifications, implemented by `Executor` and `Notifications` under refinement mappings. An `MC`
module instantiates a model for TLC, a `Proofs` module holds its theorems.

### Executor (`Executor`, `Ledger`, `MCExecutor`, `ExecutorProofs`)

| model | code |
|---|---|
| `status`, `change`, `trigger`, `created`, `revived` | the table `actions`, a row per id; a `change` is a dedupe in an account; `"none"`: no such row (yet, or deleted) |
| `inPlace` | AWS: the change has been made and not undone |
| `mode`, `paused`, `actuator`, `denied` | `ACT_MODE`, the pause, whether the actuator role can be assumed, learned denials |
| `task[c]` | one handler: where it is between two awaits, on which row, for whom; `PassTask` is the pass's own call |
| `pass` | the locals of `runExecutorPass` and `passInFlight` |
| `landed`, `openSince`, `begun`, `interrupted` | history for the properties; no action reads it |

`RecordProposal` is refresh, revive or insert; `Leftover` is what `closeStale` makes stale. `ClickApply`, `CapsBack`,
`CallOrRefuse`, `AwsApplies`, `ApplyReturns` or `ApplyThrows`, `ReadBack`, `VerifyReturns` are `applyAction` from its
checks to the end of its read-back; the revert and the person's runs have their own. The `Pass...` actions walk the
pass module by module in the order of the code: read back, plan, record, decide, apply, close. An exception of one row
ends the pass (`Finish`), as it does in the code.

`Ledger` knows of a row only that it is proposed, stale, tried or done, of which change, and whether the change was
made; `LedgerKept` maps the nine statuses to these and `landed` to `made`.

Abstracted: the clock counts hours; denials are kept per module and only for the right to apply, and those of the
revert, the policy simulation and the ten-minute cache are left out; refreshing a row keeps its id, dates and trigger
and the texts are not there. The plan of a module is any set of its changes that AWS does not show as made.

### Staged relaunch (`StagedAction`, `MCStagedAction`, `StagedActionProofs`)

One row of the one module that has `advance`. `facts` is what the row stores: the stage, the ids it made and which
groups of addresses moved. A walker (the driver or the pass) reads `facts` before it awaits credentials and writes
them back whole. A stage that changes something is three steps: what it reads of EC2 (`StageGoes`), its calls
(`StageLands`, `MovesAddress`, which look at EC2 no second time) and their replies (`StageReturns`, `MovedAll`). The
row is applied from the page or by a pass (`ClickApply`), at the same time too. EC2 is `old`, `image`, `box`, `home`:
a call may land and its reply be lost. `advancing` and `driving` are the two sets. `halted` is mode off or a pause;
Revert is always allowed in the model (only off refuses it). A proposed row may be `live` (the box stays up until Cut
over) or `stop`.

### Agent runs (`AgentRuns`, `MCAgentRuns`, `AgentRunsProofs`)

One model for the eight flows, which differ in a few sets read off their code: whether the pending check comes before
the waits (`ChecksEarly`) or is missing (`NeverChecks`), whether force is there (`Forceable`), whether a failed post is
caught (`CatchesPost`), whether an answer without a row falls back to the newest pending one (`FallsBack`), whether the
row follows a retry (`Repointed`), whether the answer is stored after another wait (`StoresLate`), whether the check
looks at the newest row of the subject only (`LooksAtNewest`: the observation of a day, the report of a pass) or at
any (`InTheWay` is what it sees, `InFlight` what there is). `Receive` is both the
webhook and the poll; it may come at any time and any number of times, and an answer before the run is recorded is
dropped as the code drops it. Grades are good, weak, useless (below the bar and not the expected object) and error.
A refused post and an exhausted quota are the same step.

### Recommendations (`Recommendations`, `MCRecommendations`, `RecommendationsProofs`)

`status` is the table by fingerprint, `present` AWS's truth, `job[j]` what the collection run or the security scan has
seen so far: `left` to ask, `got`, the keys `bad` that a failure hid. `Files` is the batch with its sweep
(`upsertRecommendations`, `resolveVanished`), `running` the rows of `runs` and `compliance_scans` that say running.
`Completes` writes the row and leaves the job `handing` over to the agent or the chat with its flag up, `Ends` takes
the flag down. `said` is the last decision on a key and `meanwhile` the keys decided while a step run was out on them;
`StepReturns` writes over a decision without being one. `gating` the crons that looked at the flag and now wait for
credentials. `OwnPass` and `PartialBatch` are the filers that bring only what they could judge: the daily review, the
security groups, action modules, agents. `Decide`, `Tick`, `StepStarts` and `StepReturns` are a person,
`ExecutorCloses` the executor. A resolved row reopens when a batch brings it.

### Notifications (`Notifications`, `Delivery`, `MCNotifications`, `NotificationsProofs`)

`row[i]` is a row of any of the five tables with its receipt; `call` are the dispatches whose post is out, each with
the rows it read and the version of their text. `SweepAlerts`, `EventsGo`, `NewFindings`, `DispatchActions`,
`DispatchReports`, `SendByHand` and `Explain` begin one; `Take`, `Answers`, `NoAnswer` and `Ends` carry it on. A post
without an answer may have reached the chat, and is tried twice. Only the alert sweep and the event sweep hold a flag
(`sweeping`), which is what the code does. `reached` holds messages, a row and a version each; `Told` says that the
chat has what an action says now, so the message of a change does not count once the change was undone. `mode` is what
mutes the chat: not configured, off, events off, quiet hours.

### Watcher (`Watcher`, `MCWatcher`, `WatcherProofs`)

`Collects` is the query, which shows the instances of the visible accounts; `Stores` is everything after the awaits:
the sample, the comparison with the last sample that had instances, the alerts. `told` and `wrong` are history.

### Probes (`Probes`, `MCProbes`, `ProbesProofs`)

The sbom pass (`boxPass`, `worker`) and the images pass (`imagesPass`), with the quota they share with every other probe
(`attempts`, which a restart forgets, and `stored`). `Fails` is the catch of a worker: a refused permission, missing
credentials or a full quota empties the queue. `imagesRow` is the newest ended row of an images pass, from which
`ImagesMode` decides whether the boxes read the registry images themselves. `scanned` are the images with an ok scan
inside the interval; time is only what falls due.

### Doorman (`Doorman`, `MCDoorman`, `DoormanProofs`)

One box. `req[r]` is the handler of a request, `wk[r]` the wake it decides (`startWake` with `manualPower` in it):
`WakeReads` and `WakeReturns` are the first read, `WithOthers` the instances started along, `Asks` the second read,
`Lands` the call, `Starts` and `Fails` what follows. `cache`, `wakes` and `deciding` are the three maps, `started`,
`today`, `notes` and `marked` counts of rows of `wake_events`. `Knows` is every handler after its read of the box:
a page, a call that is then held, or a poll, which is also what a visit does that the filter or the profile's switch
keeps from waking. A read may fail, and its answer may be older than the box when it is stored. `sleep` counts how
often the box stopped. Left out: the seconds, the paths and agents, the post of the over-cap note.

## Runs

| run | instance | what it shows | states |
|---|---|---|---|
| `exec_ledger` | one change, a page request and the pass, modes off and apply, one setting, delete or restart, an hour | `OneOpenRow`, `AppliedMeansLanded`, `NoLostChange`; `LedgerKept`: the executor implements `Ledger` | 3.5 million |
| `exec_pass` | three changes of two modules and the page, both pass triggers, cap 1, grace 1 h | `BudgetKept`, `GraceIsContinuous`, `PassEnds` | 438 thousand |
| `staged` | driver, passes and a person, two of them at once; one address, two final images and two boxes possible, one event | `CutOverIsAsked`, `OneBoxPerImage`, `StagesSettle` | 693 thousand |
| `agent_runs` | two alerts, a day, a thread or a plan; two dispatches, three requests, one restart | `AcceptedOnce`, `OneSecondChance`, `PendingIsTracked`, `AnswersOwnSubject`, `OneInFlight`, `RetryAnswerLands` | 530 thousand |
| `recs` | a key of the scan and one of a module, both with a plan; step runs, a cron, a click, one event | `DecisionStands`, `RunningIsBusy` | 695 thousand |
| `recs_live` | a key of the run, one of the scan, one of the review | `RunsEnd`, `PersistsThenShown`, `GoneIsResolved` | 58 thousand |
| `notify` | seven rows of five channels, two dispatches out at once, three settings, one restart | `OncePerAlert`, `ReceiptsAreTrue` (the refinement of `Delivery`), `QueueDrains` | 362 thousand |
| `watch` | two accounts, two instances and a node of a pool, cron and page, two events | `GoneWasGone`, `SeenAgainCloses`, `DepartureIsTold` | 135 thousand |
| `probes` | two boxes, one image, two workers, quota 1, one restart | `PassAddsUp`, `FatalStops`, `ReadWithoutScanner` | 243 thousand |
| `doorman` | one box, two requests at once, cap 1, one stop, start by others or restart | `EventsAddUp`, `VisitsWakeIt` | 239 thousand |
| `staged_revert_overlap`, `recs_gone` | the least instance that has the case | each finds one documented promise broken, see below | |

The type invariants are checked in the passing runs, one per module.

**Bounds.** Every bound is a constant and only disables the action that would pass it. Two rows of one change are
enough for a refresh, a revival, a failed row with its retry and a deleted row with its successor, and a page request
with a pass is two handlers on one row, which is what the ledger's properties speak of; a page request and a delete, a
settings change or a restart fit in one schedule. Cap 1 with two modules separates a cap per pass from a cap per
module. `MaxTime = 1` with a grace of one hour lets a row become ripe, go stale and come back. In `staged`, an image
beyond the first of its kind is the one event, as a restart, a pause or a delete is: two final images are those of two
walkers, and two boxes are what these, or a repeated launch of one image, can make. `MaxBusy` lets two handlers be on
the row at once, any two: a walker with a revert, with another walker or with a person's step, or the page's apply
with the pass's. In `agent_runs`, two requests and a retry are enough for an answer that overtakes another; the
constraint `FlowsApart` keeps the flows out of one behaviour, because each has a table of its own and finds its row
there, gives the plan two requests and the day three. That a third observation is let in beside a pending one takes
three rows, one more than the run has; the exception for a forced day was found with three. In `notify`, `Loads` lists
which rows one behaviour may have together: rows meet in a sweep only with rows of their table, and the pairs chosen
are those of the two-row sweep and of the event that two dispatches read. `Alarms` and `Unwanted` are empty there, so
that quiet hours mute every alert; the exemption of alarms is in the model and under the theorems. In `watch`, two
events suffice for an account that goes out of sight and comes back, or one that does and an instance that leaves. In
`probes`, a quota of one is enough, as probes stop counting at any moment, and one box that runs the image beside one
that does not makes the stop of a pass leave it behind. In `doorman`, requests come again and again, so two at once
are enough for a burst; one stop after a wake gives two starts in a day, which passes a cap of one, and a wake of an
earlier sleep to be joined. Deadlock is not checked: the bounds end every behaviour, and an idle advisor is legal.

**Fairness.** `Executor!FairSpec`: weak fairness of the pass's own steps; every await in the pass is an SDK call with
a timeout or a local one, so it settles. Page requests are not fair, people do nothing necessarily.
`StagedAction!FairSpec`: weak fairness of each handler (its awaits settle; a pass comes every hour and finds the row
again) and of EC2, and strong fairness of the credentials coming back: a role that never works leaves a row waiting,
as the code says at executor.ts:759. `Recommendations`: the crons fire for ever and a started job goes on by itself
(each query has a timeout and a failure of it is a step), and the review comes every day; what AWS answers is nobody's
promise, so `PersistsThenShown` and `GoneIsResolved` ask that jobs file again and again. `Notifications`: posts have a
timeout of eight seconds, so each dispatch goes on, and jobs end every few minutes, so each sweep finds its flag down
time and again (strong fairness). `Watcher`: the cron's query works time and again (strong), its pass ends. `Probes`:
both passes go on (commands answer or time out); strong fairness of a pass in which all boxes are due, and of every
box that runs images being taken and answering well in the end: a box that never answers never has its images read.
`ReadWithoutScanner` also asks that the quota refuses no box from some time on. `Doorman`: browsers keep coming, for
nobody else wakes a box; reads and calls return, holds end and clocks run; strong fairness of the start being asked
for and landing, so AWS may refuse many times, not for ever. `AgentRuns` has no fairness and no liveness property:
repo2graph may never answer; what is promised is that a pending row can still be answered (`PendingIsTracked`).

## What disagrees with the repository's own words

Two runs are expected to find a violation; their entries in `PROJECT.json` quote the lines.

* `staged_revert_overlap`: `revertAction` looks at `advancing` and does not enter it, and the row stays applied for the
  minutes it takes. The driver or a pass moves a stage meanwhile. The same two lines let two walkers in together,
  since `advanceAction` awaits between its look and its entry.
* `recs_gone`: a row is resolved by a run that never asked about it. The sweep resolves every open row of a source
  `rules` the batch did not bring; a failed query brings nothing, and action modules file under rules no batch brings.

Further disagreements met while modelling, each in the models as the code has it, without a run of its own:

* executor.ts:651: a pass started from the page stores its rows with trigger `manual`, which `closeStale` keeps for
  the rows a person made (line 645). They never go stale.
* executor.ts:934: a denial learned on one row makes the next row's `applyAction` throw, because the pass asked the
  capabilities before it; the pass ends and the other modules are not planned, against the comment at line 669.
* executor.ts:1107: a row reverted while its "applied" message is on its way is marked sent, by its id, when that
  message went out, and its revert is never told, against "Every applied, failed or reverted row is posted to Sphinx"
  (README.md:2825). `Delivery` therefore lets a receipt turn sent for a row of which an older message is on its way
  (`outdated`), and for no other that the chat has not what it says now. The run reaches the case.
* actions/ec2_hibernate_migrate.ts:372: the final image "is taken stopped" (line 13), but a revert, which looks at
  `advancing` and does not take it, may start the box between the stage's look (line 367) and its call, which asks for
  no reboot: an image of a running box, as good as the warm one. A box may then be launched from it. The last part of
  `OneBoxPerImage` is about every other case.
* actions/ec2_hibernate_migrate.ts:415: a group counts as moved when its last call is back. A failure between two calls
  leaves the first address at the new box, and Revert does not know it (executor.ts:750).
* agent.ts:291: the retry of a usage verdict is posted as an observation's and its answer lands nowhere (README.md:2657).
* resolve.ts:399: two requests for one plan both pass the check made before the waits (line 392).
* chat.ts:433: the answer of a deleted thread is given to the newest pending message of another (line 429).
  `AnswersOwnSubject` therefore counts threads as one subject.
* investigate.ts:340: once a second investigation was forced, an alert has two rows pending, and the first answer of
  the one, completed after its row followed the retry, is written by the fallback on the other. That row is then not
  pending although its own answer is awaited: a dispatch without force is let in (line 263 says it is refused), and the
  row's retry makes it pending again (agent.ts:297). `OneInFlight` therefore speaks of an alert only while none of its
  rows was forced; the case takes four rows and six requests, more than the run has.
* investigate.ts:369: the first answer of an incident waits for its tier check while its retry is posted, answered and
  stored, and is then written over the retry's answer (line 378), against "the retry's answer
  replaces the first" (README.md:2658). `RetryAnswerLands` says that no step takes a retry's answer off its row, but for
  an incident row that such a tier check holds; the run reaches the exception.
* observe.ts:113: a dispatch looks at the newest observation of the day, and refuses with "already running" when that
  is pending; pass_report.ts:170 does the same with reports. A forced second that is completed hides a pending first,
  and a third without force is let in beside it. `OneInFlight` therefore speaks of a day only while none of its
  observations was forced, and not of reports, which check before they wait.
* watcher.ts:114: a pass that could not see an account stores a sample without it, and the next pass compares with that
  sample alone: its instances get a "New instance" alert, against the comment at line 112, and what left meanwhile
  is never told.
* doorman.ts:184: a wake that nobody saw ready is joined for fifteen minutes even when the box has been stopped since,
  so a visit in that time starts nothing and the page says it is waking; the comment at line 169 says that it starts
  unless it is up or waking. `VisitsWakeIt` holds because the fifteen minutes end.
* doorman.ts:263: a call that waits looks for an error in the map, where the last wake's is until the next is decided:
  it is answered at once instead of held (line 8).
* doorman.ts:206: `ready_after_s` counts until somebody first looks, so a visitor who left makes a wake long, and
  `expectedWakeSeconds` (line 163) with it.
* step_runner.ts:253: a step run writes the status that follows from the one read before its command, so an item
  approved or done meanwhile is pending again, against "an approved item stays approved while it is worked"
  (progress.ts:90). `DecisionStands` lets such a run, and nothing else, write over a decision made while it was out;
  the run reaches the case.
* notify.ts:252: a queued event is posted by its own dispatch, which neither looks at the flag nor takes it, and by the
  sweep after a job; README.md:152 says it goes out once. A scan's message (compliance.ts:290) likewise.
* notify.ts:89: a warning that comes in quiet hours gets a receipt and is never posted; config.ts:98 says that warnings
  wait until the morning's next dispatch.
* alert_cause.ts:319: the reply that explains an alert is lost when its post fails, and doubled when two
  attributions overlap (lines 282 to 286), against README.md:1074.
* probe_log.ts:32: an images pass that a restart cut short is ended with all its counts zero, which `sbomImagesModeNow`
  reads as a pass that had nothing due: for up to two intervals the boxes leave the images to the scanner.
* probe_pass.ts:211: one image read is enough for the mode `local`, so an image that the scanner fails at every pass is
  left to it for ever, against the comment at line 205. `ReadWithoutScanner` speaks only of a scanner that is silent.

Allowed by the code, no promise of the repository against it, and therefore in the models without a property: the
first answer of a forced second investigation falling back on the second's row; a read-back that finishes after a
revert; an observation left pending by a failed post; a mode changed to dry-run in the middle of a pass; a staged
apply whose reply is lost, which has no stage and so cannot be reverted.

## Proofs

`ExecutorProofs`, for every set of changes, modules and page requests, every trigger and mode, and every bound, from
`ExecutorAssumption` (the types of the constants; `PassTask` is no page request):

| theorem | argument |
|---|---|
| `TypeCorrect` : `Spec => []TypeOK` | inductive; a task at work has a row, and the pass asking about a row has one |
| `OneOpenRowHolds` : `Spec => []OneOpenRow` | inductive with `TypeOK`; only `RecordProposal` opens rows (`OpensNoRow` for every other step) and it opens one when the change has none |
| `AppliedMeansLandedHolds` : `Spec => []AppliedMeansLanded` | not inductive alone: `ClaimInv` adds `SawChange`, a handler past the AWS call, or reading a row back, has seen the change land; `landed` never goes back (`Monotone`) |
| `NoLostChangeHolds` : `Spec => []NoLostChange` | needs `KnownInv` (ids from `nextId` on are unused and unlanded, tasks and the pass hold used ids), or a revived or inserted row could be a landed one, and `PassBusy`: the pass's own call is out only in the phases that wait for it |
| `BudgetKeptHolds` : `Spec => []BudgetKept` | `BudgetInv`: `begun + pass.budget <= ActMaxPerPass`; a row is taken by one step of budget, refused or not (`BudgetTask`: no handler begins a call in the pass's name) |
| `GraceIsContinuousHolds` : `Spec => GraceIsContinuous` | `SinceInv`: a change is open since its row was revived, or else created, which is what the code counts the grace from; `PlannedInv`: the rows a pass holds are none of a person's, so only the pass could revive them between its check and its call; `RipeInv`: a row taken to be applied is ripe, with `KnownInv` and `PassBusy` |
| `LedgerKeptHolds` : `Spec => LedgerKept` | the refinement: every step is a step of `Ledger` or leaves its variables alone (`KeptStep`, one case per kind of write), from `TypeOK`, `KnownInv`, `OneOpenRow` and `AppliedMeansLanded` |

The revival of a stale row is the step that makes `NoLostChange` interesting: a row becomes stale while its call is
out, comes back as a proposal, and is then overwritten by the handler. It is also why the grace period is not that of
the row's creation.

`StagedActionProofs`, for any walkers, addresses, groups and bounds, from `StagedAssumption`:

| theorem | argument |
|---|---|
| `TypeCorrect` : `Spec => []TypeOK` | `TypeInv` adds `GotOK`: a reply on its way carries the id the stage asked for, an image or a box. Without it `StageHasIds` is not inductive |
| `OneBoxPerImageHolds` : `Spec => []OneBoxPerImage` | `TornInv`: a walker that saw the box stopped finds it stopped when it takes the final image, or a revert has started it, for nothing else does. `OneTokenStep`: only a launch gives a token (`TokensStay` for every other step), and none that a box has. `NameInv`: the facts of the row and of every handler name ids that came from one another (`NamesBox`), so the row does whichever is written last; what a reply on its way brings fits the facts it comes to (`KeepsName`); a box keeps its token and a complete image stays complete (`LaterStep`); nobody walks a row before it is applied (`ProposedStep`); an address is moved to the box of the handler's facts only (`HomeStep`) |
| `CutOverIsAskedHolds` : `Spec => []CutOverIsAsked` | not inductive alone: `LiveInv`, every handler at work holds the row's mode however old its facts are, since no writer changes it; `AskedInv`, a step of the page is there because a person clicked. With both only two actions stop the box (`OldStops`) |

The first part of `OneBoxPerImage` is per image. With two final images, which two overlapping walkers can make, each may
launch its own box; the theorem says nothing of that but that either box is of a final image, taken of the box as it
stood stopped unless a revert had started it, and a lost reply of a launch leaves a failed row that does not name its box.

`AgentRunsProofs`, for any topics, flows, dispatches and bounds, from `AgentRunsAssumption`:

| theorem | argument |
|---|---|
| `TypeCorrect` : `Spec => []TypeOK` | inductive |
| `AcceptedOnceHolds` : `Spec => []AcceptedOnce` | `OnceInv`: an accepted run is completed or failed. That lasts because a run becomes pending only from posted, by the one handler that posted it (`HeldInv`) |
| `OneSecondChanceHolds` : `Spec => []OneSecondChance` | `ChanceInv`: a retried request is completed, is no retry, and its handler has left the grade, which only a pending run enters |
| `PendingIsTrackedHolds` : `Spec => []PendingIsTracked` | `LinkInv`: the request of a row is a recorded run of the row's flow, and no two rows have the same; so the answer finds exactly its row (`OwnerIsRow`). `OpenInv`, `GradeInv`: dispatches and handlers know their row, a retry is of the flow of its first request, a late store is on the row that names the request |
| `AnswersOwnSubjectHolds` : `Spec => []AnswersOwnSubject` | `AnswerInv` adds the rows picked by handlers that wait before they store; an open row keeps its subject (`RowsKept`), a request too (`RunsKept`), and an owner is of the request's subject by name or by fallback (`OwnersOwn`). That it is on one row only: an answer has one owner (`OwnersAreOne`), and once a row records it, its run has ended, which lasts (`RunsEnded`), and its handler is idle (`EndedInv`) |
| `RetryAnswerLandsHolds` : `Spec => RetryAnswerLands` | `FollowInv`: an awaited answer of a flow that repoints always has a row that names it, which is then its only owner (`NamedOwns`); a retry's handler that waits once more holds that row. A retry is not retried, so its row never leaves it. That the answer stays there: `LandedInv`, a row with its retry's answer is pending no more and no handler that stores late holds it under another request, unless it found the row by the fallback (`HeldByTierCheck`) |
| `OneInFlightHolds` : `Spec => []OneInFlight` | `SingleInv`, per subject: a row whose first request is still awaited is pending, so is a row on its way out, and a row picked to be stored is its request's own or follows its retry. So a row that follows a retry was pending before, and an insert, which looks and writes in one step, is the only way to a new one. Where the check sees the newest row only, `NewestPending` says that while none was forced a pending row is the newest (ids are given out in order, `OrderInv`) |

The last three rest on `WireInv`: rows, dispatches and runs that name each other agree on the subject, a dispatch owns
its row alone, and only a usage run has a flow that is not its subject's. Their steps are taken from `StepShapes`, which
says of each action what it does to rows, runs and handlers and nothing else, so that none of these proofs opens an
action.

`PendingIsTracked` is where the flows' differences meet: the usage retry, posted as an observation's, keeps to the
theorem only because its row does not follow it. TLC sees three of the flows, the theorem all eight.

`RecommendationsProofs`, for any keys, filers, sources and crons, from `RecommendationsAssumption`:

| theorem | argument |
|---|---|
| `TypeCorrect`, `RunningIsBusyHolds`, `DecisionStandsHolds` | proved together (`RecInv`): that the rows of `runs` count to one rests on the flag, and the flag on the check after the gate. `Covered`: a step run that is out over a decision has it in `meanwhile`, and what has a status that stays has its record in `said`. A batch writes over no decision (`UpsertKeeps`): it opens what is resolved or new and sweeps only what is open |

`NotificationsProofs`, for any rows, channels, settings, loads and dispatches, from `NotificationsAssumption`:

| theorem | argument |
|---|---|
| `TypeCorrect` : `Spec => []TypeOK` | inductive; the first row of a dispatch exists because ids are numbers (`FirstIs`, by the least element of a set of naturals) |
| `OncePerAlertHolds` : `Spec => []OncePerAlert` | `SweepInv`: one alert sweep at a time and only under its flag, each row at most once in it, and of a row without a receipt at most one message more than restarts has begun, and that one is out |
| `ReceiptsAreTrueHolds` : `Spec => ReceiptsAreTrue` | the refinement of `Delivery`: `OfMade`, no dispatch holds a row nobody made; then each step makes rows, settles them or renews an action's receipt. What an action says changes only with its receipt cleared (`TextsKeep`) and a new dispatch holds it as it is (`CallsFollow`), so what was told gets lost, and what is on its way gets old, only by a renewal (`NewsOnly`), and a message that went out either says what the row says now or was read before (`AnswerHonest`) |

`WatcherProofs`, for any instances, accounts, pools and callers, from `WatcherAssumption`:

| theorem | argument |
|---|---|
| `TypeCorrect` : `Spec => []TypeOK` | inductive |
| `GoneWasGoneHolds` : `Spec => []GoneWasGone` | `AnswersAreWhole`: an account that answered with an instance answered with all of them, so what is missing from such an account was not there when the pass asked. `SeenInv`: a pass stores its sample and writes its alerts in one step, and what it calls gone is not in what it stores, so a sample always leaves the alerts in agreement with itself |

`ProbesProofs`, for any boxes, images, workers, batches and quota, from `ProbesAssumption`:

| theorem | argument |
|---|---|
| `TypeCorrect` : `Spec => []TypeOK` | inductive; the catch of a worker is one lemma (`FailsTyped`) |
| `PassAddsUpHolds`, `FatalStopsHolds` | `CountInv` adds `IdleInv`: outside the probing of a pass nothing is counted. Taking a box moves it from the queue into one hand (`TakeAddsUp`); answering and failing move it out (`HandedIn`), and a failure that stops the pass moves the queue to the failed |

`DoormanProofs`, for any requests, cap and number of events, from `DoormanAssumption`:

| theorem | argument |
|---|---|
| `TypeCorrect` : `Spec => []TypeOK` | inductive; that `deciding` names exactly the one wake under way is part of it (`WkTyped`, kept by `FinishTyped`, `OnTyped` and `WakeTyped`) |
| `EventsAddUpHolds` : `Spec => []EventsAddUp` | three invariants. `StartInv`: rows are about past sleeps or one that is over, a wake that saw the box stopped is of a later sleep than every row, and once its start has landed that sleep has no row; one wake decides at a time, so nobody else writes it. `MarkInv`: the count of 'ready' rows is what the wake in the map says, and until it is decided that wake is open. `NotedOnce` is inductive: the note and the count change in the same step |

Only model-checked: the liveness properties `PassEnds`, `StagesSettle`, `RunsEnd`, `PersistsThenShown`,
`GoneIsResolved`, `QueueDrains`, `SeenAgainCloses`, `DepartureIsTold`, `ReadWithoutScanner` and `VisitsWakeIt`, which
with fairness and `ENABLED` are outside the prover. Every safety property of the passing runs is a theorem. No module
uses a RECURSIVE operator, and nothing here needs an induction over data.

## Plan

1. `Executor` with `Ledger`, `StagedAction`, `AgentRuns`, `Recommendations`, `Notifications` with `Delivery`, `Watcher`,
   `Probes`, `Doorman`: done.
2. To prove: every safety property and refinement the runs check: done. What remains is liveness, which stays with TLC.
3. To model: the upload of probe results and its replay (an older object must not write over newer tables:
   `probe_upload_ingest.ts`, `ssm.ts`); the counts of the agent's quota, where parallel dispatches pass the check
   together (`quota.ts:48`); the verification of savings after a change (`verify.ts`).

## Not modelled

Data collection, statistics, prices, forecasts, access and policy analysis, tags, the graph mirror, the MCP server,
the HTTP routes and the user interface hold little state of their own: each replaces a table from one read, or
computes from rows, and what they compute is data (a set of keys, a choice, a grade) to every model above. Steampipe
and Powerpipe are external processes behind a pool; the models have their outcomes, an answer, a failure or a timeout.
These parts are most of the code by lines, which is why the map covers a small share of it.
