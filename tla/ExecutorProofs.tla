--------------------------- MODULE ExecutorProofs ---------------------------
(* Proofs about Executor, for every number of rows, changes, modules, page   *)
(* requests and every bound.                                                 *)
EXTENDS Executor, TLAPS

LEMMA IdleTyped ==
  /\ IdleTask \in TaskType /\ IdleTask.at = "idle"
  /\ IdlePass \in PassType /\ IdlePass.phase = "idle"
  BY ExecutorAssumption
  DEF ExecutorAssumption, TaskType, PassType, IdleTask, IdlePass, AnyKind, NoRow, Triggers, Places, Answers

LEMMA MoveTyped ==
  ASSUME TaskTypeOK, NEW t \in Tasks, task[t].at # "idle", NEW at \in Places, Move(t, at)
  PROVE  TaskTypeOK'
  BY DEF TaskTypeOK, TaskType, Move

LEMMA BeginTyped ==
  ASSUME TaskTypeOK, NEW t \in Tasks, NEW at \in Places, NEW i \in Ids, NEW b \in Triggers, Begin(t, at, i, b)
  PROVE  TaskTypeOK'
  BY DEF TaskTypeOK, TaskType, Begin, Answers

LEMMA FinishTyped ==
  ASSUME TaskTypeOK, PassTypeOK, NEW t \in Tasks, NEW threw, Finish(t, threw)
  PROVE  TaskTypeOK' /\ PassTypeOK'
<1>1. TaskTypeOK'
  BY IdleTyped DEF TaskTypeOK, Finish
<1>2. PassTypeOK'
  <2>1. CASE t # PassTask
    BY <2>1 DEF PassTypeOK, Finish
  <2>2. CASE t = PassTask /\ threw
    BY <2>2, IdleTyped DEF PassTypeOK, Finish
  <2>3. CASE t = PassTask /\ ~threw
    BY <2>3 DEF PassTypeOK, Finish, PassType, NoRow
  <2> QED BY <2>1, <2>2, <2>3
<1> QED BY <1>1, <1>2

LEMMA SetStatusTyped ==
  ASSUME LedgerTypeOK, NEW i \in Ids, NEW s \in Statuses, SetStatus(i, s), UNCHANGED rest
  PROVE  LedgerTypeOK'
  BY DEF LedgerTypeOK, SetStatus, rest

LEMMA RecordTyped ==
  ASSUME LedgerTypeOK, WorldTypeOK, NEW c \in Changes, NEW b \in Triggers, NEW r \in Ids, RecordProposal(c, b, r)
  PROVE  LedgerTypeOK'
<1>1. CASE UNCHANGED ledger
  BY <1>1 DEF LedgerTypeOK, ledger, rest
<1>2. CASE Revive(r, b)
  BY <1>2 DEF LedgerTypeOK, WorldTypeOK, Revive, Statuses
<1>3. CASE Insert(c, b)
  BY <1>3, ExecutorAssumption DEF LedgerTypeOK, WorldTypeOK, Insert, Statuses, Ids, ExecutorAssumption
<1> QED BY <1>1, <1>2, <1>3 DEF RecordProposal

LEMMA TypeInit == Init => TypeOK
<1> SUFFICES ASSUME Init PROVE TypeOK
  OBVIOUS
<1>1. LedgerTypeOK
  <2>1. (CHOOSE c \in Changes : TRUE) \in Changes
    BY ExecutorAssumption DEF ExecutorAssumption
  <2>2. nextId \in 1 .. MaxRow + 1 /\ 0 \in 0 .. MaxTime
    BY ExecutorAssumption DEF ExecutorAssumption, Init
  <2> QED BY <2>1, <2>2 DEF Init, LedgerTypeOK, Triggers
<1>2. WorldTypeOK
  <2>1. now \in 0 .. MaxTime /\ events \in 0 .. MaxEvents
    BY ExecutorAssumption DEF ExecutorAssumption, Init
  <2>2. mode \in Modes /\ paused \in BOOLEAN /\ actuator \in BOOLEAN /\ denied \in SUBSET Kinds
    BY DEF Init
  <2>3. inPlace \in [Changes -> BOOLEAN]
    BY DEF Init
  <2> QED BY <2>1, <2>2, <2>3 DEF WorldTypeOK
<1>3. TaskTypeOK
  BY IdleTyped DEF Init, TaskTypeOK
<1>4. PassTypeOK
  BY IdleTyped DEF Init, PassTypeOK
<1>5. HistoryTypeOK
  BY DEF Init, HistoryTypeOK
<1> QED BY <1>1, <1>2, <1>3, <1>4, <1>5 DEF TypeOK

\* The steps of a handler that is already at work.
LEMMA TypeTask ==
  ASSUME TypeOK, NEW t \in Tasks, TaskStep(t)
  PROVE  TypeOK'
<1> USE DEF TypeOK
<1> DEFINE i == task[t].row
<1>0. task[t].at # "idle" /\ task[t].at \in Places /\ i \in Ids /\ change[i] \in Changes
  BY DEF TaskStep, CapsBack, CallOrRefuse, PersonIdentified, AwsApplies, ApplyReturns, ApplyThrows, ReadBack,
         VerifyReturns, RevertOrThrow, AwsReverts, RevertReturns, RevertThrows, TaskTypeOK, TaskType, LedgerTypeOK
<1>1. CASE CapsBack(t) \/ RevertOrThrow(t) \/ \E ok \in BOOLEAN : PersonIdentified(t, ok)
  <2>1. TaskTypeOK' /\ PassTypeOK'
    BY <1>0, <1>1, MoveTyped, FinishTyped DEF CapsBack, RevertOrThrow, PersonIdentified, Places, PassTypeOK
  <2>2. UNCHANGED <<ledger, inPlace, now, settings, events, history>>
    BY <1>1 DEF CapsBack, RevertOrThrow, PersonIdentified
  <2> QED BY <2>1, <2>2 DEF LedgerTypeOK, WorldTypeOK, HistoryTypeOK, ledger, rest, settings, history
<1>2. CASE CallOrRefuse(t)
  <2>1. TaskTypeOK' /\ PassTypeOK'
    BY <1>0, <1>2, MoveTyped, FinishTyped DEF CallOrRefuse, Places, PassTypeOK
  <2>2. LedgerTypeOK'
    <3>1. CASE actuator
      BY <1>2, <3>1 DEF CallOrRefuse, LedgerTypeOK, rest
    <3>2. CASE ~actuator
      BY <1>0, <1>2, <3>2, SetStatusTyped DEF CallOrRefuse, Statuses, rest
    <3> QED BY <3>1, <3>2
  <2> QED BY <1>2, <2>1, <2>2 DEF CallOrRefuse, WorldTypeOK, HistoryTypeOK, settings, history
<1>3. CASE AwsApplies(t)
  <2>1. TaskTypeOK' /\ PassTypeOK'
    BY <1>0, <1>3, MoveTyped DEF AwsApplies, Places, PassTypeOK
  <2>2. LedgerTypeOK'
    BY <1>3 DEF AwsApplies, LedgerTypeOK, ledger, rest
  <2>3. WorldTypeOK' /\ HistoryTypeOK'
    BY <1>0, <1>3 DEF AwsApplies, WorldTypeOK, HistoryTypeOK, settings
  <2> QED BY <2>1, <2>2, <2>3
<1>4. CASE ApplyReturns(t)
  <2>1. TaskTypeOK' /\ PassTypeOK'
    BY <1>0, <1>4, MoveTyped, FinishTyped DEF ApplyReturns, Places, PassTypeOK
  <2>2. LedgerTypeOK'
    BY <1>0, <1>4, SetStatusTyped DEF ApplyReturns, Statuses, rest
  <2>3. WorldTypeOK' /\ HistoryTypeOK'
    BY <1>4 DEF ApplyReturns, WorldTypeOK, HistoryTypeOK, history
  <2> QED BY <2>1, <2>2, <2>3
<1>5. CASE ApplyThrows(t)
  <2>1. TaskTypeOK' /\ PassTypeOK'
    BY <1>0, <1>5, FinishTyped DEF ApplyThrows
  <2>2. LedgerTypeOK'
    BY <1>0, <1>5, SetStatusTyped DEF ApplyThrows, Statuses, rest
  <2>3. WorldTypeOK' /\ HistoryTypeOK'
    BY <1>0, <1>5, ExecutorAssumption DEF ExecutorAssumption, ApplyThrows, WorldTypeOK, HistoryTypeOK, history
  <2> QED BY <2>1, <2>2, <2>3
<1>6. CASE \E a \in {"ok", "no", "pending", "error"} : ReadBack(t, a)
  <2>1. PICK a \in Answers : task' = [task EXCEPT ![t].at = "answered", ![t].answer = a]
    BY <1>6 DEF ReadBack, Answers
  <2>2. TaskTypeOK'
    BY <1>0, <2>1 DEF TaskTypeOK, TaskType, Places
  <2> QED BY <1>6, <2>2 DEF ReadBack, LedgerTypeOK, WorldTypeOK, PassTypeOK, HistoryTypeOK, ledger, rest, settings, history
<1>7. CASE VerifyReturns(t)
  <2>1. TaskTypeOK' /\ PassTypeOK'
    BY <1>0, <1>7, FinishTyped DEF VerifyReturns
  <2>2. LedgerTypeOK'
    <3>1. CASE UNCHANGED status
      BY <1>7, <3>1 DEF VerifyReturns, LedgerTypeOK, rest
    <3>2. CASE SetStatus(i, "verified") \/ SetStatus(i, "failed")
      BY <1>0, <1>7, <3>2, SetStatusTyped DEF VerifyReturns, Statuses, rest
    <3> QED BY <1>7, <3>1, <3>2 DEF VerifyReturns
  <2> QED BY <1>7, <2>1, <2>2 DEF VerifyReturns, WorldTypeOK, HistoryTypeOK, settings, history
<1>8. CASE AwsReverts(t)
  <2>1. TaskTypeOK' /\ PassTypeOK'
    BY <1>0, <1>8, MoveTyped DEF AwsReverts, Places, PassTypeOK
  <2> QED BY <1>0, <1>8, <2>1 DEF AwsReverts, LedgerTypeOK, WorldTypeOK, HistoryTypeOK, ledger, rest, settings, history
<1>9. CASE RevertReturns(t)
  <2>1. TaskTypeOK' /\ PassTypeOK'
    BY <1>0, <1>9, FinishTyped DEF RevertReturns
  <2>2. LedgerTypeOK'
    BY <1>0, <1>9, SetStatusTyped DEF RevertReturns, Statuses, rest
  <2> QED BY <1>9, <2>1, <2>2 DEF RevertReturns, WorldTypeOK, HistoryTypeOK, settings, history
<1>10. CASE RevertThrows(t)
  <2>1. TaskTypeOK' /\ PassTypeOK'
    BY <1>0, <1>10, FinishTyped DEF RevertThrows
  <2> QED BY <1>10, <2>1 DEF RevertThrows, LedgerTypeOK, WorldTypeOK, HistoryTypeOK, ledger, rest, settings, history
<1> QED BY <1>1, <1>2, <1>3, <1>4, <1>5, <1>6, <1>7, <1>8, <1>9, <1>10 DEF TaskStep

\* A request from the page begins a task and changes nothing else.
LEMMA TypeClick ==
  ASSUME TypeOK, NEW t \in Clicks, Click(t)
  PROVE  TypeOK'
<1> USE DEF TypeOK
<1>1. PICK i \in Ids, at \in Places, b \in Triggers : Begin(t, at, i, b)
  BY DEF Click, ClickApply, ClickAsPerson, ClickVerify, ClickRevert, ClickRevertAsPerson, Places, Triggers
<1>2. UNCHANGED <<ledger, inPlace, now, settings, pass, events, history>>
  BY DEF Click, ClickApply, ClickAsPerson, ClickVerify, ClickRevert, ClickRevertAsPerson
<1>3. TaskTypeOK'
  BY <1>1, BeginTyped DEF Tasks
<1> QED BY <1>2, <1>3 DEF LedgerTypeOK, WorldTypeOK, PassTypeOK, HistoryTypeOK, ledger, rest, settings, history

LEMMA TypePassStart ==
  ASSUME TypeOK, NEW b \in PassTriggers, PassStart(b)
  PROVE  TypeOK'
<1> USE DEF TypeOK
<1>1. PassTypeOK'
  <2>1. b \in Triggers /\ mode \in {"off", "dry_run", "apply"} /\ PressureKinds \subseteq Kinds
    BY ExecutorAssumption DEF ExecutorAssumption, Triggers, WorldTypeOK
  <2>2. ActMaxPerPass \in 0 .. ActMaxPerPass
    BY ExecutorAssumption DEF ExecutorAssumption
  <2>3. {i \in Ids : status[i] = "applied"} \in SUBSET Ids
    OBVIOUS
  <2>4. pass' = [IdlePass EXCEPT !.phase = "readback", !.by = b, !.mode = mode,
                                 !.kinds = IF b = "pressure" THEN PressureKinds ELSE Kinds,
                                 !.rows = {i \in Ids : status[i] = "applied"},
                                 !.budget = ActMaxPerPass]
    BY DEF PassStart
  <2>5. pass' \in PassType /\ pass'.phase = "readback"
    BY <2>1, <2>2, <2>3, <2>4, IdleTyped DEF PassType
  <2> QED BY <2>5 DEF PassTypeOK
<1>2. begun' = 0
  BY DEF PassStart
<1> QED BY <1>1, <1>2 DEF PassStart, ElseUnchanged, LedgerTypeOK, WorldTypeOK, TaskTypeOK, HistoryTypeOK, ledger, rest, settings

\* The parts of the state that no step of the pass itself changes.
LEMMA PassLeavesWorld ==
  ASSUME TypeOK, ElseUnchanged, begun' \in Nat
  PROVE  WorldTypeOK' /\ HistoryTypeOK'
  BY DEF TypeOK, ElseUnchanged, WorldTypeOK, HistoryTypeOK, settings

LEMMA TypePass ==
  ASSUME TypeOK, PassStep
  PROVE  TypeOK'
<1> USE DEF TypeOK
<1>1. ASSUME NEW i \in Ids, PassReadBack(i) PROVE TypeOK'
  <2>1. TaskTypeOK' /\ PassTypeOK'
    <3>1. CASE ~Exists(i)
      BY <1>1, <3>1, IdleTyped DEF PassReadBack, TaskTypeOK, PassTypeOK
    <3>2. CASE Exists(i) /\ status[i] # "applied"
      BY <1>1, <3>2 DEF PassReadBack, TaskTypeOK, PassTypeOK, PassType
    <3>3. CASE Exists(i) /\ status[i] = "applied"
      <4>1. Begin(PassTask, "reading", i, pass.by) /\ pass.by \in Triggers
        BY <1>1, <3>3 DEF PassReadBack, PassTypeOK, PassType
      <4>2. TaskTypeOK'
        BY <4>1, BeginTyped DEF Tasks, Places
      <4>3. pass' = [pass EXCEPT !.phase = "reading", !.rows = @ \ {i}]
        BY <1>1, <3>3 DEF PassReadBack
      <4>4. PassTypeOK'
        BY <4>3 DEF PassTypeOK, PassType
      <4> QED BY <4>2, <4>4
    <3> QED BY <3>1, <3>2, <3>3
  <2> QED BY <1>1, <2>1, PassLeavesWorld DEF PassReadBack, LedgerTypeOK, HistoryTypeOK, ledger, rest
<1>2. ASSUME pass' \in PassType, pass'.phase # "reach", UNCHANGED <<ledger, task, begun>>, ElseUnchanged PROVE TypeOK'
  BY <1>2, PassLeavesWorld DEF LedgerTypeOK, TaskTypeOK, PassTypeOK, HistoryTypeOK, ledger, rest
<1>3. CASE PassReadBackDone \/ PassDone \/ PassRecorded \/ PassWaits
  <2>1. pass' \in PassType /\ pass'.phase # "reach"
    <3>1. CASE PassReadBackDone
      BY <3>1 DEF PassReadBackDone, PassTypeOK, PassType
    <3>2. CASE PassDone
      BY <3>2, IdleTyped DEF PassDone
    <3>3. CASE PassRecorded
      BY <3>3 DEF PassRecorded, PassTypeOK, PassType
    <3>4. CASE PassWaits
      BY <3>4 DEF PassWaits, PassTypeOK, PassType, NoRow
    <3> QED BY <1>3, <3>1, <3>2, <3>3, <3>4
  <2> QED BY <1>2, <1>3, <2>1 DEF PassReadBackDone, PassDone, PassRecorded, PassWaits
<1>4. ASSUME NEW k \in Kinds, PassPlanFails(k) PROVE TypeOK'
  <2>1. pass' \in PassType /\ pass'.phase # "reach"
    BY <1>4 DEF PassPlanFails, PassTypeOK, PassType
  <2> QED BY <1>2, <1>4, <2>1 DEF PassPlanFails
<1>5. ASSUME NEW k \in Kinds, NEW P \in SUBSET Changes, PassPlan(k, P) PROVE TypeOK'
  <2>1. pass' \in PassType /\ pass'.phase # "reach"
    BY <1>5 DEF PassPlan, PassTypeOK, PassType
  <2> QED BY <1>2, <1>5, <2>1 DEF PassPlan
<1>6. Blocked \in SUBSET Kinds
  BY DEF Blocked, PassTypeOK, PassType, WorldTypeOK
<1>7. ASSUME NEW i \in Ids, NEW h \in BOOLEAN, PassLeaves(i, h) PROVE TypeOK'
  <2>1. pass' \in PassType /\ pass'.phase # "reach"
    BY <1>6, <1>7 DEF PassLeaves, PassTypeOK, PassType
  <2> QED BY <1>2, <1>7, <2>1 DEF PassLeaves
<1>8. ASSUME NEW i \in Ids, PassTakes(i) PROVE TypeOK'
  <2>1. PassTypeOK'
    BY <1>6, <1>8 DEF PassTakes, PassTypeOK, PassType
  <2> QED BY <1>8, <2>1, PassLeavesWorld DEF PassTakes, LedgerTypeOK, TaskTypeOK, HistoryTypeOK, ledger, rest
<1>9. ASSUME NEW a \in {"yes", "no"}, PassAsksReach(a) PROVE TypeOK'
  <2>1. PassTypeOK'
    BY <1>9 DEF PassAsksReach, PassTypeOK, PassType
  <2> QED BY <1>9, <2>1, PassLeavesWorld DEF PassAsksReach, LedgerTypeOK, TaskTypeOK, HistoryTypeOK, ledger, rest
<1>10. ASSUME NEW c \in Changes, PassRecord(c) PROVE TypeOK'
  <2>1. LedgerTypeOK' /\ PassTypeOK'
    <3>1. CASE UNCHANGED ledger /\ pass' = [pass EXCEPT !.proposals = @ \ {c}]
      BY <1>10, <3>1 DEF PassRecord, LedgerTypeOK, PassTypeOK, PassType, ledger, rest
    <3>2. ASSUME NEW r \in Ids, pass' = [pass EXCEPT !.proposals = @ \ {c}, !.rows = @ \cup {r}],
                 RecordProposal(c, pass.by, r)
          PROVE  LedgerTypeOK' /\ PassTypeOK'
      <4>1. pass.by \in Triggers
        BY DEF PassTypeOK, PassType
      <4>2. LedgerTypeOK'
        BY <3>2, <4>1, RecordTyped
      <4>3. PassTypeOK'
        BY <1>10, <3>2 DEF PassRecord, PassTypeOK, PassType
      <4> QED BY <4>2, <4>3
    <3> QED BY <1>10, <3>1, <3>2 DEF PassRecord
  <2> QED BY <1>10, <2>1, PassLeavesWorld DEF PassRecord, TaskTypeOK, HistoryTypeOK
<1>11. CASE PassApplies
  <2>1. pass.row \in Ids /\ pass.by \in Triggers /\ pass.budget \in 1 .. ActMaxPerPass
    BY <1>11, ExecutorAssumption DEF ExecutorAssumption, PassApplies, CanSpend, PassTypeOK, PassType
  <2>2. pass.budget - 1 \in 0 .. ActMaxPerPass
    BY <2>1, ExecutorAssumption DEF ExecutorAssumption
  <2>3. CASE pass' = IdlePass /\ UNCHANGED <<ledger, task, begun>>
    <3>1. pass' \in PassType /\ pass'.phase # "reach"
      BY <2>3, IdleTyped
    <3> QED BY <1>2, <1>11, <2>3, <3>1 DEF PassApplies
  <2>4. CASE /\ SetStatus(pass.row, "refused")
             /\ pass' = [pass EXCEPT !.phase = "decide", !.row = NoRow, !.budget = @ - 1]
             /\ UNCHANGED <<rest, task, begun>>
    <3>1. LedgerTypeOK'
      BY <2>1, <2>4, SetStatusTyped DEF Statuses, rest
    <3>2. PassTypeOK'
      BY <2>2, <2>4 DEF PassTypeOK, PassType, NoRow
    <3> QED BY <1>11, <2>4, <3>1, <3>2, PassLeavesWorld DEF PassApplies, TaskTypeOK, HistoryTypeOK
  <2>5. CASE /\ pass' = [pass EXCEPT !.phase = "applying", !.budget = @ - 1]
             /\ Begin(PassTask, IF pass.by = "manual" THEN "creds" ELSE "caps", pass.row, pass.by)
             /\ begun' = begun + 1
             /\ UNCHANGED ledger
    <3>1. TaskTypeOK'
      BY <2>1, <2>5, BeginTyped DEF Tasks, Places
    <3>2. PassTypeOK'
      BY <2>2, <2>5 DEF PassTypeOK, PassType
    <3>3. begun' \in Nat
      BY <2>5 DEF HistoryTypeOK
    <3> QED BY <1>11, <2>5, <3>1, <3>2, <3>3, PassLeavesWorld DEF PassApplies, LedgerTypeOK, ledger, rest
  <2> QED BY <1>11, <2>3, <2>4, <2>5 DEF PassApplies
<1>12. CASE PassCloses
  <2>1. LedgerTypeOK'
    BY <1>12 DEF PassCloses, LedgerTypeOK, Statuses, rest
  <2>2. PassTypeOK'
    BY <1>12 DEF PassCloses, PassTypeOK, PassType
  <2> QED BY <1>12, <2>1, <2>2, PassLeavesWorld DEF PassCloses, TaskTypeOK, HistoryTypeOK
<1> QED BY <1>1, <1>3, <1>4, <1>5, <1>7, <1>8, <1>9, <1>10, <1>11, <1>12 DEF PassStep

LEMMA TypePeople ==
  ASSUME TypeOK, People
  PROVE  TypeOK'
<1> USE DEF TypeOK
<1>1. ASSUME NEW c \in PageChanges, PersonProposes(c) PROVE TypeOK'
  <2>1. PICK r \in Ids : RecordProposal(c, "manual", r)
    BY <1>1 DEF PersonProposes
  <2>2. c \in Changes
    BY ExecutorAssumption DEF ExecutorAssumption
  <2>3. LedgerTypeOK'
    BY <2>1, <2>2, RecordTyped DEF Triggers
  <2> QED BY <1>1, <2>3 DEF PersonProposes, WorldTypeOK, TaskTypeOK, PassTypeOK, HistoryTypeOK, settings, history
<1>2. ASSUME Event PROVE events' \in 0 .. MaxEvents
  BY <1>2, ExecutorAssumption DEF ExecutorAssumption, Event, WorldTypeOK
<1>3. ASSUME NEW i \in Ids, NEW force \in BOOLEAN, Delete(i, force) PROVE TypeOK'
  <2>1. LedgerTypeOK'
    BY <1>3 DEF Delete, LedgerTypeOK, rest
  <2>2. events' \in 0 .. MaxEvents
    BY <1>2, <1>3 DEF Delete
  <2> QED BY <1>3, <2>1, <2>2 DEF Delete, WorldTypeOK, TaskTypeOK, PassTypeOK, HistoryTypeOK, settings, history
<1>4. CASE (\E m \in Modes : SetMode(m)) \/ PauseActions \/ ResumeActions \/ SetActuator
  <2>1. ChangeSetting
    BY <1>4 DEF SetMode, PauseActions, ResumeActions, SetActuator
  <2>2. mode' \in Modes /\ paused' \in BOOLEAN /\ actuator' \in BOOLEAN /\ denied' \in SUBSET Kinds
    BY <1>4 DEF SetMode, PauseActions, ResumeActions, SetActuator, WorldTypeOK
  <2>3. WorldTypeOK'
    BY <1>2, <2>1, <2>2 DEF ChangeSetting, WorldTypeOK
  <2> QED BY <2>1, <2>3 DEF ChangeSetting, LedgerTypeOK, TaskTypeOK, PassTypeOK, HistoryTypeOK, ledger, rest, history
<1> QED BY <1>1, <1>3, <1>4 DEF People

LEMMA TypeTime ==
  ASSUME TypeOK, Tick \/ Crash
  PROVE  TypeOK'
<1> USE DEF TypeOK
<1>1. CASE Tick
  <2>1. WorldTypeOK'
    BY <1>1, ExecutorAssumption DEF ExecutorAssumption, Tick, WorldTypeOK
  <2> QED BY <1>1, <2>1 DEF Tick, LedgerTypeOK, TaskTypeOK, PassTypeOK, HistoryTypeOK, ledger, rest, history
<1>2. CASE Crash
  <2>1. TaskTypeOK' /\ PassTypeOK'
    BY <1>2, IdleTyped DEF Crash, TaskTypeOK, PassTypeOK
  <2>2. LedgerTypeOK'
    BY <1>2 DEF Crash, LedgerTypeOK, ledger, rest
  <2>3. WorldTypeOK'
    <3>1. events' \in 0 .. MaxEvents
      BY <1>2, ExecutorAssumption DEF ExecutorAssumption, Crash, Event, WorldTypeOK
    <3>2. inPlace' \in [Changes -> BOOLEAN]
      BY <1>2 DEF Crash, WorldTypeOK
    <3> QED BY <1>2, <3>1, <3>2 DEF Crash, WorldTypeOK, settings
  <2>4. HistoryTypeOK'
    <3>1. {task[t].row : t \in {u \in Tasks : task[u].at \in {"calling", "landed"}}} \subseteq Ids
      BY DEF TaskTypeOK
    <3>2. landed' \in [Ids -> BOOLEAN]
      BY <1>2 DEF Crash, HistoryTypeOK
    <3> QED BY <1>2, <3>1, <3>2 DEF Crash, HistoryTypeOK
  <2> QED BY <2>1, <2>2, <2>3, <2>4
<1> QED BY <1>1, <1>2

LEMMA TypeStep == TypeOK /\ [Next]_vars => TypeOK'
<1> SUFFICES ASSUME TypeOK, [Next]_vars PROVE TypeOK'
  OBVIOUS
<1>1. CASE UNCHANGED vars
  BY <1>1 DEF TypeOK, LedgerTypeOK, WorldTypeOK, TaskTypeOK, PassTypeOK, HistoryTypeOK, vars, ledger, rest, settings, history
<1>2. CASE Next
  BY <1>2, TypeTask, TypeClick, TypePassStart, TypePass, TypePeople, TypeTime DEF Next
<1> QED BY <1>1, <1>2

\* The ledger, the settings, the handlers and the pass keep their types, and the
\* pass never spends more of its budget than it has.
THEOREM TypeCorrect == Spec => []TypeOK
<1> QED BY TypeInit, TypeStep, PTL DEF Spec

-----------------------------------------------------------------------------
(* One open row per change. *)

\* What a step does to the ledger: it records a proposal, or it opens no row.
OpensNoRow ==
    /\ UNCHANGED rest
    /\ \A i \in Ids :
        /\ status'[i] = "proposed" => status[i] = "proposed"
        /\ status'[i] = "stale" => status[i] \in {"proposed", "stale"}
        /\ status[i] = "none" => status'[i] = "none"
Records == \E c \in Changes, b \in Triggers, r \in Ids : RecordProposal(c, b, r)

LEMMA LedgerTask ==
  ASSUME TypeOK, NEW t \in Tasks, TaskStep(t)
  PROVE  OpensNoRow
<1>1. ASSUME UNCHANGED ledger PROVE OpensNoRow
  BY <1>1 DEF ledger, OpensNoRow
<1>2. ASSUME NEW i \in Ids, NEW s \in Statuses \ {"proposed", "stale"}, SetStatus(i, s), UNCHANGED rest
      PROVE  OpensNoRow
  BY <1>2 DEF SetStatus, Exists, TypeOK, LedgerTypeOK, OpensNoRow
<1>3. task[t].at # "idle" => task[t].row \in Ids
  BY DEF TypeOK, TaskTypeOK
<1>4. CASE CapsBack(t) \/ RevertOrThrow(t) \/ AwsApplies(t) \/ AwsReverts(t) \/ RevertThrows(t)
  BY <1>1, <1>4 DEF CapsBack, RevertOrThrow, AwsApplies, AwsReverts, RevertThrows
<1>5. CASE (\E ok \in BOOLEAN : PersonIdentified(t, ok))
           \/ \E a \in {"ok", "no", "pending", "error"} : ReadBack(t, a)
  BY <1>1, <1>5 DEF PersonIdentified, ReadBack
<1>6. CASE CallOrRefuse(t)
  <2>1. UNCHANGED rest /\ (UNCHANGED status \/ SetStatus(task[t].row, "refused"))
    BY <1>6 DEF CallOrRefuse
  <2> QED BY <1>1, <1>2, <1>3, <1>6, <2>1 DEF CallOrRefuse, ledger, Statuses
<1>7. CASE ApplyReturns(t)
  BY <1>2, <1>3, <1>7 DEF ApplyReturns, Statuses
<1>8. CASE ApplyThrows(t)
  BY <1>2, <1>3, <1>8 DEF ApplyThrows, Statuses
<1>9. CASE VerifyReturns(t)
  <2>1. /\ UNCHANGED rest
        /\ UNCHANGED status \/ SetStatus(task[t].row, "verified") \/ SetStatus(task[t].row, "failed")
    BY <1>9 DEF VerifyReturns
  <2> QED BY <1>1, <1>2, <1>3, <1>9, <2>1 DEF VerifyReturns, ledger, Statuses
<1>10. CASE RevertReturns(t)
  BY <1>2, <1>3, <1>10 DEF RevertReturns, Statuses
<1> QED BY <1>4, <1>5, <1>6, <1>7, <1>8, <1>9, <1>10 DEF TaskStep

LEMMA LedgerStep ==
  ASSUME TypeOK, [Next]_vars
  PROVE  OpensNoRow \/ Records
<1>1. ASSUME UNCHANGED ledger PROVE OpensNoRow
  BY <1>1 DEF ledger, OpensNoRow
<1>2. ASSUME NEW i \in Ids, NEW s \in Statuses \ {"proposed", "stale"}, SetStatus(i, s), UNCHANGED rest
      PROVE  OpensNoRow
  BY <1>2 DEF SetStatus, Exists, TypeOK, LedgerTypeOK, OpensNoRow
<1>3. CASE UNCHANGED vars
  BY <1>1, <1>3 DEF vars
<1>4. ASSUME NEW t \in Tasks, TaskStep(t) PROVE OpensNoRow
  BY <1>4, LedgerTask
<1>5. ASSUME NEW t \in Clicks, Click(t) PROVE OpensNoRow
  BY <1>1, <1>5 DEF Click, ClickApply, ClickAsPerson, ClickVerify, ClickRevert, ClickRevertAsPerson
<1>6. ASSUME NEW b \in PassTriggers, PassStart(b) PROVE OpensNoRow
  BY <1>1, <1>6 DEF PassStart
<1>7. CASE PassStep
  <2>1. ASSUME NEW c \in Changes, PassRecord(c)
        PROVE  OpensNoRow \/ Records
    <3>1. pass.by \in Triggers
      BY DEF TypeOK, PassTypeOK, PassType
    <3> QED BY <1>1, <2>1, <3>1 DEF PassRecord, Records
  <2>2. CASE PassApplies
    <3>1. pass.row \in Ids
      BY <2>2 DEF PassApplies, TypeOK, PassTypeOK
    <3>2. UNCHANGED ledger \/ (SetStatus(pass.row, "refused") /\ UNCHANGED rest)
      BY <2>2 DEF PassApplies
    <3> QED BY <1>1, <1>2, <3>1, <3>2 DEF Statuses
  <2>3. CASE PassCloses
    BY <2>3 DEF PassCloses, Leftover, OpensNoRow
  <2>4. CASE PassReadBackDone \/ PassDone \/ PassRecorded \/ PassWaits
    BY <1>1, <2>4 DEF PassReadBackDone, PassDone, PassRecorded, PassWaits
  <2>5. CASE \E i \in Ids : PassReadBack(i) \/ PassTakes(i) \/ \E h \in BOOLEAN : PassLeaves(i, h)
    BY <1>1, <2>5 DEF PassReadBack, PassTakes, PassLeaves
  <2>6. CASE \/ \E k \in Kinds : PassPlanFails(k) \/ \E P \in SUBSET Changes : PassPlan(k, P)
             \/ \E a \in {"yes", "no"} : PassAsksReach(a)
    BY <1>1, <2>6 DEF PassPlanFails, PassPlan, PassAsksReach
  <2> QED BY <1>7, <2>1, <2>2, <2>3, <2>4, <2>5, <2>6 DEF PassStep
<1>8. CASE People
  <2>1. ASSUME NEW c \in PageChanges, PersonProposes(c)
        PROVE  Records
    BY <2>1, ExecutorAssumption DEF PersonProposes, ExecutorAssumption, Triggers, Records
  <2>2. ASSUME NEW i \in Ids, NEW force \in BOOLEAN, Delete(i, force) PROVE OpensNoRow
    BY <2>2 DEF Delete, TypeOK, LedgerTypeOK, OpensNoRow
  <2>3. CASE (\E m \in Modes : SetMode(m)) \/ PauseActions \/ ResumeActions \/ SetActuator
    BY <1>1, <2>3 DEF SetMode, PauseActions, ResumeActions, SetActuator, ChangeSetting
  <2> QED BY <1>8, <2>1, <2>2, <2>3 DEF People
<1>9. CASE Tick \/ Crash
  BY <1>1, <1>9 DEF Tick, Crash
<1> QED BY <1>3, <1>4, <1>5, <1>6, <1>7, <1>8, <1>9 DEF Next

\* recordProposal opens a row only when the change has none open.
LEMMA RecordKeepsOneOpen ==
  ASSUME LedgerTypeOK, OneOpenRow, NEW c \in Changes, NEW b \in Triggers, NEW r \in Ids, RecordProposal(c, b, r)
  PROVE  OneOpenRow'
<1>1. CASE UNCHANGED ledger
  BY <1>1 DEF OneOpenRow, ledger, rest
<1>2. ASSUME RowsOf(c, "proposed") = {}, change' \in [Ids -> Changes], change'[r] = c,
             \A j \in Ids \ {r} : status'[j] = status[j] /\ change'[j] = change[j]
      PROVE  OneOpenRow'
  BY <1>2 DEF OneOpenRow, RowsOf
<1>3. CASE RowsOf(c, "proposed") = {} /\ IsNewest(r, RowsOf(c, "stale")) /\ Revive(r, b)
  BY <1>2, <1>3 DEF IsNewest, RowsOf, Revive, LedgerTypeOK
<1>4. CASE RowsOf(c, "proposed") = {} /\ r = nextId /\ Insert(c, b)
  BY <1>2, <1>4 DEF Insert, LedgerTypeOK
<1> QED BY <1>1, <1>3, <1>4 DEF RecordProposal

\* A change never has two open rows, however passes, page requests, deletes and
\* restarts interleave.
THEOREM OneOpenRowHolds == Spec => []OneOpenRow
<1>1. Init => OneOpenRow
  BY DEF Init, OneOpenRow
<1>2. TypeOK /\ OneOpenRow /\ [Next]_vars => OneOpenRow'
  <2> SUFFICES ASSUME TypeOK, OneOpenRow, [Next]_vars PROVE OneOpenRow'
    OBVIOUS
  <2>1. CASE OpensNoRow
    BY <2>1 DEF OneOpenRow, OpensNoRow, rest
  <2>2. CASE Records
    <3>1. PICK c \in Changes, b \in Triggers, r \in Ids : RecordProposal(c, b, r)
      BY <2>2 DEF Records
    <3> QED BY <3>1, RecordKeepsOneOpen DEF TypeOK
  <2> QED BY <2>1, <2>2, LedgerStep
<1> QED BY <1>1, <1>2, TypeCorrect, PTL DEF Spec

-----------------------------------------------------------------------------
(* What the ledger claims was done. *)

Claims == {"applied", "verified", "reverted"}

\* The places of a handler that works on a change it knows AWS made.
Saw == {"landed", "reading", "answered", "rcreds", "rwho", "undoing", "undone"}
SawChange == \A t \in Tasks : task[t].at \in Saw => landed[task[t].row]

ClaimInv == AppliedMeansLanded /\ SawChange
Monotone == \A i \in Ids : landed[i] => landed'[i]

LEMMA SawKept ==
  ASSUME TaskTypeOK, SawChange, Monotone, NEW t \in Tasks, \A u \in Tasks \ {t} : task'[u] = task[u],
         task'[t].at \in Saw => landed'[task'[t].row]
  PROVE  SawChange'
<1>1. \A u \in Tasks : task[u].at \in Saw => task[u].row \in Ids
  BY DEF TaskTypeOK, Saw
<1> QED BY <1>1 DEF SawChange, Monotone

LEMMA ClaimKept ==
  ASSUME LedgerTypeOK, AppliedMeansLanded, Monotone, NEW i \in Ids, NEW s \in Statuses, SetStatus(i, s),
         s \in Claims => landed'[i]
  PROVE  AppliedMeansLanded'
  BY DEF LedgerTypeOK, AppliedMeansLanded, Monotone, SetStatus, Exists, Claims

LEMMA FinishSaw ==
  ASSUME TaskTypeOK, SawChange, Monotone, NEW t \in Tasks, NEW threw, Finish(t, threw)
  PROVE  SawChange'
<1>1. task'[t].at \notin Saw /\ \A u \in Tasks \ {t} : task'[u] = task[u]
  BY IdleTyped DEF Finish, TaskTypeOK, Saw
<1> QED BY <1>1, SawKept

LEMMA MoveSaw ==
  ASSUME TaskTypeOK, SawChange, Monotone, NEW t \in Tasks, NEW at \in Places, Move(t, at),
         at \in Saw => landed'[task[t].row]
  PROVE  SawChange'
<1>1. task'[t].at = at /\ task'[t].row = task[t].row /\ \A u \in Tasks \ {t} : task'[u] = task[u]
  BY DEF Move, TaskTypeOK, TaskType
<1> QED BY <1>1, SawKept

LEMMA BeginSaw ==
  ASSUME TaskTypeOK, SawChange, Monotone, NEW t \in Tasks, NEW at \in Places, NEW i \in Ids, NEW b \in Triggers,
         Begin(t, at, i, b), at \in Saw => landed'[i]
  PROVE  SawChange'
<1>1. task'[t].at = at /\ task'[t].row = i /\ \A u \in Tasks \ {t} : task'[u] = task[u]
  BY DEF Begin, TaskTypeOK
<1> QED BY <1>1, SawKept

LEMMA ClaimTask ==
  ASSUME TypeOK, ClaimInv, NEW t \in Tasks, TaskStep(t)
  PROVE  ClaimInv'
<1> DEFINE i == task[t].row
<1>0. task[t].at # "idle" /\ i \in Ids
  BY DEF TypeOK, TaskStep, CapsBack, CallOrRefuse, PersonIdentified, AwsApplies, ApplyReturns, ApplyThrows, ReadBack,
         VerifyReturns, RevertOrThrow, AwsReverts, RevertReturns, RevertThrows, TaskTypeOK
<1> USE DEF TypeOK, ClaimInv
<1>1. ASSUME UNCHANGED landed PROVE Monotone
  BY <1>1 DEF Monotone
<1>2. ASSUME UNCHANGED <<status, landed>> PROVE AppliedMeansLanded'
  BY <1>2 DEF AppliedMeansLanded
<1>3. CASE CapsBack(t) \/ RevertOrThrow(t) \/ (\E ok \in BOOLEAN : PersonIdentified(t, ok)) \/ AwsReverts(t) \/ RevertThrows(t)
  <2>1. UNCHANGED <<status, landed>>
    BY <1>3 DEF CapsBack, RevertOrThrow, PersonIdentified, AwsReverts, RevertThrows, ledger, history
  <2>2. \/ \E threw \in BOOLEAN : Finish(t, threw)
        \/ \E at \in Places : Move(t, at) /\ (at \in Saw => task[t].at \in Saw)
    BY <1>3 DEF CapsBack, RevertOrThrow, PersonIdentified, AwsReverts, RevertThrows, Places, Saw
  <2>3. SawChange'
    <3>1. CASE \E threw \in BOOLEAN : Finish(t, threw)
      BY <1>1, <2>1, <3>1, FinishSaw
    <3>2. ASSUME NEW at \in Places, Move(t, at), at \in Saw => task[t].at \in Saw PROVE SawChange'
      <4>1. at \in Saw => landed'[task[t].row]
        BY <2>1, <3>2 DEF SawChange
      <4> QED BY <1>1, <2>1, <3>2, <4>1, MoveSaw
    <3> QED BY <2>2, <3>1, <3>2
  <2> QED BY <1>2, <2>1, <2>3
<1>4. CASE CallOrRefuse(t)
  <2>1. UNCHANGED landed
    BY <1>4 DEF CallOrRefuse, history
  <2>2. CASE actuator
    BY <1>1, <1>2, <1>4, <2>1, <2>2, MoveSaw DEF CallOrRefuse, Places, Saw
  <2>3. CASE ~actuator
    BY <1>0, <1>1, <1>4, <2>1, <2>3, FinishSaw, ClaimKept DEF CallOrRefuse, Statuses, Claims
  <2> QED BY <2>2, <2>3
<1>5. CASE AwsApplies(t)
  <2>1. Monotone /\ landed'[i]
    BY <1>0, <1>5 DEF AwsApplies, Monotone, HistoryTypeOK
  <2>2. AppliedMeansLanded'
    BY <1>5, <2>1 DEF AwsApplies, Monotone, AppliedMeansLanded, ledger
  <2> QED BY <1>5, <2>1, <2>2, MoveSaw DEF AwsApplies, Places
<1>6. CASE ApplyReturns(t)
  <2>1. UNCHANGED landed /\ landed[i]
    BY <1>6 DEF ApplyReturns, history, SawChange, Saw
  <2>2. AppliedMeansLanded'
    BY <1>0, <1>1, <1>6, <2>1, ClaimKept DEF ApplyReturns, Statuses
  <2> QED BY <1>1, <1>6, <2>1, <2>2, MoveSaw, FinishSaw DEF ApplyReturns, Places
<1>7. CASE ApplyThrows(t)
  <2>1. UNCHANGED landed
    BY <1>7 DEF ApplyThrows, history
  <2> QED BY <1>0, <1>1, <1>7, <2>1, ClaimKept, FinishSaw DEF ApplyThrows, Statuses, Claims
<1>8. CASE \E a \in {"ok", "no", "pending", "error"} : ReadBack(t, a)
  <2>1. UNCHANGED <<status, landed>> /\ landed[i]
    BY <1>8 DEF ReadBack, ledger, history, SawChange, Saw
  <2>2. task'[t].row = i /\ \A u \in Tasks \ {t} : task'[u] = task[u]
    BY <1>8 DEF ReadBack, TaskTypeOK, TaskType
  <2> QED BY <1>1, <1>2, <2>1, <2>2, SawKept
<1>9. CASE VerifyReturns(t)
  <2>1. UNCHANGED landed /\ landed[i]
    BY <1>9 DEF VerifyReturns, history, SawChange, Saw
  <2>2. AppliedMeansLanded'
    <3>1. CASE UNCHANGED status
      BY <1>2, <2>1, <3>1
    <3>2. CASE SetStatus(i, "verified") \/ SetStatus(i, "failed")
      BY <1>0, <1>1, <2>1, <3>2, ClaimKept DEF Statuses
    <3> QED BY <1>9, <3>1, <3>2 DEF VerifyReturns
  <2> QED BY <1>1, <1>9, <2>1, <2>2, FinishSaw DEF VerifyReturns
<1>10. CASE RevertReturns(t)
  <2>1. UNCHANGED landed /\ landed[i]
    BY <1>10 DEF RevertReturns, history, SawChange, Saw
  <2> QED BY <1>0, <1>1, <1>10, <2>1, ClaimKept, FinishSaw DEF RevertReturns, Statuses
<1> QED BY <1>3, <1>4, <1>5, <1>6, <1>7, <1>8, <1>9, <1>10 DEF TaskStep

LEMMA ClaimClick ==
  ASSUME TypeOK, ClaimInv, NEW t \in Clicks, Click(t)
  PROVE  ClaimInv'
<1> USE DEF TypeOK, ClaimInv
<1>1. UNCHANGED <<status, landed>>
  BY DEF Click, ClickApply, ClickAsPerson, ClickVerify, ClickRevert, ClickRevertAsPerson, ledger, history
<1>2. PICK i \in Ids, at \in Places, b \in Triggers : Begin(t, at, i, b) /\ (at \in Saw => status[i] \in Claims)
  BY DEF Click, ClickApply, ClickAsPerson, ClickVerify, ClickRevert, ClickRevertAsPerson,
         Places, Triggers, Saw, Claims
<1>3. SawChange'
  BY <1>1, <1>2, BeginSaw DEF Tasks, Monotone, AppliedMeansLanded, Claims
<1> QED BY <1>1, <1>3 DEF AppliedMeansLanded

LEMMA ClaimRecord ==
  ASSUME LedgerTypeOK, AppliedMeansLanded, UNCHANGED landed,
         NEW c \in Changes, NEW b \in Triggers, NEW r \in Ids, RecordProposal(c, b, r)
  PROVE  AppliedMeansLanded'
<1>1. CASE UNCHANGED ledger
  BY <1>1 DEF AppliedMeansLanded, ledger
<1>2. CASE Revive(r, b)
  BY <1>2 DEF AppliedMeansLanded, Revive, LedgerTypeOK
<1>3. CASE Insert(c, b)
  BY <1>3 DEF AppliedMeansLanded, Insert, LedgerTypeOK
<1> QED BY <1>1, <1>2, <1>3 DEF RecordProposal

LEMMA ClaimPass ==
  ASSUME TypeOK, ClaimInv, PassStep \/ \E b \in PassTriggers : PassStart(b)
  PROVE  ClaimInv'
<1> USE DEF TypeOK, ClaimInv
<1>1. UNCHANGED landed
  BY DEF PassStep, PassStart, PassReadBack, PassTakes, PassLeaves, PassPlanFails, PassPlan, PassAsksReach, PassRecord,
         PassReadBackDone, PassDone, PassRecorded, PassWaits, PassApplies, PassCloses, ElseUnchanged
<1>2. Monotone
  BY <1>1 DEF Monotone
<1>3. SawChange'
  <2>1. ASSUME UNCHANGED task PROVE SawChange'
    BY <1>1, <2>1 DEF SawChange
  <2>2. ASSUME NEW i \in Ids, PassReadBack(i) PROVE SawChange'
    <3>1. CASE Exists(i) /\ status[i] = "applied"
      <4>1. landed'[i]
        BY <1>1, <3>1 DEF AppliedMeansLanded
      <4>2. pass.by \in Triggers
        BY DEF PassTypeOK, PassType
      <4> QED BY <1>2, <2>2, <3>1, <4>1, <4>2, BeginSaw DEF PassReadBack, Tasks, Places
    <3>2. CASE ~(Exists(i) /\ status[i] = "applied")
      BY <2>1, <2>2, <3>2 DEF PassReadBack
    <3> QED BY <3>1, <3>2
  <2>3. CASE PassApplies
    <3>1. CASE UNCHANGED task
      BY <2>1, <3>1
    <3>2. CASE Begin(PassTask, IF pass.by = "manual" THEN "creds" ELSE "caps", pass.row, pass.by)
      <4>1. pass.row \in Ids /\ pass.by \in Triggers
        BY <2>3 DEF PassApplies, PassTypeOK, PassType
      <4> QED BY <1>2, <3>2, <4>1, BeginSaw DEF Tasks, Places, Saw
    <3> QED BY <2>3, <3>1, <3>2 DEF PassApplies
  <2>4. CASE UNCHANGED task
    BY <2>1, <2>4
  <2> QED BY <2>2, <2>3, <2>4
          DEF PassStep, PassStart, PassTakes, PassLeaves, PassPlanFails, PassPlan, PassAsksReach, PassRecord,
              PassReadBackDone, PassDone, PassRecorded, PassWaits, PassCloses
<1>4. AppliedMeansLanded'
  <2>1. ASSUME UNCHANGED status PROVE AppliedMeansLanded'
    BY <1>1, <2>1 DEF AppliedMeansLanded
  <2>2. ASSUME NEW c \in Changes, PassRecord(c) PROVE AppliedMeansLanded'
    <3>1. pass.by \in Triggers
      BY DEF PassTypeOK, PassType
    <3>2. CASE UNCHANGED ledger
      BY <2>1, <3>2 DEF ledger
    <3>3. CASE \E r \in Ids : RecordProposal(c, pass.by, r)
      BY <1>1, <3>1, <3>3, ClaimRecord
    <3> QED BY <2>2, <3>2, <3>3 DEF PassRecord
  <2>3. CASE PassApplies
    <3>1. pass.row \in Ids
      BY <2>3 DEF PassApplies, PassTypeOK
    <3> QED BY <1>2, <2>1, <2>3, <3>1, ClaimKept DEF PassApplies, Statuses, Claims, ledger
  <2>4. CASE PassCloses
    BY <1>1, <2>4 DEF PassCloses, AppliedMeansLanded
  <2>5. CASE UNCHANGED status
    BY <2>1, <2>5
  <2> QED BY <2>2, <2>3, <2>4, <2>5
          DEF PassStep, PassStart, PassReadBack, PassTakes, PassLeaves, PassPlanFails, PassPlan, PassAsksReach,
              PassReadBackDone, PassDone, PassRecorded, PassWaits, ledger
<1> QED BY <1>3, <1>4

LEMMA ClaimWorld ==
  ASSUME TypeOK, ClaimInv, People \/ Tick \/ Crash
  PROVE  ClaimInv'
<1> USE DEF TypeOK, ClaimInv
<1>1. ASSUME UNCHANGED <<status, task, landed>> PROVE ClaimInv'
  BY <1>1 DEF AppliedMeansLanded, SawChange
<1>2. ASSUME NEW c \in PageChanges, PersonProposes(c) PROVE ClaimInv'
  <2>1. c \in Changes /\ "manual" \in Triggers
    BY ExecutorAssumption DEF ExecutorAssumption, Triggers
  <2> QED BY <1>2, <2>1, ClaimRecord DEF PersonProposes, history, SawChange
<1>3. ASSUME NEW i \in Ids, NEW force \in BOOLEAN, Delete(i, force) PROVE ClaimInv'
  BY <1>3 DEF Delete, history, AppliedMeansLanded, SawChange, LedgerTypeOK
<1>4. CASE Tick \/ (\E m \in Modes : SetMode(m)) \/ PauseActions \/ ResumeActions \/ SetActuator
  BY <1>1, <1>4 DEF Tick, SetMode, PauseActions, ResumeActions, SetActuator, ChangeSetting, ledger, history
<1>5. CASE Crash
  <2>1. UNCHANGED status /\ Monotone
    BY <1>5 DEF Crash, ledger, Monotone
  <2>2. \A t \in Tasks : task'[t].at \notin Saw
    BY <1>5, IdleTyped DEF Crash, Saw
  <2> QED BY <2>1, <2>2 DEF AppliedMeansLanded, Monotone, SawChange
<1> QED BY <1>2, <1>3, <1>4, <1>5 DEF People

\* A row says applied, verified or reverted only of a change AWS made, for any
\* number of handlers overlapping on it.
THEOREM AppliedMeansLandedHolds == Spec => []AppliedMeansLanded
<1>1. Init => ClaimInv
  BY IdleTyped DEF Init, ClaimInv, AppliedMeansLanded, SawChange, Saw
<1>2. TypeOK /\ ClaimInv /\ [Next]_vars => ClaimInv'
  <2> SUFFICES ASSUME TypeOK, ClaimInv, [Next]_vars PROVE ClaimInv'
    OBVIOUS
  <2>1. CASE UNCHANGED vars
    BY <2>1 DEF ClaimInv, AppliedMeansLanded, SawChange, vars, ledger, history
  <2>2. CASE Next
    BY <2>2, ClaimTask, ClaimClick, ClaimPass, ClaimWorld DEF Next
  <2> QED BY <2>1, <2>2
<1>3. ClaimInv => AppliedMeansLanded
  BY DEF ClaimInv
<1> QED BY <1>1, <1>2, <1>3, TypeCorrect, PTL DEF Spec

-----------------------------------------------------------------------------
(* No change AWS made is left as a proposal. *)

\* Ids not given out yet are in no table, no handler and no pass.
FreshIds == \A i \in Ids : i >= nextId => status[i] = "none" /\ ~landed[i]
TaskRowsKnown == \A t \in Tasks : task[t].row < nextId
PassRowsKnown == pass.row < nextId /\ \A i \in pass.rows : i < nextId
KnownInv == FreshIds /\ TaskRowsKnown /\ PassRowsKnown

LEMMA RecordKnown ==
  ASSUME LedgerTypeOK, FreshIds, UNCHANGED landed,
         NEW c \in Changes, NEW b \in Triggers, NEW r \in Ids, RecordProposal(c, b, r)
  PROVE  FreshIds' /\ nextId <= nextId' /\ r < nextId'
<1>1. nextId \in Nat
  BY ExecutorAssumption DEF ExecutorAssumption, LedgerTypeOK
<1>2. ASSUME status[r] # "none" PROVE r < nextId
  BY <1>1, <1>2 DEF FreshIds, Ids
<1>3. CASE IsNewest(r, RowsOf(c, "proposed")) /\ UNCHANGED ledger
  BY <1>1, <1>2, <1>3 DEF FreshIds, ledger, rest, IsNewest, RowsOf
<1>4. CASE IsNewest(r, RowsOf(c, "stale")) /\ Revive(r, b)
  BY <1>1, <1>2, <1>4 DEF FreshIds, Revive, LedgerTypeOK, IsNewest, RowsOf, Ids
<1>5. CASE r = nextId /\ Insert(c, b)
  BY <1>1, <1>5 DEF FreshIds, Insert, LedgerTypeOK, Ids
<1> QED BY <1>3, <1>4, <1>5 DEF RecordProposal

LEMMA FinishKnown ==
  ASSUME TypeOK, TaskRowsKnown, PassRowsKnown, UNCHANGED nextId, NEW t \in Tasks, NEW threw, Finish(t, threw)
  PROVE  TaskRowsKnown' /\ PassRowsKnown'
<1>1. 0 < nextId
  BY ExecutorAssumption DEF ExecutorAssumption, TypeOK, LedgerTypeOK
<1>2. TaskRowsKnown'
  BY <1>1 DEF TaskRowsKnown, Finish, TypeOK, TaskTypeOK, IdleTask, NoRow
<1>3. PassRowsKnown'
  BY <1>1 DEF PassRowsKnown, Finish, TypeOK, PassTypeOK, PassType, IdlePass, NoRow
<1> QED BY <1>2, <1>3

LEMMA KnownTask ==
  ASSUME TypeOK, KnownInv, NEW t \in Tasks, TaskStep(t)
  PROVE  KnownInv'
<1> DEFINE i == task[t].row
<1> USE DEF KnownInv
<1>0. task[t].at # "idle" /\ i \in Ids /\ i < nextId /\ nextId \in Nat
  <2>1. task[t].at # "idle"
    BY DEF TaskStep, CapsBack, CallOrRefuse, PersonIdentified, AwsApplies, ApplyReturns, ApplyThrows, ReadBack,
           VerifyReturns, RevertOrThrow, AwsReverts, RevertReturns, RevertThrows
  <2>2. nextId \in Nat
    BY ExecutorAssumption DEF ExecutorAssumption, TypeOK, LedgerTypeOK
  <2> QED BY <2>1, <2>2 DEF TypeOK, TaskTypeOK, TaskRowsKnown
<1>1. UNCHANGED nextId
  BY DEF TaskStep, CapsBack, CallOrRefuse, PersonIdentified, AwsApplies, ApplyReturns, ApplyThrows, ReadBack,
         VerifyReturns, RevertOrThrow, AwsReverts, RevertReturns, RevertThrows, ledger, rest
<1>2. TaskRowsKnown' /\ PassRowsKnown'
  <2>1. CASE \E threw \in BOOLEAN : Finish(t, threw)
    BY <1>1, <2>1, FinishKnown
  <2>2. ASSUME task'[t].row = i, \A u \in Tasks \ {t} : task'[u] = task[u], UNCHANGED pass
        PROVE  TaskRowsKnown' /\ PassRowsKnown'
    BY <1>0, <1>1, <2>2 DEF TaskRowsKnown, PassRowsKnown
  <2>3. ASSUME NEW at, Move(t, at), UNCHANGED pass PROVE TaskRowsKnown' /\ PassRowsKnown'
    BY <2>2, <2>3 DEF Move, TypeOK, TaskTypeOK, TaskType
  <2>4. CASE \E a \in {"ok", "no", "pending", "error"} : ReadBack(t, a)
    BY <2>2, <2>4 DEF ReadBack, TypeOK, TaskTypeOK, TaskType
  <2>5. CASE (\E threw \in BOOLEAN : Finish(t, threw)) \/ (\E at \in Places : Move(t, at) /\ UNCHANGED pass)
    BY <2>1, <2>3, <2>5
  <2>6. CASE ApplyThrows(t) \/ VerifyReturns(t) \/ CallOrRefuse(t) \/ RevertReturns(t) \/ RevertThrows(t)
    <3>1. \/ Finish(t, ~Exists(i)) \/ Finish(t, TRUE) \/ Finish(t, FALSE)
          \/ (\E at \in Places : Move(t, at) /\ UNCHANGED pass)
      BY <2>6 DEF ApplyThrows, VerifyReturns, CallOrRefuse, RevertReturns, RevertThrows, Places
    <3> QED BY <2>3, <3>1, <1>1, FinishKnown
  <2>7. CASE CapsBack(t) \/ (\E ok \in BOOLEAN : PersonIdentified(t, ok)) \/ AwsApplies(t) \/ ApplyReturns(t)
             \/ RevertOrThrow(t) \/ AwsReverts(t)
    <3>1. Finish(t, TRUE) \/ \E at \in Places : Move(t, at) /\ UNCHANGED pass
      BY <2>7 DEF CapsBack, PersonIdentified, AwsApplies, ApplyReturns, RevertOrThrow, AwsReverts, Places
    <3> QED BY <2>5, <3>1
  <2> QED BY <2>4, <2>6, <2>7 DEF TaskStep
<1>3. FreshIds'
  <2>1. ASSUME NEW s \in Statuses, SetStatus(i, s), UNCHANGED landed PROVE FreshIds'
    BY <1>0, <1>1, <2>1 DEF FreshIds, SetStatus, Exists, TypeOK, LedgerTypeOK, Ids
  <2>2. ASSUME UNCHANGED <<status, landed>> PROVE FreshIds'
    BY <1>1, <2>2 DEF FreshIds
  <2>3. CASE AwsApplies(t)
    BY <1>0, <1>1, <2>3 DEF AwsApplies, FreshIds, TypeOK, HistoryTypeOK, Ids, ledger
  <2>4. CASE CallOrRefuse(t) \/ ApplyReturns(t) \/ ApplyThrows(t) \/ VerifyReturns(t) \/ RevertReturns(t)
    <3>1. UNCHANGED landed /\ (UNCHANGED status \/ \E s \in Statuses : SetStatus(i, s))
      BY <2>4 DEF CallOrRefuse, ApplyReturns, ApplyThrows, VerifyReturns, RevertReturns, history, Statuses
    <3> QED BY <2>1, <2>2, <3>1
  <2>5. CASE \/ CapsBack(t) \/ (\E ok \in BOOLEAN : PersonIdentified(t, ok))
             \/ \E a \in {"ok", "no", "pending", "error"} : ReadBack(t, a)
    BY <2>2, <2>5 DEF CapsBack, PersonIdentified, ReadBack, ledger, history
  <2>6. CASE RevertOrThrow(t) \/ AwsReverts(t) \/ RevertThrows(t)
    BY <2>2, <2>6 DEF RevertOrThrow, AwsReverts, RevertThrows, ledger, history
  <2> QED BY <2>3, <2>4, <2>5, <2>6 DEF TaskStep
<1> QED BY <1>2, <1>3

LEMMA KnownPass ==
  ASSUME TypeOK, KnownInv, PassStep \/ \E b \in PassTriggers : PassStart(b)
  PROVE  KnownInv'
<1> USE DEF KnownInv
<1>1. nextId \in Nat /\ 0 < nextId
  BY ExecutorAssumption DEF ExecutorAssumption, TypeOK, LedgerTypeOK
<1>2. UNCHANGED landed
  BY DEF PassStep, PassStart, PassReadBack, PassTakes, PassLeaves, PassPlanFails, PassPlan, PassAsksReach, PassRecord,
         PassReadBackDone, PassDone, PassRecorded, PassWaits, PassApplies, PassCloses, ElseUnchanged
<1>3. ASSUME NEW i \in Ids, status[i] # "none" PROVE i < nextId
  BY <1>1, <1>3 DEF FreshIds, Ids
<1>4. ASSUME UNCHANGED <<ledger, task>>, pass'.row < nextId, \A i \in pass'.rows : i < nextId PROVE KnownInv'
  BY <1>2, <1>4 DEF FreshIds, TaskRowsKnown, PassRowsKnown, ledger, rest
<1>5. ASSUME pass' = IdlePass, UNCHANGED <<ledger, task>> PROVE KnownInv'
  BY <1>1, <1>4, <1>5 DEF IdlePass, NoRow
<1>6. ASSUME NEW b \in PassTriggers, PassStart(b) PROVE KnownInv'
  <2>1. pass'.row = NoRow /\ pass'.rows = {i \in Ids : status[i] = "applied"}
    BY <1>6 DEF PassStart, IdlePass
  <2> QED BY <1>1, <1>3, <1>4, <1>6, <2>1 DEF PassStart, NoRow
<1>7. ASSUME NEW i \in Ids, PassReadBack(i) PROVE KnownInv'
  <2>1. CASE pass' = IdlePass /\ UNCHANGED task
    BY <1>5, <1>7, <2>1 DEF PassReadBack
  <2>2. CASE pass' = [pass EXCEPT !.rows = @ \ {i}] /\ UNCHANGED task
    BY <1>4, <1>7, <2>2 DEF PassReadBack, PassRowsKnown, TypeOK, PassTypeOK, PassType
  <2>3. CASE pass' = [pass EXCEPT !.phase = "reading", !.rows = @ \ {i}] /\ Begin(PassTask, "reading", i, pass.by)
    <3>1. i < nextId
      BY <1>7 DEF PassReadBack, PassRowsKnown
    <3>2. TaskRowsKnown'
      BY <1>7, <2>3, <3>1 DEF PassReadBack, Begin, TaskRowsKnown, TypeOK, TaskTypeOK, ledger, rest
    <3>3. PassRowsKnown'
      BY <1>7, <2>3 DEF PassReadBack, PassRowsKnown, TypeOK, PassTypeOK, PassType, ledger, rest
    <3> QED BY <1>2, <1>7, <3>2, <3>3 DEF PassReadBack, FreshIds, ledger, rest
  <2> QED BY <1>7, <2>1, <2>2, <2>3 DEF PassReadBack
<1>8. ASSUME NEW i \in Ids, NEW h \in BOOLEAN, PassLeaves(i, h) \/ PassTakes(i) PROVE KnownInv'
  <2>1. i < nextId
    BY <1>8 DEF PassLeaves, PassTakes, PassRowsKnown
  <2>2. pass'.row \in {pass.row, i} /\ pass'.rows \subseteq pass.rows
    <3>1. CASE PassLeaves(i, h)
      BY <3>1 DEF PassLeaves, TypeOK, PassTypeOK, PassType
    <3>2. CASE PassTakes(i)
      BY <3>2 DEF PassTakes, TypeOK, PassTypeOK, PassType
    <3> QED BY <1>8, <3>1, <3>2
  <2> QED BY <1>4, <1>8, <2>1, <2>2 DEF PassLeaves, PassTakes, PassRowsKnown
<1>9. ASSUME NEW c \in Changes, PassRecord(c) PROVE KnownInv'
  <2>1. CASE UNCHANGED ledger /\ pass' = [pass EXCEPT !.proposals = @ \ {c}]
    BY <1>4, <1>9, <2>1 DEF PassRecord, PassRowsKnown, TypeOK, PassTypeOK, PassType
  <2>2. ASSUME NEW r \in Ids, pass' = [pass EXCEPT !.proposals = @ \ {c}, !.rows = @ \cup {r}],
               RecordProposal(c, pass.by, r)
        PROVE  KnownInv'
    <3>1. pass.by \in Triggers
      BY DEF TypeOK, PassTypeOK, PassType
    <3>2. FreshIds' /\ nextId <= nextId' /\ r < nextId' /\ nextId' \in Nat
      <4>1. nextId' \in Nat
        BY <1>9, TypePass, ExecutorAssumption DEF PassStep, ExecutorAssumption, TypeOK, LedgerTypeOK
      <4> QED BY <1>2, <2>2, <3>1, <4>1, RecordKnown DEF TypeOK
    <3>3. TaskRowsKnown'
      <4>1. \A t \in Tasks : task[t].row \in Int
        BY DEF TypeOK, TaskTypeOK, TaskType, Ids, NoRow
      <4>2. UNCHANGED task
        BY <1>9 DEF PassRecord
      <4>3. \A t \in Tasks : task[t].row < nextId'
        BY <1>1, <3>2, <4>1 DEF TaskRowsKnown
      <4> QED BY <4>2, <4>3 DEF TaskRowsKnown
    <3>4. PassRowsKnown'
      <4>1. pass.row \in Int /\ pass'.row = pass.row /\ pass'.rows = pass.rows \cup {r} /\ pass.rows \subseteq Int
        BY <2>2 DEF TypeOK, PassTypeOK, PassType, Ids, NoRow
      <4> QED BY <1>1, <3>2, <4>1 DEF PassRowsKnown
    <3> QED BY <3>2, <3>3, <3>4
  <2> QED BY <1>9, <2>1, <2>2 DEF PassRecord
<1>10. CASE PassApplies
  <2>1. pass.row \in Ids
    BY <1>10 DEF PassApplies, TypeOK, PassTypeOK
  <2>2. CASE pass' = IdlePass /\ UNCHANGED <<ledger, task>>
    BY <1>5, <2>2
  <2>3. CASE /\ SetStatus(pass.row, "refused") /\ UNCHANGED <<rest, task>>
             /\ pass' = [pass EXCEPT !.phase = "decide", !.row = NoRow, !.budget = @ - 1]
    <3>1. FreshIds'
      BY <1>2, <2>1, <2>3 DEF SetStatus, Exists, FreshIds, TypeOK, LedgerTypeOK, rest
    <3>2. PassRowsKnown'
      BY <1>1, <2>3 DEF PassRowsKnown, TypeOK, PassTypeOK, PassType, rest, NoRow
    <3> QED BY <2>3, <3>1, <3>2 DEF TaskRowsKnown, rest
  <2>4. CASE /\ UNCHANGED ledger
             /\ pass' = [pass EXCEPT !.phase = "applying", !.budget = @ - 1]
             /\ Begin(PassTask, IF pass.by = "manual" THEN "creds" ELSE "caps", pass.row, pass.by)
    <3>1. TaskRowsKnown'
      BY <2>4 DEF Begin, TaskRowsKnown, PassRowsKnown, TypeOK, TaskTypeOK, ledger, rest
    <3>2. PassRowsKnown'
      BY <2>4 DEF PassRowsKnown, TypeOK, PassTypeOK, PassType, ledger, rest
    <3> QED BY <1>2, <2>4, <3>1, <3>2 DEF FreshIds, ledger, rest
  <2> QED BY <1>10, <2>2, <2>3, <2>4 DEF PassApplies
<1>11. CASE PassCloses
  <2>1. FreshIds'
    BY <1>2, <1>11 DEF PassCloses, Leftover, FreshIds, rest
  <2>2. PassRowsKnown'
    BY <1>11 DEF PassCloses, PassRowsKnown, TypeOK, PassTypeOK, PassType, rest
  <2> QED BY <1>11, <2>1, <2>2 DEF PassCloses, TaskRowsKnown, rest
<1>12. CASE PassDone
  BY <1>5, <1>12 DEF PassDone
<1>13. CASE PassReadBackDone \/ PassRecorded \/ PassWaits
  <2>1. CASE PassReadBackDone
    BY <1>4, <2>1 DEF PassReadBackDone, PassRowsKnown, TypeOK, PassTypeOK, PassType
  <2>2. CASE PassRecorded
    BY <1>4, <2>2 DEF PassRecorded, PassRowsKnown, TypeOK, PassTypeOK, PassType
  <2>3. CASE PassWaits
    BY <1>1, <1>4, <2>3 DEF PassWaits, PassRowsKnown, TypeOK, PassTypeOK, PassType, NoRow
  <2> QED BY <1>13, <2>1, <2>2, <2>3
<1>14. CASE \/ \E k \in Kinds : PassPlanFails(k) \/ \E P \in SUBSET Changes : PassPlan(k, P)
            \/ \E a \in {"yes", "no"} : PassAsksReach(a)
  <2>1. pass'.row = pass.row /\ pass'.rows \subseteq pass.rows
    BY <1>14 DEF PassPlanFails, PassPlan, PassAsksReach, TypeOK, PassTypeOK, PassType
  <2> QED BY <1>4, <1>14, <2>1 DEF PassPlanFails, PassPlan, PassAsksReach, PassRowsKnown
<1> QED BY <1>6, <1>7, <1>8, <1>9, <1>10, <1>11, <1>12, <1>13, <1>14 DEF PassStep

LEMMA KnownClick ==
  ASSUME TypeOK, KnownInv, NEW t \in Clicks, Click(t)
  PROVE  KnownInv'
<1>1. UNCHANGED <<ledger, pass, landed>>
  BY DEF Click, ClickApply, ClickAsPerson, ClickVerify, ClickRevert, ClickRevertAsPerson, history
<1>2. PICK i \in Ids, at \in Places, b \in Triggers : Begin(t, at, i, b) /\ status[i] # "none"
  BY DEF Click, ClickApply, ClickAsPerson, ClickVerify, ClickRevert, ClickRevertAsPerson, CannotApply, Places, Triggers
<1>3. i < nextId
  <2>1. nextId \in Nat
    BY ExecutorAssumption DEF ExecutorAssumption, TypeOK, LedgerTypeOK
  <2> QED BY <1>2, <2>1 DEF KnownInv, FreshIds, Ids
<1>4. TaskRowsKnown'
  BY <1>1, <1>2, <1>3 DEF Begin, KnownInv, TaskRowsKnown, TypeOK, TaskTypeOK, ledger, rest
<1> QED BY <1>1, <1>4 DEF KnownInv, FreshIds, PassRowsKnown, ledger, rest

LEMMA KnownWorld ==
  ASSUME TypeOK, KnownInv, People \/ Tick \/ Crash
  PROVE  KnownInv'
<1> USE DEF KnownInv
<1>0. nextId \in Nat /\ 0 < nextId
  BY ExecutorAssumption DEF ExecutorAssumption, TypeOK, LedgerTypeOK
<1>1. ASSUME UNCHANGED <<ledger, task, pass, landed>> PROVE KnownInv'
  BY <1>1 DEF FreshIds, TaskRowsKnown, PassRowsKnown, ledger, rest
<1>2. ASSUME NEW c \in PageChanges, PersonProposes(c) PROVE KnownInv'
  <2>1. c \in Changes /\ "manual" \in Triggers
    BY ExecutorAssumption DEF ExecutorAssumption, Triggers
  <2>2. UNCHANGED <<task, pass, landed>>
    BY <1>2 DEF PersonProposes, history
  <2>3. PICK r \in Ids : RecordProposal(c, "manual", r)
    BY <1>2 DEF PersonProposes
  <2>4. FreshIds' /\ nextId <= nextId'
    BY <2>1, <2>2, <2>3, RecordKnown DEF TypeOK
  <2>5. nextId' \in Nat
    BY <1>2, TypePeople, ExecutorAssumption DEF People, ExecutorAssumption, TypeOK, LedgerTypeOK
  <2>6. (\A t \in Tasks : task[t].row \in Int) /\ pass.row \in Int /\ pass.rows \subseteq Int
    BY DEF TypeOK, TaskTypeOK, TaskType, PassTypeOK, PassType, Ids, NoRow
  <2>7. (\A t \in Tasks : task[t].row < nextId') /\ pass.row < nextId' /\ \A i \in pass.rows : i < nextId'
    BY <1>0, <2>4, <2>5, <2>6 DEF TaskRowsKnown, PassRowsKnown
  <2> QED BY <2>2, <2>4, <2>7 DEF TaskRowsKnown, PassRowsKnown
<1>3. ASSUME NEW i \in Ids, NEW force \in BOOLEAN, Delete(i, force) PROVE KnownInv'
  <2>1. UNCHANGED <<nextId, task, pass, landed>>
    BY <1>3 DEF Delete, rest, history
  <2>2. FreshIds'
    BY <1>3, <2>1 DEF Delete, FreshIds, TypeOK, LedgerTypeOK
  <2> QED BY <2>1, <2>2 DEF TaskRowsKnown, PassRowsKnown
<1>4. CASE Tick \/ (\E m \in Modes : SetMode(m)) \/ PauseActions \/ ResumeActions \/ SetActuator
  BY <1>1, <1>4 DEF Tick, SetMode, PauseActions, ResumeActions, SetActuator, ChangeSetting, history
<1>5. CASE Crash
  <2>1. UNCHANGED <<status, nextId>>
    BY <1>5 DEF Crash, ledger, rest
  <2>2. TaskRowsKnown' /\ PassRowsKnown'
    BY <1>0, <1>5, <2>1 DEF Crash, TaskRowsKnown, PassRowsKnown, IdleTask, IdlePass, NoRow
  <2>3. ASSUME NEW i \in Ids, i >= nextId PROVE ~landed'[i]
    <3>1. i \notin {task[t].row : t \in Tasks}
      BY <1>0, <2>3 DEF TaskRowsKnown, TypeOK, TaskTypeOK, TaskType, Ids, NoRow
    <3>2. ~landed[i]
      BY <2>3 DEF FreshIds
    <3>3. PICK arrives \in SUBSET Tasks :
             landed' = [j \in Ids |-> landed[j] \/ j \in {task[t].row : t \in arrives}]
      BY <1>5 DEF Crash
    <3>4. i \notin {task[t].row : t \in arrives}
      BY <3>1, <3>3
    <3> QED BY <3>2, <3>3, <3>4
  <2> QED BY <2>1, <2>2, <2>3 DEF FreshIds
<1> QED BY <1>2, <1>3, <1>4, <1>5 DEF People

LEMMA KnownStep == TypeOK /\ KnownInv /\ [Next]_vars => KnownInv'
<1> SUFFICES ASSUME TypeOK, KnownInv, [Next]_vars PROVE KnownInv'
  OBVIOUS
<1>1. CASE UNCHANGED vars
  BY <1>1 DEF KnownInv, FreshIds, TaskRowsKnown, PassRowsKnown, vars, ledger, rest, history
<1>2. CASE Next
  BY <1>2, KnownTask, KnownClick, KnownPass, KnownWorld DEF Next
<1> QED BY <1>1, <1>2

\* Handlers that wait with the change made and not yet written, and rows whose
\* handler a restart ended there.
Accounted(i) == (\E t \in Tasks : task[t].at = "landed" /\ task[t].row = i) \/ i \in interrupted

LEMMA LostKept ==
  ASSUME NoLostChange, OpensNoRow, UNCHANGED landed, interrupted \subseteq interrupted',
         \A t \in Tasks : task[t].at = "landed" => task'[t] = task[t]
  PROVE  NoLostChange'
<1> SUFFICES ASSUME NEW i \in Ids, landed'[i], status'[i] \in {"proposed", "stale"} PROVE Accounted(i)'
  BY DEF NoLostChange, Accounted, Ids
<1>1. landed[i] /\ status[i] \in {"proposed", "stale"}
  BY DEF OpensNoRow
<1>2. Accounted(i)
  BY <1>1 DEF NoLostChange, Accounted
<1> QED BY <1>2 DEF Accounted

LEMMA LostRecord ==
  ASSUME LedgerTypeOK, FreshIds, NoLostChange, UNCHANGED <<landed, interrupted>>,
         \A t \in Tasks : task[t].at = "landed" => task'[t] = task[t],
         NEW c \in Changes, NEW b \in Triggers, NEW r \in Ids, RecordProposal(c, b, r)
  PROVE  NoLostChange'
<1> SUFFICES ASSUME NEW i \in Ids, landed[i], status'[i] \in {"proposed", "stale"} PROVE Accounted(i)
  <2>1. \A i \in Ids : Accounted(i) => Accounted(i)'
    BY DEF Accounted
  <2> QED BY <2>1 DEF NoLostChange, Accounted, Ids
<1>1. CASE UNCHANGED ledger
  BY <1>1 DEF NoLostChange, Accounted, ledger
<1>2. CASE IsNewest(r, RowsOf(c, "stale")) /\ Revive(r, b)
  BY <1>2 DEF NoLostChange, Accounted, Revive, LedgerTypeOK, IsNewest, RowsOf
<1>3. CASE Insert(c, b)
  <2>1. i # nextId
    BY <1>3, ExecutorAssumption DEF ExecutorAssumption, FreshIds, Insert, LedgerTypeOK, Ids
  <2> QED BY <1>3, <2>1 DEF NoLostChange, Accounted, Insert, LedgerTypeOK
<1> QED BY <1>1, <1>2, <1>3 DEF RecordProposal

LEMMA LostTask ==
  ASSUME TypeOK, NoLostChange, NEW t \in Tasks, TaskStep(t), OpensNoRow
  PROVE  NoLostChange'
<1> DEFINE i == task[t].row
<1>0. task[t].at # "idle" => i \in Ids
  BY DEF TypeOK, TaskTypeOK
<1>1. CASE AwsApplies(t)
  <2> SUFFICES ASSUME NEW j \in Ids, landed'[j], status[j] \in {"proposed", "stale"} PROVE Accounted(j)'
    BY <1>1 DEF AwsApplies, NoLostChange, Accounted, ledger, Ids
  <2>1. task'[t].at = "landed" /\ task'[t].row = i /\ \A u \in Tasks \ {t} : task'[u] = task[u]
    BY <1>1 DEF AwsApplies, Move, TypeOK, TaskTypeOK, TaskType
  <2>2. CASE j = i
    BY <2>1, <2>2 DEF Accounted
  <2>3. CASE j # i
    <3>1. landed[j]
      BY <1>1, <2>3 DEF AwsApplies, TypeOK, HistoryTypeOK
    <3>2. Accounted(j)
      BY <3>1 DEF NoLostChange, Accounted
    <3> QED BY <1>1, <2>1, <3>2 DEF AwsApplies, Accounted
  <2> QED BY <2>2, <2>3
<1>2. CASE ApplyReturns(t) \/ ApplyThrows(t)
  <2>1. UNCHANGED <<landed, interrupted>> /\ i \in Ids
    BY <1>0, <1>2 DEF ApplyReturns, ApplyThrows, history
  <2>2. status'[i] \notin {"proposed", "stale"}
    BY <1>2, <2>1 DEF ApplyReturns, ApplyThrows, SetStatus, Exists, TypeOK, LedgerTypeOK
  <2>3. \A u \in Tasks \ {t} : task'[u] = task[u]
    BY <1>2 DEF ApplyReturns, ApplyThrows, Finish, Move, TypeOK, TaskTypeOK
  <2> SUFFICES ASSUME NEW j \in Ids, landed[j], status'[j] \in {"proposed", "stale"} PROVE Accounted(j)'
    BY <2>1 DEF NoLostChange, Accounted, Ids
  <2>4. j # i /\ Accounted(j)
    BY <2>2 DEF NoLostChange, Accounted, OpensNoRow
  <2> QED BY <2>1, <2>3, <2>4 DEF Accounted
<1>3. ASSUME task[t].at # "landed", \A u \in Tasks \ {t} : task'[u] = task[u], UNCHANGED history PROVE NoLostChange'
  BY <1>3, LostKept DEF history
<1>4. CASE CapsBack(t) \/ CallOrRefuse(t) \/ VerifyReturns(t) \/ RevertOrThrow(t) \/ RevertReturns(t) \/ RevertThrows(t)
  <2>1. \A u \in Tasks \ {t} : task'[u] = task[u]
    BY <1>4 DEF CapsBack, CallOrRefuse, VerifyReturns, RevertOrThrow, RevertReturns, RevertThrows, Finish, Move, TypeOK, TaskTypeOK
  <2> QED BY <1>3, <1>4, <2>1 DEF CapsBack, CallOrRefuse, VerifyReturns, RevertOrThrow, RevertReturns, RevertThrows
<1>5. CASE AwsReverts(t) \/ (\E ok \in BOOLEAN : PersonIdentified(t, ok))
           \/ \E a \in {"ok", "no", "pending", "error"} : ReadBack(t, a)
  <2>1. \A u \in Tasks \ {t} : task'[u] = task[u]
    BY <1>5 DEF AwsReverts, PersonIdentified, ReadBack, Finish, Move, TypeOK, TaskTypeOK
  <2> QED BY <1>3, <1>5, <2>1 DEF AwsReverts, PersonIdentified, ReadBack
<1> QED BY <1>1, <1>2, <1>4, <1>5 DEF TaskStep

LEMMA LostCrash ==
  ASSUME TypeOK, NoLostChange, Crash
  PROVE  NoLostChange'
<1> SUFFICES ASSUME NEW i \in Ids, landed'[i], status[i] \in {"proposed", "stale"} PROVE i \in interrupted'
  BY DEF NoLostChange, Crash, ledger, Ids
<1>1. PICK arrives \in SUBSET {t \in Tasks : task[t].at = "calling"} :
         landed' = [j \in Ids |-> landed[j] \/ j \in {task[t].row : t \in arrives}]
  BY DEF Crash
<1>2. CASE landed[i]
  BY <1>2 DEF NoLostChange, Crash
<1>3. CASE i \in {task[t].row : t \in arrives}
  BY <1>3 DEF Crash
<1> QED BY <1>1, <1>2, <1>3

\* The pass's own handler works only while the pass waits for it.
PassBusy == task[PassTask].at # "idle" => pass.phase \in {"reading", "applying"}

LEMMA TaskShape ==
  ASSUME TypeOK, NEW t \in Tasks, TaskStep(t)
  PROVE  \/ \E threw \in BOOLEAN : Finish(t, threw)
         \/ UNCHANGED pass /\ task[t].at # "idle" /\ \A u \in Tasks \ {t} : task'[u] = task[u]
<1>1. ASSUME NEW at, Move(t, at) PROVE \A u \in Tasks \ {t} : task'[u] = task[u]
  BY <1>1 DEF Move, TypeOK, TaskTypeOK
<1>2. CASE CapsBack(t) \/ RevertOrThrow(t) \/ AwsApplies(t) \/ ApplyReturns(t) \/ (\E ok \in BOOLEAN : PersonIdentified(t, ok)) \/ AwsReverts(t)
  BY <1>1, <1>2 DEF CapsBack, RevertOrThrow, AwsApplies, ApplyReturns, PersonIdentified, AwsReverts
<1>3. CASE CallOrRefuse(t)
  BY <1>1, <1>3 DEF CallOrRefuse, Exists
<1>4. CASE ApplyThrows(t) \/ VerifyReturns(t) \/ RevertReturns(t) \/ RevertThrows(t)
  BY <1>4 DEF ApplyThrows, VerifyReturns, RevertReturns, RevertThrows, Exists
<1>5. CASE \E a \in {"ok", "no", "pending", "error"} : ReadBack(t, a)
  BY <1>5 DEF ReadBack, TypeOK, TaskTypeOK
<1> QED BY <1>2, <1>3, <1>4, <1>5 DEF TaskStep

LEMMA PassBusyStep == TypeOK /\ PassBusy /\ [Next]_vars => PassBusy'
<1> SUFFICES ASSUME TypeOK, PassBusy, [Next]_vars PROVE PassBusy'
  OBVIOUS
<1>1. CASE UNCHANGED vars
  BY <1>1 DEF PassBusy, vars
<1>2. ASSUME NEW t \in Tasks, TaskStep(t) PROVE PassBusy'
  <2>1. CASE \E threw \in BOOLEAN : Finish(t, threw)
    <3>1. CASE t = PassTask
      BY <2>1, <3>1, IdleTyped DEF Finish, PassBusy, TypeOK, TaskTypeOK
    <3>2. CASE t # PassTask
      BY <2>1, <3>2 DEF Finish, PassBusy, TypeOK, TaskTypeOK, Tasks
    <3> QED BY <3>1, <3>2
  <2>2. CASE UNCHANGED pass /\ task[t].at # "idle" /\ \A u \in Tasks \ {t} : task'[u] = task[u]
    BY <2>2 DEF PassBusy, Tasks
  <2> QED BY <1>2, <2>1, <2>2, TaskShape
<1>3. ASSUME NEW t \in Clicks, Click(t) PROVE PassBusy'
  BY <1>3, ExecutorAssumption DEF ExecutorAssumption, Click, ClickApply, ClickAsPerson, ClickVerify, ClickRevert, ClickRevertAsPerson,
      Begin, PassBusy, TypeOK, TaskTypeOK, Tasks
<1>4. ASSUME NEW b \in PassTriggers, PassStart(b) PROVE PassBusy'
  BY <1>4 DEF PassStart, PassBusy
<1>5. CASE PassStep
  <2>1. ASSUME NEW i \in Ids, PassReadBack(i) PROVE PassBusy'
    <3>1. CASE Exists(i) /\ status[i] = "applied"
      BY <2>1, <3>1 DEF PassReadBack, PassBusy, TypeOK, PassTypeOK, PassType
    <3>2. CASE ~(Exists(i) /\ status[i] = "applied")
      BY <2>1, <3>2 DEF PassReadBack, PassBusy
    <3> QED BY <3>1, <3>2
  <2>2. CASE PassApplies
    <3>1. CASE UNCHANGED task
      BY <2>2, <3>1 DEF PassApplies, PassBusy
    <3>2. CASE pass' = [pass EXCEPT !.phase = "applying", !.budget = @ - 1]
      BY <3>2 DEF PassBusy, TypeOK, PassTypeOK, PassType
    <3> QED BY <2>2, <3>1, <3>2 DEF PassApplies
  <2>3. CASE PassReadBackDone \/ PassDone \/ PassRecorded \/ PassWaits \/ PassCloses
    BY <2>3 DEF PassReadBackDone, PassDone, PassRecorded, PassWaits, PassCloses, PassBusy
  <2>4. ASSUME NEW i \in Ids, NEW h \in BOOLEAN, PassTakes(i) \/ PassLeaves(i, h) PROVE PassBusy'
    BY <2>4 DEF PassTakes, PassLeaves, PassBusy
  <2>5. ASSUME NEW k \in Kinds, PassPlanFails(k) \/ \E P \in SUBSET Changes : PassPlan(k, P) PROVE PassBusy'
    BY <2>5 DEF PassPlanFails, PassPlan, PassBusy
  <2>6. ASSUME NEW a \in {"yes", "no"}, PassAsksReach(a) PROVE PassBusy'
    BY <2>6 DEF PassAsksReach, PassBusy
  <2>7. ASSUME NEW c \in Changes, PassRecord(c) PROVE PassBusy'
    BY <2>7 DEF PassRecord, PassBusy
  <2> QED BY <1>5, <2>1, <2>2, <2>3, <2>4, <2>5, <2>6, <2>7 DEF PassStep
<1>6. CASE People \/ Tick
  BY <1>6 DEF People, PersonProposes, Delete, SetMode, PauseActions, ResumeActions, SetActuator, ChangeSetting, Tick, PassBusy
<1>7. CASE Crash
  BY <1>7, IdleTyped DEF Crash, PassBusy, Tasks
<1> QED BY <1>1, <1>2, <1>3, <1>4, <1>5, <1>6, <1>7 DEF Next

\* Only a handler itself leaves the place "landed"; a step outside of handlers
\* begins a handler that was idle.
LEMMA LostElse ==
  ASSUME TypeOK, PassBusy, FreshIds, NoLostChange,
         (\E t \in Clicks : Click(t)) \/ (\E b \in PassTriggers : PassStart(b)) \/ PassStep \/ People \/ Tick
  PROVE  NoLostChange'
<1>1. UNCHANGED <<landed, interrupted>>
  <2>1. CASE \E t \in Clicks : Click(t)
    BY <2>1 DEF Click, ClickApply, ClickAsPerson, ClickVerify, ClickRevert, ClickRevertAsPerson, history
  <2>2. CASE PassStep \/ \E b \in PassTriggers : PassStart(b)
    BY <2>2 DEF PassStep, PassStart, PassReadBack, PassTakes, PassLeaves, PassPlanFails, PassPlan, PassAsksReach,
                PassRecord, PassReadBackDone, PassDone, PassRecorded, PassWaits, PassApplies, PassCloses, ElseUnchanged
  <2>3. CASE People \/ Tick
    BY <2>3 DEF People, PersonProposes, Delete, SetMode, PauseActions, ResumeActions, SetActuator, ChangeSetting, Tick, history
  <2> QED BY <2>1, <2>2, <2>3
<1>2. \A t \in Tasks : task[t].at = "landed" => task'[t] = task[t]
  <2>1. CASE \E t \in Clicks : Click(t)
    BY <2>1 DEF Click, ClickApply, ClickAsPerson, ClickVerify, ClickRevert, ClickRevertAsPerson, Begin, TypeOK, TaskTypeOK
  <2>2. CASE UNCHANGED task
    BY <2>2
  <2>3. CASE \E i \in Ids, at \in Places, b \in Triggers : task[PassTask].at = "idle" /\ Begin(PassTask, at, i, b)
    BY <2>3 DEF Begin, TypeOK, TaskTypeOK
  <2>4. ASSUME NEW i \in Ids, PassReadBack(i) PROVE UNCHANGED task \/ (task[PassTask].at = "idle" /\ Begin(PassTask, "reading", i, pass.by))
    BY <2>4 DEF PassReadBack, PassBusy
  <2>5. CASE PassApplies
    <3>1. task[PassTask].at = "idle"
      BY <2>5 DEF PassApplies, PassBusy
    <3>2. UNCHANGED task \/ Begin(PassTask, IF pass.by = "manual" THEN "creds" ELSE "caps", pass.row, pass.by)
      BY <2>5 DEF PassApplies
    <3> QED BY <3>1, <3>2 DEF Begin, TypeOK, TaskTypeOK
  <2>6. CASE People \/ Tick \/ \E b \in PassTriggers : PassStart(b)
    BY <2>2, <2>6 DEF People, PersonProposes, Delete, SetMode, PauseActions, ResumeActions, SetActuator, ChangeSetting, Tick, PassStart
  <2>7. CASE PassStep
    <3>1. ASSUME NEW i \in Ids, PassReadBack(i) PROVE \A t \in Tasks : task[t].at = "landed" => task'[t] = task[t]
      BY <2>4, <3>1 DEF Begin, TypeOK, TaskTypeOK
    <3>2. CASE UNCHANGED task
      BY <2>2, <3>2
    <3> QED BY <2>5, <2>7, <3>1, <3>2
            DEF PassStep, PassTakes, PassLeaves, PassPlanFails, PassPlan, PassAsksReach, PassRecord,
                PassReadBackDone, PassDone, PassRecorded, PassWaits, PassCloses
  <2> QED BY <2>1, <2>6, <2>7
<1>3. CASE OpensNoRow
  BY <1>1, <1>2, <1>3, LostKept
<1>4. CASE Records
  <2>1. PICK c \in Changes, b \in Triggers, r \in Ids : RecordProposal(c, b, r)
    BY <1>4 DEF Records
  <2> QED BY <1>1, <1>2, <2>1, LostRecord DEF TypeOK
<1>5. [Next]_vars
  BY DEF Next
<1> QED BY <1>3, <1>4, <1>5, LedgerStep

\* A change AWS made is never left standing as a proposal by a handler that has
\* returned: only a restart during the call can do that.
THEOREM NoLostChangeHolds == Spec => []NoLostChange
<1>1. Init => KnownInv /\ PassBusy /\ NoLostChange
  <2> SUFFICES ASSUME Init PROVE KnownInv /\ PassBusy /\ NoLostChange
    OBVIOUS
  <2>1. TaskRowsKnown /\ PassRowsKnown
    BY DEF Init, TaskRowsKnown, PassRowsKnown, IdleTask, IdlePass, NoRow
  <2>2. FreshIds /\ NoLostChange
    BY DEF Init, FreshIds, NoLostChange
  <2>3. PassBusy
    BY IdleTyped DEF Init, PassBusy, Tasks
  <2> QED BY <2>1, <2>2, <2>3 DEF KnownInv
<1>2. TypeOK /\ KnownInv /\ PassBusy /\ NoLostChange /\ [Next]_vars => NoLostChange'
  <2> SUFFICES ASSUME TypeOK, KnownInv, PassBusy, NoLostChange, [Next]_vars PROVE NoLostChange'
    OBVIOUS
  <2>1. CASE UNCHANGED vars
    BY <2>1 DEF NoLostChange, vars, ledger, history
  <2>2. CASE Crash
    BY <2>2, LostCrash
  <2>3. ASSUME NEW t \in Tasks, TaskStep(t) PROVE NoLostChange'
    BY <2>3, LedgerTask, LostTask
  <2>4. CASE (\E t \in Clicks : Click(t)) \/ (\E b \in PassTriggers : PassStart(b)) \/ PassStep \/ People \/ Tick
    BY <2>4, LostElse DEF KnownInv
  <2> QED BY <2>1, <2>2, <2>3, <2>4 DEF Next
<1> QED BY <1>1, <1>2, KnownStep, PassBusyStep, TypeCorrect, PTL DEF Spec

-----------------------------------------------------------------------------
(* The cap of one pass. *)

\* What the pass has begun and what it may still begin stay within the cap.
BudgetInv == begun \in Nat /\ begun + pass.budget <= ActMaxPerPass

\* Handlers take nothing from the budget: they return into the pass or end it.
LEMMA BudgetTask ==
  ASSUME TypeOK, BudgetInv, NEW t \in Tasks, TaskStep(t)
  PROVE  BudgetInv'
<1>1. UNCHANGED begun
  BY DEF TaskStep, CapsBack, CallOrRefuse, PersonIdentified, AwsApplies, ApplyReturns, ApplyThrows, ReadBack,
         VerifyReturns, RevertOrThrow, AwsReverts, RevertReturns, RevertThrows, history
<1>2. pass'.budget = pass.budget \/ pass'.budget = 0
  <2>1. CASE \E threw \in BOOLEAN : Finish(t, threw)
    BY <2>1 DEF Finish, IdlePass, TypeOK, PassTypeOK, PassType
  <2>2. CASE UNCHANGED pass
    BY <2>2
  <2> QED BY <2>1, <2>2, TaskShape
<1>3. pass.budget \in Nat
  BY ExecutorAssumption DEF TypeOK, PassTypeOK, PassType, ExecutorAssumption
<1> QED BY <1>1, <1>2, <1>3, ExecutorAssumption DEF BudgetInv, ExecutorAssumption

LEMMA BudgetPass ==
  ASSUME TypeOK, BudgetInv, PassStep
  PROVE  BudgetInv'
<1> USE ExecutorAssumption DEF ExecutorAssumption, BudgetInv
<1>1. pass \in PassType /\ pass.budget \in Nat
  BY DEF TypeOK, PassTypeOK, PassType
<1>2. CASE PassApplies
  <2>1. CASE pass' = IdlePass /\ UNCHANGED begun
    BY <1>1, <2>1 DEF IdlePass
  <2>2. CASE pass' = [pass EXCEPT !.phase = "decide", !.row = NoRow, !.budget = @ - 1] /\ UNCHANGED begun
    BY <1>1, <2>2 DEF PassType
  <2>3. CASE pass' = [pass EXCEPT !.phase = "applying", !.budget = @ - 1] /\ begun' = begun + 1
    BY <1>1, <2>3 DEF PassType
  <2> QED BY <1>2, <2>1, <2>2, <2>3 DEF PassApplies
<1>3. ASSUME UNCHANGED begun, pass'.budget = pass.budget \/ pass'.budget = 0 PROVE BudgetInv'
  BY <1>1, <1>3
<1>4. ASSUME NEW i \in Ids, PassReadBack(i) PROVE BudgetInv'
  <2>1. UNCHANGED begun
    BY <1>4 DEF PassReadBack
  <2>2. CASE pass' = IdlePass
    BY <1>3, <2>1, <2>2 DEF IdlePass
  <2>3. CASE pass' = [pass EXCEPT !.rows = @ \ {i}] \/ pass' = [pass EXCEPT !.phase = "reading", !.rows = @ \ {i}]
    BY <1>1, <1>3, <2>1, <2>3 DEF PassType
  <2> QED BY <1>4, <2>2, <2>3 DEF PassReadBack
<1>5. ASSUME NEW i \in Ids, NEW h \in BOOLEAN, PassTakes(i) \/ PassLeaves(i, h) PROVE BudgetInv'
  BY <1>1, <1>3, <1>5 DEF PassTakes, PassLeaves, PassType
<1>6. ASSUME NEW k \in Kinds, PassPlanFails(k) \/ \E P \in SUBSET Changes : PassPlan(k, P) PROVE BudgetInv'
  BY <1>1, <1>3, <1>6 DEF PassPlanFails, PassPlan, PassType
<1>7. ASSUME NEW a \in {"yes", "no"}, PassAsksReach(a) PROVE BudgetInv'
  BY <1>1, <1>3, <1>7 DEF PassAsksReach, PassType
<1>8. ASSUME NEW c \in Changes, PassRecord(c) PROVE BudgetInv'
  <2>1. UNCHANGED begun
    BY <1>8 DEF PassRecord
  <2>2. CASE pass' = [pass EXCEPT !.proposals = @ \ {c}]
    BY <1>1, <1>3, <2>1, <2>2 DEF PassType
  <2>3. ASSUME NEW r \in Ids, pass' = [pass EXCEPT !.proposals = @ \ {c}, !.rows = @ \cup {r}] PROVE BudgetInv'
    BY <1>1, <1>3, <2>1, <2>3 DEF PassType
  <2>4. pass' = [pass EXCEPT !.proposals = @ \ {c}]
        \/ \E r \in Ids : pass' = [pass EXCEPT !.proposals = @ \ {c}, !.rows = @ \cup {r}]
    BY <1>8 DEF PassRecord
  <2> QED BY <2>2, <2>3, <2>4
<1>9. CASE PassReadBackDone \/ PassDone \/ PassRecorded \/ PassWaits \/ PassCloses
  <2>1. CASE PassReadBackDone \/ PassDone
    BY <1>1, <1>3, <2>1 DEF PassReadBackDone, PassDone, PassType, IdlePass
  <2>2. CASE PassRecorded
    BY <1>1, <1>3, <2>2 DEF PassRecorded, PassType
  <2>3. CASE PassWaits
    BY <1>1, <1>3, <2>3 DEF PassWaits, PassType
  <2>4. CASE PassCloses
    BY <1>1, <1>3, <2>4 DEF PassCloses, PassType
  <2> QED BY <1>9, <2>1, <2>2, <2>3, <2>4
<1> QED BY <1>2, <1>4, <1>5, <1>6, <1>7, <1>8, <1>9 DEF PassStep

\* A pass never starts more changes than the cap, whatever the number of modules,
\* refused rows and exceptions.
THEOREM BudgetKeptHolds == Spec => []BudgetKept
<1>1. Init => BudgetInv
  BY ExecutorAssumption DEF Init, BudgetInv, IdlePass, ExecutorAssumption
<1>2. TypeOK /\ BudgetInv /\ [Next]_vars => BudgetInv'
  <2> SUFFICES ASSUME TypeOK, BudgetInv, [Next]_vars PROVE BudgetInv'
    OBVIOUS
  <2>1. ASSUME UNCHANGED <<pass, begun>> PROVE BudgetInv'
    BY <2>1 DEF BudgetInv
  <2>2. CASE UNCHANGED vars \/ (\E t \in Clicks : Click(t)) \/ People \/ Tick
    BY <2>1, <2>2 DEF vars, history, Click, ClickApply, ClickAsPerson, ClickVerify, ClickRevert, ClickRevertAsPerson,
       People, PersonProposes, Delete, SetMode, PauseActions, ResumeActions, SetActuator, ChangeSetting, Tick
  <2>3. ASSUME NEW b \in PassTriggers, PassStart(b) PROVE BudgetInv'
    BY <2>3, ExecutorAssumption DEF PassStart, IdlePass, BudgetInv, ExecutorAssumption
  <2>4. CASE Crash
    BY <2>4, ExecutorAssumption DEF Crash, IdlePass, BudgetInv, ExecutorAssumption, TypeOK, PassTypeOK, PassType
  <2> QED BY <2>2, <2>3, <2>4, BudgetTask, BudgetPass DEF Next
<1>3. TypeOK /\ BudgetInv => BudgetKept
  BY ExecutorAssumption DEF BudgetInv, BudgetKept, TypeOK, PassTypeOK, PassType, ExecutorAssumption
<1> QED BY <1>1, <1>2, <1>3, TypeCorrect, PTL DEF Spec

-----------------------------------------------------------------------------
(* The grace period. *)

\* The date the grace period counts from is the one the row was last opened at.
SinceInv ==
    /\ \A i \in Ids : openSince[i] = IF revived[i] # Never THEN revived[i] ELSE created[i]
    /\ \A i \in Ids : i >= nextId => revived[i] = Never

\* The rows the pass decides on are none of a person's, so only the pass can revive them.
PlannedInv ==
    /\ pass.proposals \cap PageChanges = {}
    /\ pass.phase \in {"record", "decide", "reach", "applying"} => \A i \in pass.rows : change[i] \notin PageChanges
    /\ pass.phase = "reach" => change[pass.row] \notin PageChanges

\* The row about to be applied is ripe.
RipeInv == pass.phase = "reach" => ~GraceLeft(pass.row)

LEMMA SinceStep == TypeOK /\ KnownInv /\ SinceInv /\ [Next]_vars => SinceInv'
<1> SUFFICES ASSUME TypeOK, KnownInv, SinceInv, [Next]_vars PROVE SinceInv'
  OBVIOUS
<1>1. CASE OpensNoRow
  BY <1>1 DEF OpensNoRow, rest, SinceInv
<1>2. CASE Records
  <2>1. PICK c \in Changes, b \in Triggers, r \in Ids : RecordProposal(c, b, r)
    BY <1>2 DEF Records
  <2>2. CASE UNCHANGED ledger
    BY <2>2 DEF ledger, rest, SinceInv
  <2>3. CASE IsNewest(r, RowsOf(c, "stale")) /\ Revive(r, b)
    <3>1. ASSUME NEW i \in Ids, i >= nextId PROVE revived'[i] = Never
      BY <2>3, <3>1 DEF KnownInv, FreshIds, IsNewest, RowsOf, Revive, SinceInv, TypeOK, LedgerTypeOK
    <3>2. ASSUME NEW i \in Ids PROVE openSince'[i] = IF revived'[i] # Never THEN revived'[i] ELSE created'[i]
      BY <2>3 DEF Revive, SinceInv, TypeOK, LedgerTypeOK, WorldTypeOK, Never
    <3> QED BY <2>3, <3>1, <3>2 DEF Revive, SinceInv
  <2>4. CASE r = nextId /\ Insert(c, b)
    BY <2>4 DEF Insert, SinceInv, TypeOK, LedgerTypeOK, Ids
  <2> QED BY <2>1, <2>2, <2>3, <2>4 DEF RecordProposal
<1> QED BY <1>1, <1>2, LedgerStep

\* recordProposal changes no row of another change.
LEMMA OthersStay ==
  ASSUME TypeOK, NEW c \in Changes, NEW b \in Triggers, NEW r \in Ids, RecordProposal(c, b, r)
  PROVE  /\ change'[r] = c
         /\ \A j \in Ids : j < nextId => change'[j] = change[j]
         /\ \A j \in Ids : j < nextId /\ change[j] # c => created'[j] = created[j] /\ revived'[j] = revived[j]
<1>1. CASE IsNewest(r, RowsOf(c, "proposed")) /\ UNCHANGED ledger
  BY <1>1 DEF ledger, rest, IsNewest, RowsOf
<1>2. CASE IsNewest(r, RowsOf(c, "stale")) /\ Revive(r, b)
  BY <1>2 DEF Revive, IsNewest, RowsOf, TypeOK, LedgerTypeOK
<1>3. CASE r = nextId /\ Insert(c, b)
  BY <1>3 DEF Insert, TypeOK, LedgerTypeOK, Ids
<1> QED BY <1>1, <1>2, <1>3 DEF RecordProposal

LEMMA TaskWorks ==
  ASSUME NEW t \in Tasks, TaskStep(t)
  PROVE  task[t].at # "idle"
  BY DEF TaskStep, CapsBack, CallOrRefuse, PersonIdentified, AwsApplies, ApplyReturns, ApplyThrows, ReadBack,
         VerifyReturns, RevertOrThrow, AwsReverts, RevertReturns, RevertThrows

LEMMA PlannedTask ==
  ASSUME TypeOK, PassBusy, PlannedInv, RipeInv, NEW t \in Tasks, TaskStep(t)
  PROVE  PlannedInv' /\ RipeInv'
<1>1. UNCHANGED rest /\ UNCHANGED now
  <2>1. UNCHANGED rest
    BY LedgerTask DEF OpensNoRow
  <2>2. UNCHANGED now
    BY DEF TaskStep, CapsBack, CallOrRefuse, PersonIdentified, AwsApplies, ApplyReturns, ApplyThrows, ReadBack,
           VerifyReturns, RevertOrThrow, AwsReverts, RevertReturns, RevertThrows
  <2> QED BY <2>1, <2>2
<1>2. CASE UNCHANGED pass
  BY <1>1, <1>2 DEF PlannedInv, RipeInv, GraceLeft, rest
<1>3. ASSUME NEW threw \in BOOLEAN, Finish(t, threw), t = PassTask
      PROVE  PlannedInv' /\ RipeInv'
  <2>1. pass.phase \in {"reading", "applying"} /\ pass \in PassType
    BY <1>3, TaskWorks DEF PassBusy, TypeOK, PassTypeOK
  <2>2. CASE threw
    BY <1>3, <2>2 DEF Finish, IdlePass, PlannedInv, RipeInv
  <2>3. CASE ~threw
    <3>1. /\ pass'.proposals = pass.proposals /\ pass'.rows = pass.rows
          /\ pass'.phase = IF pass.phase = "reading" THEN "readback" ELSE "decide"
      BY <1>3, <2>1, <2>3 DEF Finish, PassType
    <3> QED BY <1>1, <2>1, <3>1 DEF PlannedInv, RipeInv, rest
  <2> QED BY <2>2, <2>3
<1> QED BY <1>2, <1>3, TaskShape DEF Finish

LEMMA PlannedElse ==
  ASSUME TypeOK, KnownInv, PlannedInv, RipeInv,
         People \/ Tick \/ Crash \/ (\E t \in Clicks : Click(t)) \/ (\E b \in PassTriggers : PassStart(b))
  PROVE  PlannedInv' /\ RipeInv'
<1>1. CASE \E t \in Clicks : Click(t)
  BY <1>1 DEF Click, ClickApply, ClickAsPerson, ClickVerify, ClickRevert, ClickRevertAsPerson, PlannedInv, RipeInv, GraceLeft, ledger, rest
<1>2. CASE (\E b \in PassTriggers : PassStart(b)) \/ Crash
  <2>1. pass'.phase \in {"readback", "idle"} /\ pass'.proposals = {}
    <3>1. ASSUME NEW b \in PassTriggers, PassStart(b) PROVE pass'.phase = "readback" /\ pass'.proposals = {}
      BY <3>1 DEF PassStart, IdlePass
    <3>2. CASE Crash
      BY <3>2 DEF Crash, IdlePass
    <3> QED BY <1>2, <3>1, <3>2
  <2> QED BY <2>1 DEF PlannedInv, RipeInv
<1>3. CASE Tick
  <2>1. UNCHANGED <<created, revived, change, pass>> /\ now' = now + 1
    BY <1>3 DEF Tick, ledger, rest
  <2>2. ASSUME pass.phase = "reach" PROVE pass.row \in Ids /\ change[pass.row] \in Changes
    BY <2>2 DEF TypeOK, PassTypeOK, LedgerTypeOK
  <2>3. RipeInv'
    BY <2>1, <2>2, ExecutorAssumption DEF RipeInv, GraceLeft, TypeOK, LedgerTypeOK, WorldTypeOK, Never, ExecutorAssumption
  <2> QED BY <2>1, <2>3 DEF PlannedInv
<1>4. ASSUME NEW c \in PageChanges, PersonProposes(c) PROVE PlannedInv' /\ RipeInv'
  <2>1. PICK r \in Ids : RecordProposal(c, "manual", r)
    BY <1>4 DEF PersonProposes
  <2>2. /\ \A j \in Ids : j < nextId => change'[j] = change[j]
        /\ \A j \in Ids : j < nextId /\ change[j] # c => created'[j] = created[j] /\ revived'[j] = revived[j]
    BY <2>1, OthersStay, ExecutorAssumption DEF Triggers, ExecutorAssumption
  <2>3. UNCHANGED <<pass, now>>
    BY <1>4 DEF PersonProposes
  <2>4. /\ pass.rows \subseteq Ids /\ \A i \in pass.rows : i < nextId
        /\ pass.phase = "reach" => pass.row \in Ids /\ pass.row < nextId
    BY DEF KnownInv, PassRowsKnown, TypeOK, PassTypeOK, PassType
  <2>5. PlannedInv'
    BY <2>2, <2>3, <2>4 DEF PlannedInv
  <2>6. ASSUME pass.phase = "reach" PROVE change[pass.row] # c
    BY <2>6 DEF PlannedInv
  <2>7. RipeInv'
    BY <2>2, <2>3, <2>4, <2>6 DEF RipeInv, GraceLeft
  <2> QED BY <2>5, <2>7
<1>5. CASE \/ \E i \in Ids, force \in BOOLEAN : Delete(i, force)
           \/ \E m \in Modes : SetMode(m)
           \/ PauseActions \/ ResumeActions \/ SetActuator
  BY <1>5 DEF Delete, SetMode, PauseActions, ResumeActions, SetActuator, ChangeSetting, PlannedInv, RipeInv, GraceLeft, ledger, rest
<1> QED BY <1>1, <1>2, <1>3, <1>4, <1>5 DEF People

LEMMA PlannedPass ==
  ASSUME TypeOK, KnownInv, PlannedInv, RipeInv, PassStep
  PROVE  PlannedInv' /\ RipeInv'
<1>1. pass \in PassType
  BY DEF TypeOK, PassTypeOK
<1>2. ASSUME NEW i \in Ids, PassReadBack(i) PROVE PlannedInv' /\ RipeInv'
  <2>1. CASE pass' = IdlePass
    BY <2>1 DEF IdlePass, PlannedInv, RipeInv
  <2>2. CASE pass' = [pass EXCEPT !.rows = @ \ {i}] \/ pass' = [pass EXCEPT !.phase = "reading", !.rows = @ \ {i}]
    BY <1>1, <1>2, <2>2 DEF PassReadBack, PassType, PlannedInv, RipeInv
  <2> QED BY <1>2, <2>1, <2>2 DEF PassReadBack
<1>3. ASSUME NEW i \in Ids, PassTakes(i) PROVE PlannedInv' /\ RipeInv'
  <2>1. UNCHANGED <<change, created, revived, now>>
    BY <1>3 DEF PassTakes, ledger, rest, ElseUnchanged
  <2>2. pass'.phase = "reach" /\ pass'.row = i /\ pass'.proposals = pass.proposals /\ pass'.rows = pass.rows \ {i}
    BY <1>1, <1>3 DEF PassTakes, PassType
  <2>3. ~GraceLeft(i) /\ pass.phase = "decide" /\ i \in pass.rows
    BY <1>3 DEF PassTakes
  <2> QED BY <2>1, <2>2, <2>3 DEF PlannedInv, RipeInv, GraceLeft
<1>4. ASSUME NEW i \in Ids, NEW h \in BOOLEAN, PassLeaves(i, h) PROVE PlannedInv' /\ RipeInv'
  BY <1>1, <1>4 DEF PassLeaves, PassType, ledger, rest, PlannedInv, RipeInv
<1>5. ASSUME NEW k \in Kinds, PassPlanFails(k) PROVE PlannedInv' /\ RipeInv'
  BY <1>1, <1>5 DEF PassPlanFails, PassType, PlannedInv, RipeInv
<1>6. ASSUME NEW k \in Kinds, NEW P \in SUBSET Changes, PassPlan(k, P) PROVE PlannedInv' /\ RipeInv'
  BY <1>1, <1>6 DEF PassPlan, PassType, PlannedInv, RipeInv
<1>7. ASSUME NEW a \in {"yes", "no"}, PassAsksReach(a) PROVE PlannedInv' /\ RipeInv'
  <2>1. UNCHANGED <<change, created, revived, now>>
    BY <1>7 DEF PassAsksReach, ledger, rest, ElseUnchanged
  <2>2. pass'.phase = pass.phase /\ pass'.row = pass.row /\ pass'.proposals = pass.proposals /\ pass'.rows = pass.rows
    BY <1>1, <1>7 DEF PassAsksReach, PassType
  <2> QED BY <2>1, <2>2 DEF PlannedInv, RipeInv, GraceLeft
<1>8. ASSUME NEW c \in Changes, PassRecord(c) PROVE PlannedInv' /\ RipeInv'
  <2>1. pass.phase = "record" /\ c \in pass.proposals
    BY <1>8 DEF PassRecord
  <2>2. CASE pass' = [pass EXCEPT !.proposals = @ \ {c}] /\ UNCHANGED ledger
    BY <1>1, <2>1, <2>2 DEF PassType, ledger, rest, PlannedInv, RipeInv
  <2>3. ASSUME NEW r \in Ids, pass' = [pass EXCEPT !.proposals = @ \ {c}, !.rows = @ \cup {r}], RecordProposal(c, pass.by, r)
        PROVE  PlannedInv' /\ RipeInv'
    <3>1. /\ pass'.phase = "record" /\ pass'.proposals = pass.proposals \ {c} /\ pass'.rows = pass.rows \cup {r}
      BY <1>1, <2>1, <2>3 DEF PassType
    <3>2. change'[r] = c /\ \A j \in Ids : j < nextId => change'[j] = change[j]
      BY <1>1, <2>3, OthersStay DEF PassType
    <3>3. pass.rows \subseteq Ids /\ \A i \in pass.rows : i < nextId
      BY <1>1 DEF PassType, KnownInv, PassRowsKnown
    <3> QED BY <2>1, <3>1, <3>2, <3>3 DEF PlannedInv, RipeInv
  <2> QED BY <1>8, <2>2, <2>3 DEF PassRecord
<1>9. CASE PassReadBackDone
  BY <1>1, <1>9 DEF PassReadBackDone, PassType, PlannedInv, RipeInv
<1>10. CASE PassDone
  BY <1>10 DEF PassDone, IdlePass, PlannedInv, RipeInv
<1>11. CASE PassRecorded
  <2>1. UNCHANGED change
    BY <1>11 DEF PassRecorded, ledger, rest
  <2>2. pass'.phase = "decide" /\ pass'.proposals = pass.proposals /\ pass'.rows \subseteq pass.rows
    BY <1>1, <1>11 DEF PassRecorded, PassType
  <2>3. pass.phase = "record"
    BY <1>11 DEF PassRecorded
  <2> QED BY <2>1, <2>2, <2>3 DEF PlannedInv, RipeInv
<1>12. CASE PassWaits
  BY <1>1, <1>12 DEF PassWaits, PassType, ledger, rest, PlannedInv, RipeInv
<1>13. CASE PassApplies
  <2>1. UNCHANGED change /\ pass.phase = "reach"
    BY <1>13 DEF PassApplies, ledger, rest
  <2>2. CASE pass' = IdlePass
    BY <2>2 DEF IdlePass, PlannedInv, RipeInv
  <2>3. CASE \/ pass' = [pass EXCEPT !.phase = "decide", !.row = NoRow, !.budget = @ - 1]
             \/ pass' = [pass EXCEPT !.phase = "applying", !.budget = @ - 1]
    <3>1. pass'.phase \in {"decide", "applying"} /\ pass'.proposals = pass.proposals /\ pass'.rows = pass.rows
      BY <1>1, <2>3 DEF PassType
    <3> QED BY <2>1, <3>1 DEF PlannedInv, RipeInv
  <2> QED BY <1>13, <2>2, <2>3 DEF PassApplies
<1>14. CASE PassCloses
  BY <1>1, <1>14 DEF PassCloses, PassType, PlannedInv, RipeInv
<1> QED BY <1>2, <1>3, <1>4, <1>5, <1>6, <1>7, <1>8, <1>9, <1>10, <1>11, <1>12, <1>13, <1>14 DEF PassStep

\* The pass applies a row only when its grace period has run without a break
\* since it was last opened, whatever deletes, page requests and ticks come between.
THEOREM GraceIsContinuousHolds == Spec => GraceIsContinuous
<1> DEFINE Begins == \A i \in Ids :
             task[PassTask].at = "idle" /\ task'[PassTask].at \in {"caps", "creds"} /\ task'[PassTask].row = i
             => openSince[i] + GraceHours[KindOf[change[i]]] <= now
           GInv == KnownInv /\ PassBusy /\ SinceInv /\ PlannedInv /\ RipeInv
<1>1. Init => GInv
  <2> SUFFICES ASSUME Init PROVE GInv
    OBVIOUS
  <2>1. KnownInv
    BY DEF Init, KnownInv, FreshIds, TaskRowsKnown, PassRowsKnown, IdleTask, IdlePass, NoRow
  <2>2. PassBusy
    BY IdleTyped DEF Init, PassBusy, Tasks
  <2>3. SinceInv /\ PlannedInv /\ RipeInv
    BY DEF Init, SinceInv, PlannedInv, RipeInv, IdlePass, Never
  <2> QED BY <2>1, <2>2, <2>3
<1>2. TypeOK /\ GInv /\ [Next]_vars => GInv'
  <2> SUFFICES ASSUME TypeOK, GInv, [Next]_vars PROVE GInv'
    OBVIOUS
  <2>1. KnownInv' /\ PassBusy' /\ SinceInv'
    BY KnownStep, PassBusyStep, SinceStep
  <2>2. CASE UNCHANGED vars
    <3>1. UNCHANGED <<pass, change, created, revived, now>>
      BY <2>2 DEF vars, ledger, rest
    <3> QED BY <2>1, <3>1 DEF PlannedInv, RipeInv, GraceLeft
  <2>3. CASE Next
    <3>1. ASSUME NEW t \in Tasks, TaskStep(t) PROVE PlannedInv' /\ RipeInv'
      BY <3>1, PlannedTask
    <3>2. CASE PassStep
      BY <2>1, <3>2, PlannedPass
    <3>3. CASE People \/ Tick \/ Crash \/ (\E t \in Clicks : Click(t)) \/ (\E b \in PassTriggers : PassStart(b))
      BY <2>1, <3>3, PlannedElse
    <3> QED BY <2>1, <2>3, <3>1, <3>2, <3>3 DEF Next
  <2> QED BY <2>1, <2>2, <2>3
<1>3. TypeOK /\ GInv /\ [Next]_vars => [Begins]_vars
  <2> SUFFICES ASSUME TypeOK, GInv, Next, NEW i \in Ids,
                      task[PassTask].at = "idle", task'[PassTask].at \in {"caps", "creds"}, task'[PassTask].row = i
               PROVE  openSince[i] + GraceHours[KindOf[change[i]]] <= now
    OBVIOUS
  <2>1. ASSUME NEW t \in Tasks, TaskStep(t) PROVE FALSE
    <3>1. task[t].at # "idle" /\ t # PassTask
      BY <2>1, TaskWorks
    <3> QED BY <2>1, <3>1, TaskShape DEF Finish, TypeOK, TaskTypeOK, Tasks
  <2>2. ASSUME NEW t \in Clicks, Click(t) PROVE FALSE
    BY <2>2, ExecutorAssumption DEF ExecutorAssumption, Click, ClickApply, ClickAsPerson, ClickVerify, ClickRevert, ClickRevertAsPerson,
       Begin, TypeOK, TaskTypeOK, Tasks
  <2>3. CASE People \/ Tick \/ Crash \/ \E b \in PassTriggers : PassStart(b)
    BY <2>3, IdleTyped DEF People, PersonProposes, Delete, SetMode, PauseActions, ResumeActions, SetActuator, ChangeSetting,
       Tick, Crash, PassStart, Tasks
  <2>4. CASE PassStep
    <3>1. ASSUME NEW j \in Ids, PassReadBack(j) PROVE FALSE
      BY <3>1 DEF PassReadBack, Begin, TypeOK, TaskTypeOK, Tasks
    <3>2. CASE PassApplies
      <4>1. pass.phase = "reach" /\ task' = [task EXCEPT ![PassTask] = [at |-> IF pass.by = "manual" THEN "creds" ELSE "caps",
                                                 row |-> pass.row, by |-> pass.by, answer |-> "none"]]
        BY <3>2 DEF PassApplies, Begin
      <4>2. i = pass.row
        BY <4>1 DEF TypeOK, TaskTypeOK, Tasks
      <4>3. change[i] \in Changes /\ created[i] \in Nat /\ (revived[i] # Never => revived[i] \in Nat) /\ now \in Nat
        BY ExecutorAssumption DEF TypeOK, LedgerTypeOK, WorldTypeOK, ExecutorAssumption
      <4>4. GraceHours[KindOf[change[i]]] \in Nat
        BY <4>3, ExecutorAssumption DEF ExecutorAssumption
      <4>5. ~GraceLeft(i) /\ openSince[i] = IF revived[i] # Never THEN revived[i] ELSE created[i]
        BY <4>1, <4>2 DEF RipeInv, SinceInv
      <4> QED BY <4>3, <4>4, <4>5 DEF GraceLeft
    <3>3. CASE UNCHANGED task
      BY <3>3
    <3> QED BY <2>4, <3>1, <3>2, <3>3
            DEF PassStep, PassTakes, PassLeaves, PassPlanFails, PassPlan, PassAsksReach, PassRecord,
                PassReadBackDone, PassDone, PassRecorded, PassWaits, PassCloses
  <2> QED BY <2>1, <2>2, <2>3, <2>4 DEF Next
<1>4. GraceIsContinuous <=> [][Begins]_vars
  BY DEF GraceIsContinuous
<1> QED BY <1>1, <1>2, <1>3, <1>4, TypeCorrect, PTL DEF Spec

-----------------------------------------------------------------------------
(* The refinement of Ledger. *)

\* Only a call's arrival makes a change real, and it writes no row.
LEMMA LandedTask ==
  ASSUME TypeOK, NEW t \in Tasks, TaskStep(t)
  PROVE  UNCHANGED landed \/ (UNCHANGED ledger /\ Monotone)
<1>1. CASE AwsApplies(t)
  <2>1. task[t].row \in Ids
    BY <1>1 DEF AwsApplies, TypeOK, TaskTypeOK
  <2> QED BY <1>1, <2>1 DEF AwsApplies, Monotone, TypeOK, HistoryTypeOK
<1>2. CASE CapsBack(t) \/ CallOrRefuse(t) \/ (\E ok \in BOOLEAN : PersonIdentified(t, ok)) \/ ApplyReturns(t) \/ ApplyThrows(t)
  BY <1>2 DEF CapsBack, CallOrRefuse, PersonIdentified, ApplyReturns, ApplyThrows, history
<1>3. CASE \/ \E a \in {"ok", "no", "pending", "error"} : ReadBack(t, a)
           \/ VerifyReturns(t) \/ RevertOrThrow(t) \/ AwsReverts(t) \/ RevertReturns(t) \/ RevertThrows(t)
  BY <1>3 DEF ReadBack, VerifyReturns, RevertOrThrow, AwsReverts, RevertReturns, RevertThrows, history
<1> QED BY <1>1, <1>2, <1>3 DEF TaskStep

LEMMA LandedStep ==
  ASSUME TypeOK, [Next]_vars
  PROVE  UNCHANGED landed \/ (UNCHANGED ledger /\ Monotone)
<1>1. CASE UNCHANGED vars
  BY <1>1 DEF vars, history
<1>2. ASSUME NEW t \in Clicks, Click(t) PROVE UNCHANGED landed
  BY <1>2 DEF Click, ClickApply, ClickAsPerson, ClickVerify, ClickRevert, ClickRevertAsPerson, history
<1>3. CASE PassStep \/ \E b \in PassTriggers : PassStart(b)
  BY <1>3 DEF PassStep, PassStart, PassReadBack, PassTakes, PassLeaves, PassPlanFails, PassPlan, PassAsksReach, PassRecord,
         PassReadBackDone, PassDone, PassRecorded, PassWaits, PassApplies, PassCloses, ElseUnchanged
<1>4. CASE People \/ Tick
  BY <1>4 DEF People, PersonProposes, Delete, SetMode, PauseActions, ResumeActions, SetActuator, ChangeSetting, Tick, history
<1>5. CASE Crash
  BY <1>5 DEF Crash, Monotone, ledger
<1> QED BY <1>1, <1>2, <1>3, <1>4, <1>5, LandedTask DEF Next

\* What recordProposal does to each row of the table.
LEMMA RecordOpens ==
  ASSUME LedgerTypeOK, FreshIds, NEW c \in Changes, NEW b \in Triggers, NEW r \in Ids, RecordProposal(c, b, r)
  PROVE  /\ nextId' \in {nextId, nextId + 1}
         /\ \A i \in Ids : change'[i] # change[i] => i = nextId
         /\ \A i \in Ids : status'[i] = status[i] \/ (/\ status'[i] = "proposed"
                                                      /\ status[i] = "stale" \/ (i = nextId /\ nextId' = nextId + 1))
<1>1. CASE UNCHANGED ledger
  BY <1>1 DEF ledger, rest
<1>2. CASE IsNewest(r, RowsOf(c, "stale")) /\ Revive(r, b)
  BY <1>2 DEF Revive, IsNewest, RowsOf, LedgerTypeOK
<1>3. CASE r = nextId /\ Insert(c, b)
  BY <1>3 DEF Insert, LedgerTypeOK
<1> QED BY <1>1, <1>2, <1>3 DEF RecordProposal

LEMMA EntryIs ==
  ASSUME LedgerTypeOK, NEW i \in Ids
  PROVE  /\ Entry(i) \in Kept!Entries
         /\ Entry(i) = "none" <=> status[i] = "none"
         /\ Entry(i) = "proposed" <=> status[i] = "proposed"
         /\ Entry(i) = "stale" <=> status[i] = "stale"
         /\ Entry(i) = "done" <=> status[i] \in {"applied", "verified", "reverted"}
  BY DEF Entry, Kept!Entries, LedgerTypeOK, Statuses

\* A step of the executor is a step of the list it keeps.
LEMMA KeptStep ==
  ASSUME TypeOK, TypeOK', FreshIds, FreshIds', AppliedMeansLanded', OneOpenRow', [Next]_vars
  PROVE  Kept!Next
<1> USE DEF TypeOK
<1> DEFINE e == [i \in Ids |-> Entry(i)]
<1>1. \A i \in Ids : /\ e[i] = "none" <=> status[i] = "none"
                     /\ e[i] = "proposed" <=> status[i] = "proposed"
                     /\ e[i] = "stale" <=> status[i] = "stale"
  BY EntryIs
<1>2. \A i \in Ids : /\ e'[i] \in Kept!Entries
                     /\ e'[i] = "none" <=> status'[i] = "none"
                     /\ e'[i] = "proposed" <=> status'[i] = "proposed"
                     /\ e'[i] = "stale" <=> status'[i] = "stale"
                     /\ e'[i] = "done" <=> status'[i] \in {"applied", "verified", "reverted"}
  <2> SUFFICES ASSUME NEW i \in Ids
               PROVE  /\ Entry(i)' \in Kept!Entries
                      /\ Entry(i)' = "none" <=> status'[i] = "none"
                      /\ Entry(i)' = "proposed" <=> status'[i] = "proposed"
                      /\ Entry(i)' = "stale" <=> status'[i] = "stale"
                      /\ Entry(i)' = "done" <=> status'[i] \in {"applied", "verified", "reverted"}
    OBVIOUS
  <2> QED BY DEF Entry, Kept!Entries, LedgerTypeOK, Statuses
<1>3. /\ e' \in [Ids -> Kept!Entries] /\ change' \in [Ids -> Changes] /\ landed' \in [Ids -> BOOLEAN]
      /\ nextId \in Nat
  BY <1>2, ExecutorAssumption DEF LedgerTypeOK, HistoryTypeOK, ExecutorAssumption
<1>4. Monotone
  BY LandedStep DEF Monotone
<1>5. /\ nextId' \in {nextId, nextId + 1}
      /\ \A i \in Ids : change'[i] # change[i] => i = nextId
      /\ \A i \in Ids : /\ status'[i] = "proposed" => status[i] \in {"proposed", "stale"} \/ (i = nextId /\ nextId' = nextId + 1)
                        /\ status'[i] = "stale" => status[i] \in {"proposed", "stale"}
                        /\ status'[i] \notin {"none", "proposed"} => status[i] # "none"
  <2>1. CASE OpensNoRow
    BY <2>1 DEF OpensNoRow, rest
  <2>2. CASE Records
    <3>1. PICK c \in Changes, b \in Triggers, r \in Ids : RecordProposal(c, b, r)
      BY <2>2 DEF Records
    <3> QED BY <3>1, RecordOpens
  <2> QED BY <2>1, <2>2, LedgerStep
<1>6. \A i \in Ids : landed'[i] /\ ~landed[i] => i < nextId
  <2>1. CASE UNCHANGED landed
    BY <2>1
  <2>2. CASE UNCHANGED ledger
    BY <1>3, <2>2 DEF FreshIds, ledger, rest, Ids
  <2> QED BY <2>1, <2>2, LandedStep
<1>7. \A i \in Ids : status'[i] \in {"applied", "verified", "reverted"} => landed'[i]
  BY DEF AppliedMeansLanded
<1>8. \A i, j \in Ids : e'[i] = "proposed" /\ e'[j] = "proposed" /\ change'[i] = change'[j] => i = j
  BY <1>2 DEF OneOpenRow
<1> HIDE DEF e
<1>9. \A i \in Ids : /\ e'[i] = "proposed" => e[i] \in {"proposed", "stale"} \/ (i = nextId /\ nextId' = nextId + 1)
                     /\ e'[i] = "stale" => e[i] \in {"proposed", "stale"}
                     /\ e'[i] = "tried" => e[i] # "none"
                     /\ e'[i] = "done" => e[i] # "none" /\ landed'[i]
  BY <1>1, <1>2, <1>5, <1>7
<1>10. \A i \in Ids : /\ change'[i] # change[i] => i = nextId
                      /\ landed[i] => landed'[i]
                      /\ landed'[i] /\ ~landed[i] => i < nextId
  BY <1>4, <1>5, <1>6 DEF Monotone
<1> USE DEF e
<1> QED BY ONLY <1>3, <1>5, <1>8, <1>9, <1>10 DEF Kept!Next, Kept!MayBecome, Kept!MayOpen

\* The table of actions, however handlers, passes, deletes and restarts write
\* it, keeps what Ledger promises its reader.
THEOREM LedgerKeptHolds == Spec => LedgerKept
<1>1. Init => KnownInv /\ OneOpenRow /\ Kept!Init
  <2> SUFFICES ASSUME Init PROVE KnownInv /\ OneOpenRow /\ Kept!Init
    OBVIOUS
  <2>1. KnownInv /\ OneOpenRow
    BY DEF Init, KnownInv, FreshIds, TaskRowsKnown, PassRowsKnown, IdleTask, IdlePass, NoRow, OneOpenRow
  <2>2. \A i \in Ids : Entry(i) = "none"
    BY DEF Init, Entry
  <2>3. change \in [Ids -> Changes] /\ landed = [i \in Ids |-> FALSE] /\ nextId = 1
    BY ExecutorAssumption DEF Init, ExecutorAssumption
  <2> QED BY <2>1, <2>2, <2>3 DEF Kept!Init
<1>2. TypeOK /\ KnownInv /\ [Next]_vars /\ TypeOK' /\ KnownInv' /\ OneOpenRow' /\ AppliedMeansLanded'
      => [Kept!Next]_(Kept!vars)
  <2> SUFFICES ASSUME TypeOK, KnownInv, [Next]_vars, TypeOK', KnownInv', OneOpenRow', AppliedMeansLanded'
               PROVE  Kept!Next
    OBVIOUS
  <2>1. FreshIds /\ FreshIds'
    BY DEF KnownInv
  <2> QED BY <2>1, KeptStep
<1> QED BY <1>1, <1>2, KnownStep, TypeCorrect, OneOpenRowHolds, AppliedMeansLandedHolds, PTL DEF Spec, LedgerKept, Kept!Spec
=============================================================================
