------------------------- MODULE StagedActionProofs -------------------------
(* Proofs about StagedAction, for any walkers, addresses and bounds. *)
EXTENDS StagedAction, TLAPS

-----------------------------------------------------------------------------
(* Types.  TypeOK alone is not inductive: an id that AWS returned becomes the
   row's only when the handler returns, so the handler's `got` needs its type
   too. *)

Statuses == {"none", "proposed", "refused", "applied", "verified", "failed", "reverted"}
RowOK == status \in Statuses /\ facts \in Facts /\ StageHasIds(facts)
CloudOK ==
    /\ old \in {"running", "stopping", "stopped"}
    /\ image \in [Images -> {"none", "pending", "available"}]
    /\ box \in [Boxes -> [state : {"none", "pending", "ok", "stopped"}, token : Images \cup {None}]]
    /\ home \in [Addresses -> Boxes \cup {None}]
FlagsOK ==
    /\ halted \in BOOLEAN /\ advancing \in BOOLEAN /\ driving \in BOOLEAN /\ events \in 0 .. MaxEvents
    /\ asked \in BOOLEAN /\ torn \in BOOLEAN /\ undone \in BOOLEAN
TaskOK == task \in [Tasks -> TaskType] /\ \A t \in Tasks : StageHasIds(task[t].f)
GotOK ==
    /\ \A t \in Tasks :
        task[t].at = "landed" =>
            \/ task[t].f.stage = "stopping_old" /\ task[t].got \in Finals
            \/ task[t].f.stage = "final_image" /\ task[t].got \in Boxes
    /\ \A t \in Tasks : task[t].at = "begun" /\ task[t].f.live => task[t].got \in Warms
ProcessOK == TaskOK /\ GotOK
TypeInv == RowOK /\ CloudOK /\ FlagsOK /\ ProcessOK

LEMMA TypeInvIsTypeOK == TypeInv => TypeOK
  BY DEF TypeInv, TypeOK, RowOK, Statuses, CloudOK, FlagsOK, ProcessOK, TaskOK

LEMMA Ids ==
  /\ Images \subseteq Nat /\ Boxes \subseteq Nat /\ None \in Nat
  /\ Warms \subseteq Images /\ Finals \subseteq Images /\ Warms \cap Finals = {}
  /\ None \notin Images /\ None \notin Boxes
  /\ "page" \in Tasks /\ Walkers \subseteq Tasks /\ "page" \notin Walkers /\ Appliers \subseteq Tasks
  BY StagedAssumption DEF StagedAssumption, Images, Warms, Finals, Boxes, None, Tasks, Appliers

LEMMA IdleTyped ==
  /\ IdleTask \in TaskType /\ StageHasIds(IdleTask.f) /\ IdleTask.at = "idle"
  /\ \A live, running \in BOOLEAN : Proposed(live, running) \in Facts /\ StageHasIds(Proposed(live, running))
<1>1. \A live, running \in BOOLEAN : Proposed(live, running) \in Facts /\ StageHasIds(Proposed(live, running))
  BY Ids DEF Proposed, Facts, Stages, StageHasIds
<1> QED BY <1>1, Ids DEF IdleTask, TaskType, Places

LEMMA EnterTyped ==
  ASSUME RowOK, ProcessOK, NEW t \in Tasks, NEW at \in Places \ {"landed", "begun"}, Enter(t, at)
  PROVE  ProcessOK'
<1>1. [IdleTask EXCEPT !.at = at, !.f = facts] \in TaskType
  BY IdleTyped DEF RowOK, TaskType
<1>2. TaskOK'
  BY <1>1, IdleTyped DEF Enter, ProcessOK, TaskOK, RowOK, TaskType
<1>3. GotOK'
  BY IdleTyped, Ids DEF Enter, ProcessOK, TaskOK, GotOK, TaskType
<1> QED BY <1>2, <1>3 DEF ProcessOK

LEMMA ReturnTyped ==
  ASSUME ProcessOK, NEW t \in Tasks, Return(t)
  PROVE  ProcessOK'
<1>1. TaskOK'
  BY IdleTyped DEF Return, ProcessOK, TaskOK
<1>2. GotOK'
  BY IdleTyped, Ids DEF Return, ProcessOK, TaskOK, GotOK
<1> QED BY <1>1, <1>2 DEF ProcessOK

LEMMA GoTyped ==
  ASSUME ProcessOK, NEW t \in Tasks, NEW at \in Places \ {"landed"},
         at = "begun" => ~task[t].f.live, Go(t, at)
  PROVE  ProcessOK'
<1>1. TaskOK'
  BY DEF Go, ProcessOK, TaskOK, TaskType
<1>2. GotOK'
  BY Ids DEF Go, ProcessOK, TaskOK, GotOK, TaskType
<1> QED BY <1>1, <1>2 DEF ProcessOK

LEMMA WriteTyped ==
  ASSUME RowOK, NEW s \in Statuses, NEW f \in Facts, StageHasIds(f), Write(s, f)
  PROVE  RowOK'
  BY DEF Write, RowOK

LEMMA AnswersTyped ==
  ASSUME ProcessOK, driving \in BOOLEAN, NEW t \in Tasks, NEW wait \in BOOLEAN, Answers(t, wait)
  PROVE  ProcessOK' /\ driving' \in BOOLEAN
  BY ReturnTyped DEF Answers

LEMMA RecordTyped ==
  ASSUME RowOK, FlagsOK, ProcessOK, NEW t \in Tasks, NEW f \in Facts, StageHasIds(f), RecordStage(t, f)
  PROVE  RowOK' /\ ProcessOK' /\ advancing' \in BOOLEAN /\ driving' \in BOOLEAN
<1>1. RowOK'
  BY WriteTyped DEF RecordStage, RowOK
<1>2. CASE Release /\ Answers(t, f.stage \in Waiting)
  <2>1. driving \in BOOLEAN /\ (f.stage \in Waiting) \in BOOLEAN
    BY DEF FlagsOK
  <2>2. ProcessOK' /\ driving' \in BOOLEAN
    BY <1>2, <2>1, AnswersTyped
  <2> QED BY <1>1, <1>2, <2>2 DEF Release
<1>3. CASE task' = [task EXCEPT ![t] = [IdleTask EXCEPT !.at = "reading", !.f = f]] /\ UNCHANGED <<advancing, driving>>
  <2>1. [IdleTask EXCEPT !.at = "reading", !.f = f] \in TaskType
    BY IdleTyped DEF TaskType, Places
  <2>2. TaskOK'
    BY <1>3, <2>1, IdleTyped DEF ProcessOK, TaskOK, TaskType
  <2>3. GotOK'
    BY <1>3, IdleTyped, Ids DEF ProcessOK, TaskOK, GotOK, TaskType
  <2> QED BY <1>1, <1>3, <2>2, <2>3 DEF ProcessOK, FlagsOK
<1> QED BY <1>2, <1>3 DEF RecordStage

LEMMA TypeInit == Init => TypeInv
<1> SUFFICES ASSUME Init PROVE TypeInv
  OBVIOUS
<1>1. RowOK
  BY IdleTyped DEF Init, RowOK, Statuses
<1>2. CloudOK
  BY Ids DEF Init, CloudOK
<1>3. FlagsOK
  <2>1. events = 0 /\ 0 \in 0 .. MaxEvents
    BY StagedAssumption DEF Init, StagedAssumption
  <2>2. /\ halted = FALSE /\ advancing = FALSE /\ driving = FALSE
        /\ asked = FALSE /\ torn = FALSE /\ undone = FALSE
    BY DEF Init
  <2> QED BY <2>1, <2>2 DEF FlagsOK
<1>4. ProcessOK
  BY IdleTyped, Ids DEF Init, ProcessOK, TaskOK, GotOK
<1> QED BY <1>1, <1>2, <1>3, <1>4 DEF TypeInv

LEMMA EventTyped ==
  ASSUME FlagsOK, Event
  PROVE  events' \in 0 .. MaxEvents
  BY StagedAssumption DEF Event, FlagsOK, StagedAssumption

LEMMA MakeTyped ==
  ASSUME CloudOK, FlagsOK, NEW ids \in SUBSET Images, NEW i \in Nat, MakeImage(ids, i)
  PROVE  image' \in [Images -> {"none", "pending", "available"}] /\ events' \in 0 .. MaxEvents
<1>1. events' \in 0 .. MaxEvents
  BY EventTyped DEF MakeImage, FlagsOK
<1> QED BY <1>1 DEF MakeImage, CloudOK

\* The page or the pass applies the row.
LEMMA ApplyTyped ==
  ASSUME TypeInv, NEW t \in Appliers, ClickApply(t) \/ Apply(t)
  PROVE  TypeInv'
<1> USE Ids
<1>a. RowOK /\ CloudOK /\ FlagsOK /\ ProcessOK /\ t \in Tasks
  BY DEF TypeInv
<1>f. task[t].f \in Facts
  BY <1>a DEF ProcessOK, TaskOK, TaskType
<1>1. CASE ClickApply(t)
  <2>1. ProcessOK'
    BY <1>1, <1>a, EnterTyped DEF ClickApply, Places
  <2> QED BY <1>1, <2>1, <1>a DEF ClickApply, TypeInv, RowOK, CloudOK, FlagsOK, row, cloud, history
<1>2. CASE ApplyRefuses(t)
  <2>1. PICK s \in Statuses : Write(s, facts)
    BY <1>2, <1>a DEF ApplyRefuses, Statuses, RowOK
  <2>2. RowOK' /\ ProcessOK'
    BY <1>2, <2>1, <1>a, WriteTyped, ReturnTyped DEF ApplyRefuses, RowOK
  <2> QED BY <1>2, <2>2, <1>a DEF ApplyRefuses, TypeInv, CloudOK, FlagsOK, cloud, history
<1>4. CASE ApplyLands(t)
  <2>1. CASE task[t].f.live
    <3>1. PICK i \in Warms : MakeImage(Warms, i) /\ task' = [task EXCEPT ![t].at = "begun", ![t].got = i]
      BY <1>4, <2>1 DEF ApplyLands
    <3>2. TaskOK'
      BY <3>1, <1>a DEF ProcessOK, TaskOK, TaskType, Places
    <3>3. GotOK'
      BY <3>1, <1>a DEF ProcessOK, TaskOK, TaskType, GotOK
    <3>4. CloudOK' /\ events' \in 0 .. MaxEvents
      BY <1>4, <2>1, <3>1, <1>a, MakeTyped DEF ApplyLands, CloudOK
    <3> QED BY <1>4, <3>2, <3>3, <3>4, <1>a DEF ApplyLands, TypeInv, ProcessOK, RowOK, FlagsOK, row, history
  <2>2. CASE ~task[t].f.live
    <3>1. ProcessOK'
      BY <1>4, <2>2, <1>a, GoTyped DEF ApplyLands, Places
    <3>2. CloudOK'
      BY <1>4, <2>2, <1>a DEF ApplyLands, CloudOK
    <3> QED BY <1>4, <2>2, <3>1, <3>2, <1>a DEF ApplyLands, TypeInv, RowOK, FlagsOK, row, history
  <2> QED BY <2>1, <2>2
<1>5. CASE ApplyReturns(t)
  <2> DEFINE f == task[t].f
             g == IF f.live THEN [f EXCEPT !.warm = task[t].got, !.stage = "warm_image"]
                            ELSE [f EXCEPT !.stage = "stopping_old"]
  <2>1. f.live => task[t].got \in Images
    BY <1>5, <1>a DEF ApplyReturns, ProcessOK, GotOK
  <2>2. g \in Facts /\ StageHasIds(g)
    BY <2>1, <1>f DEF Facts, Stages, StageHasIds
  <2>3. Write("applied", g) /\ Return(t)
    BY <1>5 DEF ApplyReturns
  <2>4. RowOK' /\ ProcessOK'
    BY <2>2, <2>3, <1>a, WriteTyped, ReturnTyped DEF Statuses
  <2> QED BY <1>5, <2>4, <1>a DEF ApplyReturns, TypeInv, CloudOK, FlagsOK, cloud, history
<1>6. CASE ApplyThrows(t)
  <2>1. RowOK' /\ ProcessOK'
    BY <1>6, <1>a, WriteTyped, ReturnTyped DEF ApplyThrows, Statuses, RowOK
  <2> QED BY <1>6, <2>1, <1>a DEF ApplyThrows, TypeInv, CloudOK, FlagsOK, cloud, history
<1> QED BY <1>1, <1>2, <1>4, <1>5, <1>6 DEF Apply

\* A person's handlers: cut over, revert.
LEMMA PageTyped ==
  ASSUME TypeInv, ClickCutOver \/ ClickRevert \/ PageHandler
  PROVE  TypeInv'
<1> USE Ids
<1>a. RowOK /\ CloudOK /\ FlagsOK /\ ProcessOK
  BY DEF TypeInv
<1>t. task["page"] \in TaskType /\ StageHasIds(task["page"].f)
  BY <1>a DEF ProcessOK, TaskOK
<1>f. task["page"].f \in Facts
  BY <1>t DEF TaskType
<1>2. CASE ClickCutOver
  BY <1>2, <1>a, EnterTyped DEF ClickCutOver, TypeInv, RowOK, CloudOK, FlagsOK, row, cloud, Places, history
<1>3. CASE ClickRevert
  BY <1>3, <1>a, EnterTyped DEF ClickRevert, TypeInv, RowOK, CloudOK, FlagsOK, row, cloud, Places, history
<1>4. CASE Apply("page")
  BY <1>4, ApplyTyped DEF Appliers, Tasks
<1>7. CASE StepLands
  <2>1. ProcessOK'
    BY <1>7, <1>a, GoTyped DEF StepLands, Places
  <2> QED BY <1>7, <2>1, <1>a DEF StepLands, TypeInv, RowOK, CloudOK, FlagsOK, row, history
<1>8. CASE StepReturns
  <2> DEFINE g == [task["page"].f EXCEPT !.stage = "stopping_old", !.offers = FALSE]
  <2>1. g \in Facts /\ StageHasIds(g)
    BY <1>f DEF Facts, Stages, StageHasIds
  <2>2. Write(status, g) /\ Return("page")
    BY <1>8 DEF StepReturns
  <2>3. RowOK' /\ ProcessOK'
    BY <2>1, <2>2, <1>a, WriteTyped, ReturnTyped DEF RowOK
  <2> QED BY <1>8, <2>3, <1>a DEF StepReturns, Release, TypeInv, CloudOK, FlagsOK, cloud, history
<1>9. CASE StepThrows
  <2>1. RowOK' /\ ProcessOK'
    BY <1>9, <1>a, <1>t, <1>f, WriteTyped, ReturnTyped DEF StepThrows, RowOK
  <2> QED BY <1>9, <2>1, <1>a DEF StepThrows, Release, TypeInv, CloudOK, FlagsOK, cloud, history
<1>14. CASE RevertReads
  <2>1. ProcessOK'
    BY <1>14, <1>a, GoTyped DEF RevertReads, Places
  <2> QED BY <1>14, <2>1, <1>a DEF RevertReads, TypeInv, RowOK, CloudOK, FlagsOK, row, cloud, history
<1>10. CASE RevertStartsOld
  <2>1. ProcessOK'
    BY <1>10, <1>a, GoTyped DEF RevertStartsOld, Places
  <2> QED BY <1>10, <2>1, <1>a DEF RevertStartsOld, TypeInv, RowOK, CloudOK, FlagsOK, row, history
<1>11. CASE RevertReturns
  <2> DEFINE g == [task["page"].f EXCEPT !.stage = "reverted", !.offers = FALSE]
  <2>1. g \in Facts /\ StageHasIds(g)
    BY <1>f DEF Facts, Stages, StageHasIds
  <2>2. Write("reverted", g) /\ Return("page")
    BY <1>11 DEF RevertReturns
  <2>3. RowOK' /\ ProcessOK'
    BY <2>1, <2>2, <1>a, WriteTyped, ReturnTyped DEF Statuses
  <2>4. CloudOK'
    BY <1>11, <1>a, <1>f DEF RevertReturns, CloudOK, Facts
  <2> QED BY <1>11, <2>3, <2>4, <1>a DEF RevertReturns, TypeInv, FlagsOK, history
<1>12. CASE RevertThrows
  <2>1. ProcessOK'
    BY <1>12, <1>a, ReturnTyped DEF RevertThrows
  <2> QED BY <1>12, <2>1, <1>a DEF RevertThrows, TypeInv, RowOK, CloudOK, FlagsOK, row, cloud, history
<1>13. ASSUME NEW a \in Addresses, RevertMoves(a) PROVE TypeInv'
  <2>1. TaskOK'
    BY <1>13, <1>a DEF RevertMoves, ProcessOK, TaskOK, TaskType
  <2>2. GotOK'
    BY <1>13, <1>a DEF RevertMoves, ProcessOK, TaskOK, GotOK, TaskType
  <2>3. CloudOK'
    BY <1>13, <1>a DEF RevertMoves, CloudOK
  <2> QED BY <1>13, <2>1, <2>2, <2>3, <1>a DEF RevertMoves, TypeInv, ProcessOK, RowOK, FlagsOK, row, history
<1> QED BY <1>2, <1>3, <1>4, <1>7, <1>8, <1>9, <1>14, <1>10, <1>11, <1>12, <1>13 DEF PageHandler

\* The driver and the pass.
LEMMA WalkTyped ==
  ASSUME TypeInv, NEW t \in Walkers, Walk(t)
  PROVE  TypeInv'
<1> USE Ids
<1>a. RowOK /\ CloudOK /\ FlagsOK /\ ProcessOK /\ t \in Tasks
  BY DEF TypeInv
<1>t. task[t] \in TaskType /\ StageHasIds(task[t].f)
  BY <1>a DEF ProcessOK, TaskOK
<1>f. task[t].f \in Facts
  BY <1>t DEF TaskType
<1>b. driving \in BOOLEAN /\ FALSE \in BOOLEAN
  BY <1>a DEF FlagsOK, history
<1>0. CASE t \in Appliers /\ Apply(t)
  BY <1>0, ApplyTyped
<1>1. CASE AdvanceStarts(t)
  BY <1>1, <1>a, EnterTyped DEF AdvanceStarts, TypeInv, RowOK, CloudOK, FlagsOK, row, cloud, Places, history
<1>2. CASE CredsBack(t)
  <2>1. ProcessOK'
    BY <1>2, <1>a, GoTyped DEF CredsBack, Places
  <2> QED BY <1>2, <2>1, <1>a DEF CredsBack, TypeInv, RowOK, CloudOK, FlagsOK, row, cloud, history
<1>14. CASE StageGoes(t)
  <2>1. ProcessOK'
    BY <1>14, <1>a, GoTyped DEF StageGoes, Places
  <2> QED BY <1>14, <2>1, <1>a DEF StageGoes, TypeInv, RowOK, CloudOK, FlagsOK, row, cloud, history
<1>3. CASE NoCreds(t)
  <2>1. ProcessOK' /\ driving' \in BOOLEAN
    BY <1>3, <1>a, <1>b, AnswersTyped DEF NoCreds
  <2> QED BY <1>3, <2>1, <1>a DEF NoCreds, TypeInv, RowOK, CloudOK, FlagsOK, row, cloud, history
<1>4. ASSUME NEW f \in Facts, StageHasIds(f), RecordStage(t, f), UNCHANGED <<cloud, halted, events, history>>
      PROVE  TypeInv'
  <2>1. RowOK' /\ ProcessOK' /\ advancing' \in BOOLEAN /\ driving' \in BOOLEAN
    BY <1>4, <1>a, RecordTyped
  <2> QED BY <1>4, <2>1, <1>a DEF TypeInv, CloudOK, FlagsOK, cloud, history
<1>5. CASE StageLooks(t)
  <2>1. [task[t].f EXCEPT !.stage = "awaiting_cutover", !.offers = TRUE] \in Facts
    BY <1>f DEF Facts, Stages
  <2>2. StageHasIds([task[t].f EXCEPT !.stage = "awaiting_cutover", !.offers = TRUE])
    BY <1>f DEF Facts, StageHasIds
  <2> QED BY <1>5, <2>1, <2>2, <1>t, <1>f, <1>4 DEF StageLooks
<1>6. CASE StageLands(t)
  <2>1. PICK g : task' = [task EXCEPT ![t].at = "landed", ![t].got = g]
               /\ \/ task[t].f.stage = "stopping_old" /\ g \in Finals /\ MakeImage(Finals, g) /\ UNCHANGED box
                  \/ /\ task[t].f.stage = "final_image" /\ g \in Boxes /\ Launch(g, task[t].f.final)
                     /\ UNCHANGED <<image, events>>
    BY <1>6 DEF StageLands
  <2>2. TaskOK'
    BY <2>1, <1>a DEF ProcessOK, TaskOK, TaskType, Places
  <2>3. GotOK'
    BY <2>1, <1>a DEF ProcessOK, TaskOK, GotOK, TaskType
  <2>4. CloudOK' /\ events' \in 0 .. MaxEvents
    <3>1. CASE task[t].f.stage = "stopping_old"
      BY <1>6, <3>1, <2>1, <1>a, MakeTyped DEF StageLands, CloudOK
    <3>2. CASE task[t].f.stage = "final_image"
      <4>1. task[t].f.final \in Images
        BY <3>2, <1>t DEF StageHasIds
      <4> QED BY <1>6, <3>2, <4>1, <2>1, <1>a DEF StageLands, Launch, CloudOK, FlagsOK, history
    <3> QED BY <2>1, <3>1, <3>2
  <2>5. torn' \in BOOLEAN
    BY <1>6, <1>a DEF StageLands, FlagsOK, history
  <2> QED BY <1>6, <2>2, <2>3, <2>4, <2>5, <1>a DEF StageLands, TypeInv, ProcessOK, RowOK, FlagsOK, row, history
<1>7. CASE StageReturns(t)
  <2>1. CASE task[t].f.stage = "stopping_old"
    <3> DEFINE g == [task[t].f EXCEPT !.final = task[t].got, !.stage = "final_image"]
    <3>1. task[t].got \in Images
      BY <1>7, <2>1, <1>a DEF StageReturns, ProcessOK, GotOK
    <3>2. g \in Facts /\ StageHasIds(g)
      BY <3>1, <1>f DEF Facts, Stages, StageHasIds
    <3> QED BY <1>7, <2>1, <3>2, <1>4 DEF StageReturns
  <2>2. CASE task[t].f.stage # "stopping_old"
    <3> DEFINE g == [task[t].f EXCEPT !.box = task[t].got, !.stage = "launching"]
    <3>1. task[t].got \in Boxes
      BY <1>7, <2>2, <1>a DEF StageReturns, ProcessOK, GotOK
    <3>2. g \in Facts /\ StageHasIds(g)
      BY <3>1, <1>f DEF Facts, Stages, StageHasIds
    <3> QED BY <1>7, <2>2, <3>2, <1>4 DEF StageReturns
  <2> QED BY <2>1, <2>2
<1>8. CASE MovedAll(t)
  <2> DEFINE g == [task[t].f EXCEPT !.moved = Groups, !.stage = "done", !.offers = FALSE]
  <2>1. g \in Facts /\ StageHasIds(g)
    BY <1>f DEF Facts, Stages, StageHasIds
  <2> QED BY <1>8, <2>1, <1>4 DEF MovedAll
<1>m. MovedGroups(t) \subseteq Groups
  BY <1>f DEF MovedGroups, Facts
<1>9. ASSUME NEW g \in SUBSET Groups, Write("failed", [task[t].f EXCEPT !.moved = g]), Release, Answers(t, FALSE)
      PROVE  RowOK' /\ ProcessOK' /\ advancing' \in BOOLEAN /\ driving' \in BOOLEAN
  <2>1. [task[t].f EXCEPT !.moved = g] \in Facts /\ StageHasIds([task[t].f EXCEPT !.moved = g])
    BY <1>f, <1>t DEF Facts, StageHasIds
  <2>2. RowOK'
    BY <1>9, <2>1, <1>a, WriteTyped DEF Statuses
  <2>3. ProcessOK' /\ driving' \in BOOLEAN
    BY <1>9, <1>a, <1>b, AnswersTyped
  <2> QED BY <1>9, <2>2, <2>3 DEF Release
<1>10. CASE StageThrows(t)
  <2> DEFINE g == IF task[t].f.stage = "launching" THEN MovedGroups(t) ELSE task[t].f.moved
  <2>1. g \in SUBSET Groups
    BY <1>m, <1>f DEF Facts
  <2>2. Write("failed", [task[t].f EXCEPT !.moved = g]) /\ Release /\ Answers(t, FALSE)
    BY <1>10 DEF StageThrows
  <2>3. RowOK' /\ ProcessOK' /\ advancing' \in BOOLEAN /\ driving' \in BOOLEAN
    BY <2>1, <2>2, <1>9
  <2> QED BY <1>10, <2>3, <1>a DEF StageThrows, TypeInv, CloudOK, FlagsOK, cloud, history
<1>11. ASSUME NEW a \in Addresses, MovesAddress(t, a) PROVE TypeInv'
  <2>1. task[t].f.box \in Boxes
    BY <1>11, <1>t DEF MovesAddress, StageHasIds
  <2>2. TaskOK'
    BY <1>11, <1>a DEF MovesAddress, ProcessOK, TaskOK, TaskType
  <2>3. GotOK'
    BY <1>11, <1>a DEF MovesAddress, ProcessOK, TaskOK, GotOK, TaskType
  <2>4. CloudOK'
    BY <1>11, <2>1, <1>a DEF MovesAddress, CloudOK
  <2> QED BY <1>11, <2>2, <2>3, <2>4, <1>a DEF MovesAddress, TypeInv, ProcessOK, RowOK, FlagsOK, row, history
<1>12. ASSUME NEW a \in Addresses, MoveUnanswered(t, a) PROVE TypeInv'
  <2>1. task[t].f.box \in Boxes
    BY <1>12, <1>t DEF MoveUnanswered, StageHasIds
  <2>2. RowOK' /\ ProcessOK' /\ advancing' \in BOOLEAN /\ driving' \in BOOLEAN
    BY <1>12, <1>m, <1>9 DEF MoveUnanswered
  <2>3. CloudOK'
    BY <1>12, <2>1, <1>a DEF MoveUnanswered, CloudOK
  <2> QED BY <1>12, <2>2, <2>3, <1>a DEF MoveUnanswered, TypeInv, FlagsOK, history
<1>13. ASSUME NEW s \in {"verified", "failed", status}, VerifyReturns(t, s) PROVE TypeInv'
  <2>1. RowOK'
    BY <1>13, <1>a, WriteTyped DEF VerifyReturns, RowOK, Statuses
  <2>2. ProcessOK' /\ driving' \in BOOLEAN
    BY <1>13, <1>a, <1>b, AnswersTyped DEF VerifyReturns
  <2> QED BY <1>13, <2>1, <2>2, <1>a DEF VerifyReturns, Release, TypeInv, CloudOK, FlagsOK, cloud, history
<1> QED BY <1>0, <1>1, <1>2, <1>14, <1>3, <1>5, <1>6, <1>7, <1>8, <1>10, <1>11, <1>12, <1>13 DEF Walk

\* EC2, the settings, a delete, a restart.
LEMMA WorldTyped ==
  ASSUME TypeInv, DriverStops \/ Ec2 \/ Halt \/ Delete \/ Crash
  PROVE  TypeInv'
<1> USE Ids
<1>a. RowOK /\ CloudOK /\ FlagsOK /\ ProcessOK
  BY DEF TypeInv
<1>e. Event => events' \in 0 .. MaxEvents
  BY <1>a, EventTyped
<1>1. CASE DriverStops
  BY <1>1, <1>a DEF DriverStops, TypeInv, RowOK, CloudOK, FlagsOK, ProcessOK, TaskOK, GotOK, row, cloud, history
<1>2. CASE Ec2
  <2>1. CloudOK'
    BY <1>2, <1>a DEF Ec2, CloudOK
  <2> QED BY <1>2, <2>1, <1>a DEF Ec2, TypeInv, RowOK, FlagsOK, ProcessOK, TaskOK, GotOK, row, process, history
<1>3. CASE Halt
  BY <1>3, <1>a, <1>e DEF Halt, TypeInv, RowOK, CloudOK, FlagsOK, ProcessOK, TaskOK, GotOK, row, cloud, process, history
<1>4. CASE Delete
  BY <1>4, <1>a, <1>e DEF Delete, TypeInv, RowOK, Statuses, CloudOK, FlagsOK, ProcessOK, TaskOK, GotOK, cloud, process, history
<1>5. CASE Crash
  <2>1. ProcessOK'
    BY <1>5, IdleTyped DEF Crash, ProcessOK, TaskOK, GotOK
  <2> QED BY <1>5, <2>1, <1>a, <1>e DEF Crash, TypeInv, RowOK, CloudOK, FlagsOK, row, cloud, history
<1> QED BY <1>1, <1>2, <1>3, <1>4, <1>5

LEMMA TypeStep == TypeInv /\ [Next]_vars => TypeInv'
<1> SUFFICES ASSUME TypeInv, [Next]_vars PROVE TypeInv'
  OBVIOUS
<1>1. CASE UNCHANGED vars
  BY <1>1 DEF TypeInv, RowOK, CloudOK, FlagsOK, ProcessOK, TaskOK, GotOK, vars, row, cloud, process, history
<1> QED BY <1>1, ApplyTyped, PageTyped, WalkTyped, WorldTyped DEF Next

\* Every reachable state of a staged change has its declared type, and a row or a
\* handler past a stage holds the id that stage made.
THEOREM TypeCorrect == Spec => []TypeOK
<1>1. Spec => []TypeInv
  BY TypeInit, TypeStep, PTL DEF Spec
<1> QED BY <1>1, TypeInvIsTypeOK, PTL

-----------------------------------------------------------------------------
(* One box per image.  A launch is the only step that gives a box a token, and
   it gives one that no box has. *)

TokensKept == \A b \in Boxes : box'[b].token = box[b].token

\* Moving, reverting and EC2 itself change a box's state, never its token.
LEMMA TokensStay ==
  ASSUME TypeInv, [Next]_vars, \A t \in Walkers : ~StageLands(t)
  PROVE  TokensKept
<1> USE Ids DEF TokensKept
<1>a. CloudOK /\ task["page"].f \in Facts
  BY DEF TypeInv, ProcessOK, TaskOK, TaskType
<1>1. CASE UNCHANGED vars
  BY <1>1 DEF vars, cloud
<1>2. ASSUME NEW t \in Walkers, Walk(t) PROVE TokensKept
  BY <1>2 DEF Walk, Apply, ApplyRefuses, ApplyLands, ApplyReturns, ApplyThrows, AdvanceStarts, CredsBack,
              NoCreds, StageLooks, StageGoes, StageReturns, MovedAll, StageThrows,
              MovesAddress, MoveUnanswered, VerifyReturns, cloud
<1>3. CASE (\E t \in Appliers : ClickApply(t)) \/ ClickCutOver \/ ClickRevert \/ DriverStops \/ Halt \/ Delete \/ Crash
  BY <1>3 DEF ClickApply, ClickCutOver, ClickRevert, DriverStops, Halt, Delete, Crash, cloud
<1>4. CASE Ec2
  BY <1>4, <1>a DEF Ec2, CloudOK
<1>5. CASE RevertReturns
  BY <1>5, <1>a DEF RevertReturns, CloudOK, Facts
<1>6. CASE PageHandler /\ ~RevertReturns
  BY <1>6 DEF PageHandler, Apply, ApplyRefuses, ApplyLands, ApplyReturns, ApplyThrows, StepLands, StepReturns, StepThrows,
              RevertReads, RevertStartsOld, RevertThrows, RevertMoves, cloud
<1> QED BY <1>1, <1>2, <1>3, <1>4, <1>5, <1>6 DEF Next

OneToken == \A b, c \in Boxes : box[b].token # None /\ box[b].token = box[c].token => b = c

LEMMA OneTokenStep == TypeInv /\ OneToken /\ [Next]_vars => OneToken'
<1> SUFFICES ASSUME TypeInv, OneToken, [Next]_vars PROVE OneToken'
  OBVIOUS
<1>1. CASE \A t \in Walkers : ~StageLands(t)
  BY <1>1, TokensStay DEF OneToken, TokensKept
<1>2. ASSUME NEW t \in Walkers, StageLands(t) PROVE OneToken'
  <2>1. CASE UNCHANGED box
    BY <2>1 DEF OneToken
  <2>2. CASE ~UNCHANGED box
    <3>1. PICK b \in Boxes : Launch(b, task[t].f.final)
      BY <1>2, <2>2 DEF StageLands
    <3>2. /\ \A c \in Boxes : box[c].token # task[t].f.final
          /\ box' = [box EXCEPT ![b] = [state |-> "pending", token |-> task[t].f.final]]
      BY <3>1, <2>2 DEF Launch
    <3>3. \A c \in Boxes : box'[c].token = IF c = b THEN task[t].f.final ELSE box[c].token
      BY <3>2 DEF TypeInv, CloudOK
    <3> QED BY <3>2, <3>3 DEF OneToken
  <2> QED BY <2>1, <2>2
<1> QED BY <1>1, <1>2

\* A box with a token was launched, and no box goes back to not launched.
Launched == \A b \in Boxes : box[b].token # None => box[b].state # "none"

LEMMA LaunchedStep == TypeInv /\ Launched /\ [Next]_vars => Launched'
<1> SUFFICES ASSUME TypeInv, Launched, [Next]_vars PROVE Launched'
  OBVIOUS
<1> USE Ids DEF Launched
<1>a. CloudOK /\ task["page"].f \in Facts
  BY DEF TypeInv, ProcessOK, TaskOK, TaskType
<1>1. CASE UNCHANGED box
  BY <1>1
<1>2. ASSUME NEW t \in Walkers, StageLands(t) PROVE Launched'
  <2>1. CASE ~UNCHANGED box
    <3>1. PICK b \in Boxes : Launch(b, task[t].f.final)
      BY <1>2, <2>1 DEF StageLands
    <3> QED BY <3>1, <1>a DEF Launch, CloudOK
  <2> QED BY <1>1, <2>1
<1>3. CASE Ec2
  BY <1>3, <1>a DEF Ec2, CloudOK
<1>4. CASE RevertReturns
  BY <1>4, <1>a DEF RevertReturns, CloudOK, Facts
<1>5. CASE PageHandler /\ ~RevertReturns
  BY <1>5 DEF PageHandler, Apply, ApplyRefuses, ApplyLands, ApplyReturns, ApplyThrows, StepLands, StepReturns, StepThrows,
              RevertReads, RevertStartsOld, RevertThrows, RevertMoves, cloud
<1>6. ASSUME NEW t \in Walkers, Walk(t), ~StageLands(t) PROVE UNCHANGED box
  BY <1>6 DEF Walk, Apply, ApplyRefuses, ApplyLands, ApplyReturns, ApplyThrows, AdvanceStarts, CredsBack,
              NoCreds, StageLooks, StageGoes, StageReturns, MovedAll, StageThrows,
              MovesAddress, MoveUnanswered, VerifyReturns, cloud
<1>7. CASE (\E t \in Appliers : ClickApply(t)) \/ ClickCutOver \/ ClickRevert \/ DriverStops \/ Halt \/ Delete \/ Crash \/ UNCHANGED vars
  BY <1>7 DEF ClickApply, ClickCutOver, ClickRevert, DriverStops, Halt, Delete, Crash, vars, cloud
<1> QED BY <1>1, <1>2, <1>3, <1>4, <1>5, <1>6, <1>7 DEF Next

\* Time goes one way in EC2: a launched box keeps its token, a complete image stays complete.
Later ==
    /\ \A b \in Boxes : box[b].token # None => box'[b].token = box[b].token
    /\ \A i \in Images : image[i] = "available" => image'[i] = "available"

LEMMA LaterStep == TypeInv /\ Launched /\ [Next]_vars => Later
<1> SUFFICES ASSUME TypeInv, Launched, [Next]_vars PROVE Later
  OBVIOUS
<1>a. CloudOK
  BY DEF TypeInv
<1>1. \A b \in Boxes : box[b].token # None => box'[b].token = box[b].token
  <2>1. CASE \A t \in Walkers : ~StageLands(t)
    BY <2>1, TokensStay DEF TokensKept
  <2>2. ASSUME NEW t \in Walkers, StageLands(t) PROVE \A b \in Boxes : box[b].token # None => box'[b].token = box[b].token
    <3>1. CASE UNCHANGED box
      BY <3>1
    <3>2. CASE ~UNCHANGED box
      <4>1. PICK b \in Boxes : Launch(b, task[t].f.final)
        BY <2>2, <3>2 DEF StageLands
      <4> QED BY <4>1, <3>2, <1>a DEF Launch, CloudOK, Launched
    <3> QED BY <3>1, <3>2
  <2> QED BY <2>1, <2>2
<1>2. \A i \in Images : image[i] = "available" => image'[i] = "available"
  <2>1. ASSUME NEW t \in Walkers, Walk(t) PROVE UNCHANGED image \/ \E ids, i : MakeImage(ids, i)
    BY <2>1 DEF Walk, Apply, ApplyRefuses, ApplyLands, ApplyReturns, ApplyThrows, AdvanceStarts, CredsBack,
              NoCreds, StageLooks, StageGoes, StageLands, StageReturns, MovedAll, StageThrows,
                MovesAddress, MoveUnanswered, VerifyReturns, cloud
  <2>2. CASE PageHandler
    <3>1. UNCHANGED image \/ \E ids, i : MakeImage(ids, i)
      BY <2>2, Ids DEF PageHandler, Apply, ApplyRefuses, ApplyLands, ApplyReturns, ApplyThrows, StepLands, StepReturns, StepThrows,
                  RevertReads, RevertStartsOld, RevertReturns, RevertThrows, RevertMoves, cloud
    <3> QED BY <3>1, <1>a DEF MakeImage, CloudOK
  <2>3. CASE Ec2
    BY <2>3, <1>a DEF Ec2, CloudOK
  <2>4. CASE (\E t \in Appliers : ClickApply(t)) \/ ClickCutOver \/ ClickRevert \/ DriverStops \/ Halt \/ Delete \/ Crash \/ UNCHANGED vars
    BY <2>4 DEF ClickApply, ClickCutOver, ClickRevert, DriverStops, Halt, Delete, Crash, vars, cloud
  <2> QED BY <2>1, <2>2, <2>3, <2>4, <1>a DEF Next, MakeImage, CloudOK
<1> QED BY <1>1, <1>2 DEF Later

-----------------------------------------------------------------------------
(* The box a row names.  Every handler works on the facts it read and writes them
   back whole, so what is true of the row has to be true of every handler's facts:
   the ids they hold came from one another, whichever of them is written last. *)

BeforeLaunch == {"none", "warm_image", "awaiting_cutover", "stopping_old", "final_image"}
NamesBox(f, im, bx) ==
    /\ f.stage \in BeforeLaunch => f.box = None
    /\ f.offers => f.stage = "awaiting_cutover"
    /\ f.final \in Finals \cup {None}
    /\ f.box # None => f.final # None /\ im[f.final] = "available" /\ bx[f.box].token = f.final

Applying == {"applying", "begun"}
Stepping == {"stepping", "stepped"}
\* ... and of the id AWS returned, which the handler has and the row has not.
KeepsName(k, im, bx) ==
    /\ NamesBox(k.f, im, bx)
    /\ k.at \in Applying => k.f.stage = "none"
    /\ k.at \in Stepping => k.f.stage = "awaiting_cutover"
    /\ k.at \in {"acting", "landed"} /\ k.f.stage = "final_image" => im[k.f.final] = "available"
    /\ k.at = "landed" /\ k.f.stage = "final_image" => bx[k.got].token = k.f.final

RowName == NamesBox(facts, image, box)
TaskNames == \A t \in Tasks : KeepsName(task[t], image, box)
\* A row that was not applied has no stage, and nobody walks it.
ProposedInv == status = "proposed" => facts.stage = "none" /\ \A t \in Tasks : task[t].at \in Applying \cup {"idle"}
\* An address leads to the old box or to one made from a complete image of it, stopped.
HomeInv == \A a \in Addresses : home[a] # None =>
    box[home[a]].token \in Finals /\ image[box[home[a]].token] = "available"
NameInv == Launched /\ RowName /\ TaskNames /\ ProposedInv /\ HomeInv

LEMMA NameLater ==
  ASSUME TypeInv, Later, NEW f \in Facts, NamesBox(f, image, box)
  PROVE  NamesBox(f, image', box')
  BY Ids DEF NamesBox, Later, Facts

LEMMA KeepLater ==
  ASSUME TypeInv, Later, NEW t \in Tasks, KeepsName(task[t], image, box)
  PROVE  KeepsName(task[t], image', box')
<1>1. task[t] \in TaskType /\ StageHasIds(task[t].f) /\ task[t].f \in Facts
  BY DEF TypeInv, ProcessOK, TaskOK, TaskType
<1>2. NamesBox(task[t].f, image', box')
  BY <1>1, NameLater DEF KeepsName
<1>3. ASSUME task[t].at \in {"acting", "landed"}, task[t].f.stage = "final_image"
      PROVE  image'[task[t].f.final] = "available"
  BY <1>1, <1>3 DEF StageHasIds, KeepsName, Later
<1>4. ASSUME task[t].at = "landed", task[t].f.stage = "final_image"
      PROVE  box'[task[t].got].token = task[t].f.final
  <2>1. task[t].f.final \in Images
    BY <1>1, <1>4 DEF StageHasIds
  <2>2. task[t].got \in Boxes
    BY <1>4 DEF TypeInv, ProcessOK, GotOK
  <2>3. box[task[t].got].token = task[t].f.final
    BY <1>4 DEF KeepsName
  <2>4. box[task[t].got].token # None
    BY <2>1, <2>3, Ids
  <2> QED BY <2>2, <2>3, <2>4 DEF Later
<1> QED BY <1>2, <1>3, <1>4 DEF KeepsName

LEMMA IdleNames == \A im, bx : KeepsName(IdleTask, im, bx)
  BY Ids DEF KeepsName, NamesBox, IdleTask, Proposed, BeforeLaunch, Applying, Stepping, None

LEMMA RowKept ==
  ASSUME TypeInv, Later, RowName, NEW s, NEW g, NamesBox(g, image', box'), Write(s, g)
  PROVE  RowName'
<1>1. facts \in Facts
  BY DEF TypeInv, RowOK
<1>2. NamesBox(facts, image', box')
  BY <1>1, NameLater DEF RowName
<1> QED BY <1>2 DEF Write, RowName

LEMMA TasksKept ==
  ASSUME TypeInv, Later, TaskNames, NEW t \in Tasks, KeepsName(task'[t], image', box'),
         \A u \in Tasks \ {t} : task'[u] = task[u]
  PROVE  TaskNames'
  BY KeepLater DEF TaskNames

LEMMA EnterKept ==
  ASSUME TypeInv, Later, TaskNames, RowName, NEW t \in Tasks, NEW at \in Places \ {"acting", "landed"}, Enter(t, at),
         at \in Applying => facts.stage = "none", at \in Stepping => facts.stage = "awaiting_cutover"
  PROVE  TaskNames'
<1>1. facts \in Facts /\ TaskOK
  BY DEF TypeInv, RowOK, ProcessOK
<1>2. NamesBox(facts, image', box')
  BY <1>1, NameLater DEF RowName
<1>3. task'[t] = [IdleTask EXCEPT !.at = at, !.f = facts] /\ \A u \in Tasks \ {t} : task'[u] = task[u]
  BY <1>1 DEF Enter, TaskOK
<1>4. task'[t].f = facts /\ task'[t].at = at
  BY <1>3, IdleTyped DEF TaskType
<1> QED BY <1>2, <1>3, <1>4, TasksKept DEF KeepsName

LEMMA ReturnKept ==
  ASSUME TypeInv, Later, TaskNames, NEW t \in Tasks, Return(t)
  PROVE  TaskNames' /\ task'[t].at = "idle" /\ \A u \in Tasks \ {t} : task'[u] = task[u]
<1>1. task'[t] = IdleTask /\ \A u \in Tasks \ {t} : task'[u] = task[u]
  BY DEF Return, TypeInv, ProcessOK, TaskOK
<1> QED BY <1>1, IdleNames, IdleTyped, TasksKept

\* A handler that goes on with the same facts keeps their name.
LEMMA GoKept ==
  ASSUME TypeInv, Later, TaskNames, NEW t \in Tasks, task'[t].f = task[t].f,
         task'[t].at \in Applying => task[t].at \in Applying,
         task'[t].at \in Stepping => task[t].at \in Stepping,
         task'[t].at \notin {"acting", "landed"}, \A u \in Tasks \ {t} : task'[u] = task[u]
  PROVE  TaskNames'
<1>1. KeepsName(task[t], image', box')
  BY KeepLater DEF TaskNames
<1> QED BY <1>1, TasksKept DEF KeepsName

LEMMA RecordKept ==
  ASSUME TypeInv, Later, RowName, TaskNames, NEW t \in Tasks, NEW g \in Facts, NamesBox(g, image', box'), RecordStage(t, g)
  PROVE  RowName' /\ TaskNames'
<1>1. RowName'
  BY RowKept DEF RecordStage
<1>2. CASE Return(t)
  BY <1>1, <1>2, ReturnKept
<1>3. CASE task' = [task EXCEPT ![t] = [IdleTask EXCEPT !.at = "reading", !.f = g]]
  <2>1. task'[t] = [IdleTask EXCEPT !.at = "reading", !.f = g] /\ \A u \in Tasks \ {t} : task'[u] = task[u]
    BY <1>3 DEF TypeInv, ProcessOK, TaskOK
  <2>2. task'[t].f = g /\ task'[t].at = "reading"
    BY <2>1, IdleTyped DEF TaskType
  <2> QED BY <1>1, <2>1, <2>2, TasksKept DEF KeepsName, Applying, Stepping
<1> QED BY <1>2, <1>3 DEF RecordStage, Answers

\* The page or the pass applies the row.
LEMMA NameApply ==
  ASSUME TypeInv, Later, NameInv, NEW t \in Appliers, ClickApply(t) \/ Apply(t)
  PROVE  RowName' /\ TaskNames'
<1> USE Ids
<1> DEFINE f == task[t].f
<1>a. TaskOK /\ t \in Tasks /\ f \in Facts /\ facts \in Facts /\ RowName /\ TaskNames
  BY DEF TypeInv, ProcessOK, TaskOK, TaskType, RowOK, NameInv
<1>n. NamesBox(f, image', box') /\ NamesBox(facts, image', box')
  BY <1>a, NameLater DEF TaskNames, KeepsName, RowName
<1>r. UNCHANGED row => RowName'
  BY <1>n DEF row, RowName
<1>1. CASE ClickApply(t)
  <2>1. facts.stage = "none"
    BY <1>1 DEF ClickApply, NameInv, ProposedInv
  <2> QED BY <1>1, <2>1, <1>a, <1>r, EnterKept DEF ClickApply, Places, Stepping
<1>3. CASE ApplyLands(t)
  <2>1. /\ task'[t].f = f /\ task'[t].at = "begun" /\ task[t].at = "applying"
        /\ \A u \in Tasks \ {t} : task'[u] = task[u]
    BY <1>3, <1>a DEF ApplyLands, Go, TaskOK, TaskType
  <2>2. TaskNames'
    BY <2>1, <1>a, GoKept DEF Applying, Stepping
  <2> QED BY <1>3, <2>2, <1>r DEF ApplyLands
<1>4. CASE ApplyReturns(t)
  <2> DEFINE g == IF f.live THEN [f EXCEPT !.warm = task[t].got, !.stage = "warm_image"]
                            ELSE [f EXCEPT !.stage = "stopping_old"]
  <2>1. f.stage = "none"
    BY <1>4, <1>a DEF ApplyReturns, TaskNames, KeepsName, Applying
  <2>2. g.box = f.box /\ g.final = f.final /\ g.offers = f.offers
    BY <1>a DEF Facts
  <2>3. NamesBox(g, image', box')
    BY <2>1, <2>2, <1>n DEF NamesBox, BeforeLaunch
  <2>4. Write("applied", g) /\ Return(t)
    BY <1>4 DEF ApplyReturns
  <2> QED BY <2>3, <2>4, <1>a, RowKept, ReturnKept
<1>5. CASE ApplyThrows(t) \/ ApplyRefuses(t)
  BY <1>5, <1>a, <1>n, RowKept, ReturnKept DEF ApplyThrows, ApplyRefuses
<1> QED BY <1>1, <1>3, <1>4, <1>5 DEF Apply

\* A person's handlers.
LEMMA NamePage ==
  ASSUME TypeInv, Later, NameInv, ClickCutOver \/ ClickRevert \/ PageHandler
  PROVE  RowName' /\ TaskNames'
<1> USE Ids
<1> DEFINE f == task["page"].f
<1>a. TaskOK /\ f \in Facts /\ facts \in Facts /\ RowName /\ TaskNames
  BY DEF TypeInv, ProcessOK, TaskOK, TaskType, RowOK, NameInv
<1>n. NamesBox(f, image', box') /\ NamesBox(facts, image', box')
  BY <1>a, NameLater DEF TaskNames, KeepsName, RowName
<1>r. UNCHANGED row => RowName'
  BY <1>n DEF row, RowName
<1>2. CASE ClickCutOver
  <2>1. facts.stage = "awaiting_cutover"
    BY <1>2, <1>a DEF ClickCutOver, RowName, NamesBox
  <2> QED BY <1>2, <2>1, <1>a, <1>r, EnterKept DEF ClickCutOver, Places, Applying
<1>3. CASE ClickRevert
  BY <1>3, <1>a, <1>r, EnterKept DEF ClickRevert, Places, Applying, Stepping
<1>4. CASE Apply("page")
  BY <1>4, NameApply DEF Appliers, Tasks
<1>5. CASE StepLands \/ RevertReads \/ RevertStartsOld \/ \E a \in Addresses : RevertMoves(a)
  <2>1. /\ task'["page"].f = f /\ task'["page"].at \notin {"acting", "landed"}
        /\ \A u \in Tasks \ {"page"} : task'[u] = task[u]
        /\ task'["page"].at \notin Applying
        /\ task'["page"].at \in Stepping => task["page"].at \in Stepping
    BY <1>5, <1>a DEF StepLands, RevertReads, RevertStartsOld, RevertMoves, Go, TaskOK, TaskType, Applying, Stepping
  <2>2. TaskNames'
    BY <2>1, <1>a, GoKept
  <2> QED BY <1>5, <2>2, <1>r DEF StepLands, RevertReads, RevertStartsOld, RevertMoves
<1>10. CASE StepReturns
  <2> DEFINE g == [f EXCEPT !.stage = "stopping_old", !.offers = FALSE]
  <2>1. f.stage = "awaiting_cutover"
    BY <1>10, <1>a DEF StepReturns, TaskNames, KeepsName, Stepping
  <2>2. g.box = f.box /\ g.final = f.final /\ g.offers = FALSE
    BY <1>a DEF Facts
  <2>3. NamesBox(g, image', box')
    BY <2>1, <2>2, <1>n DEF NamesBox, BeforeLaunch
  <2>4. Write(status, g) /\ Return("page")
    BY <1>10 DEF StepReturns
  <2> QED BY <2>3, <2>4, <1>a, RowKept, ReturnKept
<1>7. CASE StepThrows
  BY <1>7, <1>a, <1>n, RowKept, ReturnKept DEF StepThrows
<1>8. CASE RevertReturns
  <2> DEFINE g == [f EXCEPT !.stage = "reverted", !.offers = FALSE]
  <2>1. g.box = f.box /\ g.final = f.final /\ g.offers = FALSE /\ g.stage = "reverted"
    BY <1>a DEF Facts, Stages
  <2>2. NamesBox(g, image', box')
    BY <2>1, <1>n DEF NamesBox, BeforeLaunch
  <2>3. Write("reverted", g) /\ Return("page")
    BY <1>8 DEF RevertReturns
  <2> QED BY <2>2, <2>3, <1>a, RowKept, ReturnKept
<1>9. CASE RevertThrows
  BY <1>9, <1>a, <1>r, ReturnKept DEF RevertThrows
<1> QED BY <1>2, <1>3, <1>4, <1>5, <1>7, <1>8, <1>9, <1>10 DEF PageHandler

\* The driver and the pass.
LEMMA NameWalk ==
  ASSUME TypeInv, Later, NameInv, NEW t \in Walkers, Walk(t)
  PROVE  RowName' /\ TaskNames'
<1> USE Ids
<1> DEFINE f == task[t].f
<1>a. TaskOK /\ t \in Tasks /\ f \in Facts /\ facts \in Facts /\ StageHasIds(f) /\ RowName /\ TaskNames
  BY DEF TypeInv, ProcessOK, TaskOK, TaskType, RowOK, NameInv
<1>n. NamesBox(f, image', box') /\ NamesBox(facts, image', box')
  BY <1>a, NameLater DEF TaskNames, KeepsName, RowName
<1>r. UNCHANGED row => RowName'
  BY <1>n DEF row, RowName
<1>0. CASE t \in Appliers /\ Apply(t)
  BY <1>0, NameApply
<1>1. CASE AdvanceStarts(t)
  BY <1>1, <1>a, <1>r, EnterKept DEF AdvanceStarts, Places, Applying, Stepping
<1>2. CASE CredsBack(t)
  <2>1. task'[t].f = f /\ task'[t].at = "staging" /\ \A u \in Tasks \ {t} : task'[u] = task[u]
    BY <1>2, <1>a DEF CredsBack, Go, TaskOK, TaskType
  <2>2. TaskNames'
    BY <2>1, <1>a, GoKept DEF Applying, Stepping
  <2> QED BY <1>2, <2>2, <1>r DEF CredsBack
<1>10. CASE StageGoes(t) \/ \E a \in Addresses : MovesAddress(t, a)
  <2>1. /\ task'[t].f = f /\ task'[t].at = "acting" /\ \A u \in Tasks \ {t} : task'[u] = task[u]
        /\ UNCHANGED <<image, box>>
    BY <1>10, <1>a DEF StageGoes, MovesAddress, Go, TaskOK, TaskType, cloud
  <2>2. f.stage = "final_image" => image[f.final] = "available"
    BY <1>10 DEF StageGoes, MovesAddress, Ready
  <2>3. TaskNames'
    BY <2>1, <2>2, <1>a, <1>n, TasksKept DEF KeepsName, Applying, Stepping
  <2> QED BY <1>10, <2>3, <1>r DEF StageGoes, MovesAddress
<1>3. CASE NoCreds(t)
  BY <1>3, <1>a, <1>r, ReturnKept DEF NoCreds, Answers
<1>4. CASE StageLooks(t)
  <2>1. CASE RecordStage(t, f)
    BY <2>1, <1>a, <1>n, RecordKept
  <2>2. CASE f.stage = "warm_image" /\ RecordStage(t, [f EXCEPT !.stage = "awaiting_cutover", !.offers = TRUE])
    <3> DEFINE g == [f EXCEPT !.stage = "awaiting_cutover", !.offers = TRUE]
    <3>1. g \in Facts /\ g.box = f.box /\ g.final = f.final /\ g.stage = "awaiting_cutover"
      BY <1>a DEF Facts, Stages
    <3>2. NamesBox(g, image', box')
      BY <3>1, <2>2, <1>n DEF NamesBox, BeforeLaunch
    <3> QED BY <2>2, <3>1, <3>2, <1>a, RecordKept
  <2> QED BY <1>4, <2>1, <2>2 DEF StageLooks
<1>5. CASE StageLands(t)
  <2>1. PICK g : /\ task' = [task EXCEPT ![t].at = "landed", ![t].got = g]
                 /\ \/ f.stage = "stopping_old"
                    \/ /\ f.stage = "final_image" /\ UNCHANGED image
                       /\ g \in Boxes /\ Launch(g, f.final)
    BY <1>5 DEF StageLands
  <2>0. f.stage = "final_image" => image[f.final] = "available"
    BY <1>5, <1>a DEF StageLands, TaskNames, KeepsName
  <2>2. task'[t].f = f /\ task'[t].at = "landed" /\ task'[t].got = g /\ \A u \in Tasks \ {t} : task'[u] = task[u]
    BY <2>1, <1>a DEF TaskOK, TaskType
  <2>3. f.stage = "final_image" => image'[f.final] = "available" /\ box'[g].token = f.final
    BY <2>1, <2>0 DEF Launch, TypeInv, CloudOK
  <2>4. KeepsName(task'[t], image', box')
    BY <2>1, <2>2, <2>3, <1>n DEF KeepsName, Applying, Stepping
  <2>5. TaskNames'
    BY <2>2, <2>4, <1>a, TasksKept
  <2> QED BY <1>5, <2>5, <1>r DEF StageLands
<1>6. CASE StageReturns(t)
  <2>1. KeepsName(task[t], image', box') /\ task[t].at = "landed"
    BY <1>6, <1>a, KeepLater DEF StageReturns, TaskNames
  <2>2. CASE f.stage = "stopping_old"
    <3> DEFINE g == [f EXCEPT !.final = task[t].got, !.stage = "final_image"]
    <3>1. task[t].got \in Finals
      BY <2>1, <2>2 DEF TypeInv, ProcessOK, GotOK, KeepsName
    <3>2. g \in Facts /\ g.final = task[t].got /\ g.stage = "final_image" /\ g.box = f.box /\ g.offers = f.offers
      BY <3>1, <1>a DEF Facts, Stages
    <3>3. NamesBox(g, image', box')
      BY <2>2, <3>1, <3>2, <1>n DEF NamesBox, BeforeLaunch
    <3>4. RecordStage(t, g)
      BY <1>6, <2>2 DEF StageReturns
    <3> QED BY <3>2, <3>3, <3>4, <1>a, RecordKept
  <2>3. CASE f.stage # "stopping_old"
    <3> DEFINE g == [f EXCEPT !.box = task[t].got, !.stage = "launching"]
    <3>1. f.stage = "final_image" /\ task[t].got \in Boxes
      BY <2>1, <2>3, <1>a DEF TypeInv, ProcessOK, GotOK
    <3>2. g \in Facts /\ g.box = task[t].got /\ g.stage = "launching" /\ g.final = f.final /\ g.offers = f.offers
      BY <3>1, <1>a DEF Facts, Stages
    <3>3. f.final \in Images /\ image'[f.final] = "available" /\ box'[task[t].got].token = f.final
      BY <2>1, <3>1, <1>a DEF KeepsName, StageHasIds
    <3>4. NamesBox(g, image', box')
      BY <3>1, <3>2, <3>3, <1>n DEF NamesBox, BeforeLaunch
    <3>5. RecordStage(t, g)
      BY <1>6, <2>3 DEF StageReturns
    <3> QED BY <3>2, <3>4, <3>5, <1>a, RecordKept
  <2> QED BY <2>2, <2>3
<1>7. CASE MovedAll(t)
  <2> DEFINE g == [f EXCEPT !.moved = Groups, !.stage = "done", !.offers = FALSE]
  <2>1. g \in Facts /\ g.box = f.box /\ g.final = f.final /\ g.stage = "done" /\ g.offers = FALSE
    BY <1>a DEF Facts, Stages
  <2>2. NamesBox(g, image', box')
    BY <2>1, <1>n DEF NamesBox, BeforeLaunch
  <2> QED BY <1>7, <2>1, <2>2, <1>a, RecordKept DEF MovedAll
<1>8. CASE StageThrows(t) \/ \E a \in Addresses : MoveUnanswered(t, a)
  <2>1. PICK g : /\ g.box = f.box /\ g.final = f.final /\ g.stage = f.stage /\ g.offers = f.offers
                 /\ Write("failed", g) /\ Return(t)
    BY <1>8, <1>a DEF StageThrows, MoveUnanswered, Answers, Facts
  <2>2. NamesBox(g, image', box')
    BY <2>1, <1>n DEF NamesBox
  <2> QED BY <2>1, <2>2, <1>a, RowKept, ReturnKept
<1>9. ASSUME NEW s, VerifyReturns(t, s) PROVE RowName' /\ TaskNames'
  BY <1>9, <1>a, <1>n, RowKept, ReturnKept DEF VerifyReturns, Answers
<1> QED BY <1>0, <1>1, <1>2, <1>10, <1>3, <1>4, <1>5, <1>6, <1>7, <1>8, <1>9 DEF Walk

LEMMA NameStep == TypeInv /\ NameInv /\ [Next]_vars => RowName' /\ TaskNames'
<1> SUFFICES ASSUME TypeInv, NameInv, [Next]_vars PROVE RowName' /\ TaskNames'
  OBVIOUS
<1>a. Later /\ facts \in Facts /\ RowName /\ TaskNames
  BY LaterStep DEF NameInv, TypeInv, RowOK
<1>n. NamesBox(facts, image', box')
  BY <1>a, NameLater DEF RowName
<1>1. CASE UNCHANGED facts /\ UNCHANGED task
  BY <1>1, <1>a, <1>n, KeepLater DEF RowName, TaskNames
<1>2. CASE UNCHANGED vars \/ DriverStops \/ Ec2 \/ Halt \/ Delete
  BY <1>1, <1>2 DEF vars, DriverStops, Ec2, Halt, Delete, row, process
<1>3. CASE Crash
  BY <1>3, <1>n, IdleNames DEF Crash, row, RowName, TaskNames
<1> QED BY <1>a, <1>2, <1>3, NameApply, NamePage, NameWalk DEF Next

LEMMA ProposedStep == TypeInv /\ NameInv /\ [Next]_vars => ProposedInv'
<1> SUFFICES ASSUME TypeInv, ProposedInv, [Next]_vars, status' = "proposed"
             PROVE  facts'.stage = "none" /\ \A t \in Tasks : task'[t].at \in Applying \cup {"idle"}
  BY DEF NameInv, ProposedInv
<1> USE Ids DEF Applying
<1>a. TaskOK
  BY DEF TypeInv, ProcessOK
<1>0. status = "proposed" => /\ facts.stage = "none" /\ task["page"].at \in Applying \cup {"idle"}
                             /\ \A t \in Tasks : task[t].at \in Applying \cup {"idle"}
  BY DEF ProposedInv
<1>1. CASE UNCHANGED vars \/ DriverStops \/ Ec2 \/ Halt \/ Delete
  BY <1>0, <1>1 DEF vars, DriverStops, Ec2, Halt, Delete, row, process
<1>2. CASE Crash
  BY <1>0, <1>2, IdleTyped DEF Crash, row
<1>3. ASSUME NEW t \in Appliers, Apply(t)
      PROVE  facts'.stage = "none" /\ \A u \in Tasks : task'[u].at \in Applying \cup {"idle"}
  <2>1. status = "proposed"
    BY <1>3 DEF Apply, ApplyRefuses, ApplyLands, ApplyReturns, ApplyThrows, Write, row
  <2>2. ApplyRefuses(t) \/ ApplyLands(t)
    BY <1>3, <2>1 DEF Apply, ApplyReturns, ApplyThrows, Write, Exists
  <2>3. CASE ApplyRefuses(t)
    BY <2>1, <2>3, <1>0, <1>a, IdleTyped DEF ApplyRefuses, Return, Write, TaskOK
  <2>4. CASE ApplyLands(t)
    BY <2>1, <2>4, <1>0, <1>a DEF ApplyLands, Go, row, TaskOK, TaskType
  <2> QED BY <2>2, <2>3, <2>4
<1>7. ASSUME NEW t \in Walkers, Walk(t), ~(t \in Appliers /\ Apply(t)) PROVE FALSE
  <2>1. status = "proposed"
    BY <1>7 DEF Walk, AdvanceStarts, CredsBack, NoCreds, StageLooks, StageGoes, StageLands, StageReturns,
                MovedAll, StageThrows, MovesAddress, MoveUnanswered, VerifyReturns,
                RecordStage, Write, row
  <2>2. task[t].at \in Applying \cup {"idle"}
    BY <2>1, <1>0
  <2> QED BY <1>7, <2>1, <2>2 DEF Walk, AdvanceStarts, CredsBack, NoCreds, StageLooks, StageGoes, StageLands, StageReturns,
                MovedAll, StageThrows, MovesAddress, MoveUnanswered, VerifyReturns
<1>4. ASSUME NEW t \in Appliers, ClickApply(t)
      PROVE  facts'.stage = "none" /\ \A u \in Tasks : task'[u].at \in Applying \cup {"idle"}
  BY <1>0, <1>4, <1>a, IdleTyped DEF ClickApply, Enter, row, TaskOK, TaskType
<1>5. CASE ClickCutOver \/ ClickRevert
  BY <1>5 DEF ClickCutOver, ClickRevert, stagedFailure, row
<1>6. CASE PageHandler /\ ~Apply("page")
  <2>1. status = "proposed"
    BY <1>6 DEF PageHandler, StepLands, StepReturns, StepThrows,
                RevertReads, RevertStartsOld, RevertReturns, RevertThrows, RevertMoves, Write, row
  <2>2. task["page"].at \in Applying \cup {"idle"}
    BY <2>1, <1>0
  <2> QED BY <1>6, <2>1, <2>2 DEF PageHandler, StepLands, StepReturns, StepThrows,
                RevertReads, RevertStartsOld, RevertReturns, RevertThrows, RevertMoves
<1>8. "page" \in Appliers
  BY DEF Appliers, Tasks
<1> QED BY <1>1, <1>2, <1>3, <1>4, <1>5, <1>6, <1>7, <1>8 DEF Next

LEMMA HomeStep == TypeInv /\ NameInv /\ [Next]_vars => HomeInv'
<1> SUFFICES ASSUME TypeInv, NameInv, [Next]_vars, NEW a \in Addresses, home'[a] # None
             PROVE  box'[home'[a]].token \in Finals /\ image'[box'[home'[a]].token] = "available"
  BY DEF HomeInv
<1> USE Ids
<1>a. Later /\ CloudOK
  BY LaterStep DEF NameInv, TypeInv
<1>1. CASE home'[a] = home[a]
  BY <1>1, <1>a DEF NameInv, HomeInv, CloudOK, Later
<1>2. ASSUME NEW t \in Walkers, NEW b \in Addresses, MovesAddress(t, b) \/ MoveUnanswered(t, b)
      PROVE  box'[home'[a]].token \in Finals /\ image'[box'[home'[a]].token] = "available"
  <2> DEFINE f == task[t].f
  <2>1. f \in Facts /\ f.box \in Boxes
    BY <1>2 DEF TypeInv, ProcessOK, TaskOK, TaskType, MovesAddress, MoveUnanswered, StageHasIds
  <2>2. NamesBox(f, image, box)
    BY DEF NameInv, TaskNames, KeepsName
  <2>3. f.final \in Finals /\ box[f.box].token = f.final /\ image[f.final] = "available"
    BY <2>1, <2>2 DEF NamesBox, Facts
  <2>4. home'[a] \in {f.box, home[a]} /\ UNCHANGED <<image, box>>
    BY <1>2, <1>a DEF MovesAddress, MoveUnanswered, CloudOK
  <2> QED BY <1>1, <2>3, <2>4
<1>3. ASSUME NEW t \in Walkers, Walk(t), \A b \in Addresses : ~MovesAddress(t, b) /\ ~MoveUnanswered(t, b)
      PROVE  UNCHANGED home
  BY <1>3 DEF Walk, Apply, ApplyRefuses, ApplyLands, ApplyReturns, ApplyThrows, AdvanceStarts, CredsBack,
              NoCreds, StageLooks, StageGoes, StageLands, StageReturns, MovedAll,
              StageThrows, VerifyReturns, cloud
<1>4. CASE PageHandler
  BY <1>1, <1>4, <1>a DEF PageHandler, Apply, ApplyRefuses, ApplyLands, ApplyReturns, ApplyThrows, StepLands, StepReturns, StepThrows,
              RevertReads, RevertStartsOld, RevertReturns, RevertThrows, RevertMoves, cloud, CloudOK
<1>5. CASE (\E t \in Appliers : ClickApply(t)) \/ ClickCutOver \/ ClickRevert \/ DriverStops \/ Ec2 \/ Halt \/ Delete \/ Crash \/ UNCHANGED vars
  BY <1>1, <1>5 DEF ClickApply, ClickCutOver, ClickRevert, DriverStops, Ec2, Halt, Delete, Crash, vars, cloud
<1> QED BY <1>1, <1>2, <1>3, <1>4, <1>5 DEF Next

LEMMA NameInit == Init => OneToken /\ NameInv
<1> SUFFICES ASSUME Init PROVE OneToken /\ NameInv
  OBVIOUS
<1>1. OneToken /\ Launched
  BY DEF Init, OneToken, Launched
<1>2. PICK live, running \in BOOLEAN : facts = Proposed(live, running)
  BY DEF Init
<1>3. RowName
  BY <1>2 DEF RowName, NamesBox, Proposed, BeforeLaunch, None
<1>4. TaskNames
  BY IdleNames DEF Init, TaskNames
<1>5. ProposedInv
  BY <1>2, IdleTyped DEF Init, ProposedInv, Proposed
<1>6. HomeInv
  BY DEF Init, HomeInv
<1> QED BY <1>1, <1>3, <1>4, <1>5, <1>6 DEF NameInv

\* A walker that saw the old box stopped finds it stopped when it takes the final image,
\* unless a revert has started it: nothing else starts it.
TornInv ==
    /\ ~torn
    /\ \A t \in Tasks : task[t].at = "acting" /\ task[t].f.stage = "stopping_old" => old = "stopped" \/ undone

LEMMA TornStep ==
  ASSUME TypeInv, TornInv, [Next]_vars
  PROVE  TornInv'
<1> USE Ids DEF TornInv
<1>a. TaskOK
  BY DEF TypeInv, ProcessOK
<1> DEFINE Moved(t) == /\ \A u \in Tasks \ {t} : task'[u] = task[u]
                       /\ task'[t].at = "acting" => task[t].at = "acting" /\ task'[t].f = task[t].f
           Calm == /\ torn' = FALSE
                   /\ old = "stopped" \/ undone => old' = "stopped" \/ undone'
<1>b. torn = FALSE /\ undone \in BOOLEAN
  BY DEF TypeInv, FlagsOK
<1>1. ASSUME NEW t \in Tasks, Moved(t), Calm PROVE TornInv'
  <2>1. ASSUME NEW u \in Tasks, task'[u].at = "acting", task'[u].f.stage = "stopping_old"
        PROVE  old' = "stopped" \/ undone'
    <3>1. task[u].at = "acting" /\ task[u].f.stage = "stopping_old"
      <4>1. CASE u = t
        BY <1>1, <2>1, <4>1
      <4>2. CASE u # t
        BY <1>1, <2>1, <4>2
      <4> QED BY <4>1, <4>2
    <3> QED BY <1>1, <3>1
  <2> QED BY <1>1, <2>1
<1>2. CASE UNCHANGED task /\ Calm
  BY <1>2
<1>3. ASSUME NEW t \in Appliers, ClickApply(t) \/ Apply(t) PROVE TornInv'
  <2>1. Moved(t)
    <3>1. CASE ClickApply(t)
      BY <3>1, <1>a, IdleTyped DEF ClickApply, Enter, TaskOK, TaskType
    <3>2. CASE ApplyLands(t)
      BY <3>2, <1>a DEF ApplyLands, Go, TaskOK, TaskType
    <3>3. CASE ApplyRefuses(t) \/ ApplyReturns(t) \/ ApplyThrows(t)
      BY <3>3, <1>a, IdleTyped DEF ApplyRefuses, ApplyReturns, ApplyThrows, Return, TaskOK
    <3> QED BY <1>3, <3>1, <3>2, <3>3 DEF Apply
  <2>2. Calm
    BY <1>3, <1>b DEF ClickApply, Apply, ApplyRefuses, ApplyLands, ApplyReturns, ApplyThrows, cloud, history
  <2> QED BY <1>1, <2>1, <2>2
<1>4. ASSUME NEW t \in Walkers, StageGoes(t) PROVE TornInv'
  BY <1>4, <1>a, <1>b DEF StageGoes, Ready, Go, TaskOK, TaskType, cloud, history
<1>5. ASSUME NEW t \in Walkers, StageLands(t) PROVE TornInv'
  <2>1. undone' = undone /\ old' = old
    BY <1>5 DEF StageLands
  <2>3. ASSUME torn' = FALSE PROVE TornInv'
    <3>1. Moved(t)
      BY <1>5, <1>a DEF StageLands, TaskOK, TaskType
    <3> QED BY <1>1, <2>1, <2>3, <3>1
  <2>2. CASE task[t].f.stage = "stopping_old"
    <3>1. torn' = (torn \/ (old # "stopped" /\ ~undone))
      BY <1>5, <2>2 DEF StageLands
    <3>2. old = "stopped" \/ undone
      BY <1>5, <2>2 DEF StageLands
    <3>3. torn' = FALSE
      BY <1>b, <3>1, <3>2
    <3> QED BY <2>1, <3>3, <2>3
  <2>4. CASE task[t].f.stage # "stopping_old"
    <3>1. torn' = FALSE
      BY <1>5, <2>4, <1>b DEF StageLands
    <3> QED BY <2>1, <3>1, <2>3
  <2> QED BY <2>2, <2>4
<1>6. ASSUME NEW t \in Walkers, Walk(t), ~(t \in Appliers /\ Apply(t)), ~StageGoes(t), ~StageLands(t) PROVE TornInv'
  <2>1. Moved(t)
    <3>1. ASSUME NEW g, RecordStage(t, g) PROVE Moved(t)
      BY <3>1, <1>a, IdleTyped DEF RecordStage, Answers, Return, TaskOK, TaskType
    <3>2. CASE StageLooks(t) \/ StageReturns(t) \/ MovedAll(t)
      BY <3>1, <3>2 DEF StageLooks, StageReturns, MovedAll
    <3>3. ASSUME Return(t) PROVE Moved(t)
      BY <3>3, <1>a, IdleTyped DEF Return, TaskOK
    <3>4. CASE NoCreds(t) \/ StageThrows(t) \/ (\E b \in Addresses : MoveUnanswered(t, b)) \/ \E r : VerifyReturns(t, r)
      BY <3>3, <3>4 DEF NoCreds, StageThrows, MoveUnanswered, VerifyReturns, Answers
    <3>5. CASE AdvanceStarts(t) \/ CredsBack(t)
      BY <3>5, <1>a, IdleTyped DEF AdvanceStarts, CredsBack, Enter, Go, TaskOK, TaskType
    <3>6. CASE \E b \in Addresses : MovesAddress(t, b)
      BY <3>6, <1>a DEF MovesAddress, TaskOK, TaskType
    <3> QED BY <1>6, <3>2, <3>4, <3>5, <3>6 DEF Walk
  <2>2. Calm
    <3>1. UNCHANGED old /\ UNCHANGED history
      BY <1>6 DEF Walk, AdvanceStarts, CredsBack, NoCreds, StageLooks, StageReturns, MovedAll,
                  StageThrows, MovesAddress, MoveUnanswered, VerifyReturns, cloud
    <3> QED BY <3>1, <1>b DEF history
  <2> QED BY <1>1, <2>1, <2>2
<1>7. CASE ClickCutOver \/ ClickRevert \/ (PageHandler /\ ~Apply("page"))
  <2>1. Moved("page")
    <3>1. CASE ClickCutOver \/ ClickRevert
      BY <3>1, <1>a, IdleTyped DEF ClickCutOver, ClickRevert, Enter, TaskOK, TaskType
    <3>2. CASE StepLands \/ RevertReads \/ RevertStartsOld \/ \E a \in Addresses : RevertMoves(a)
      BY <3>2, <1>a DEF StepLands, RevertReads, RevertStartsOld, RevertMoves, Go, TaskOK, TaskType
    <3>3. CASE StepReturns \/ StepThrows \/ RevertReturns \/ RevertThrows
      BY <3>3, <1>a, IdleTyped DEF StepReturns, StepThrows, RevertReturns, RevertThrows, Return, TaskOK
    <3> QED BY <1>7, <3>1, <3>2, <3>3 DEF PageHandler
  <2>2. Calm
    BY <1>7, <1>b DEF ClickCutOver, ClickRevert, PageHandler, StepLands, StepReturns, StepThrows,
              RevertReads, RevertStartsOld, RevertReturns, RevertThrows, RevertMoves, cloud, history
  <2> QED BY <1>1, <2>1, <2>2
<1>8. CASE UNCHANGED vars \/ DriverStops \/ Ec2 \/ Halt \/ Delete
  BY <1>2, <1>8, <1>b DEF vars, DriverStops, Ec2, Halt, Delete, cloud, process, history
<1>9. CASE Crash
  BY <1>9, <1>b, IdleTyped DEF Crash, cloud, history
<1>10. "page" \in Appliers
  BY DEF Appliers, Tasks
<1> QED BY <1>3, <1>4, <1>5, <1>6, <1>7, <1>8, <1>9, <1>10 DEF Next

LEMMA NamesAreOneBox == TypeInv /\ OneToken /\ NameInv /\ TornInv => OneBoxPerImage
<1> SUFFICES ASSUME TypeInv, OneToken, NameInv, TornInv PROVE OneBoxPerImage
  OBVIOUS
<1>1. facts.box # None => /\ box[facts.box].token = facts.final
                          /\ facts.final \in Finals /\ image[facts.final] = "available"
  BY DEF NameInv, RowName, NamesBox, TypeInv, RowOK, Facts
<1>2. \A a \in Addresses : home[a] # None =>
          box[home[a]].token \in Finals /\ image[box[home[a]].token] = "available"
  BY DEF NameInv, HomeInv
<1> QED BY <1>1, <1>2 DEF OneBoxPerImage, OneToken, TornInv

\* However often a launch is retried, after a lost reply, a restart or by two walkers of
\* the row at once, at most one box is ever made from an image; and whichever of them wrote
\* its facts last, the box of the row, and every box that an address was moved to, is one
\* made from a complete final image; and no final image is taken of a running box, but for
\* one that a revert has started between the walker's look at it and its call.
THEOREM OneBoxPerImageHolds == Spec => []OneBoxPerImage
<1> DEFINE Inv == TypeInv /\ OneToken /\ NameInv /\ TornInv
<1>0. Init => TornInv
  BY IdleTyped DEF Init, TornInv
<1>1. Init => Inv
  BY <1>0, TypeInit, NameInit
<1>2. Inv /\ [Next]_vars => Inv'
  BY TypeStep, OneTokenStep, LaunchedStep, NameStep, ProposedStep, HomeStep, TornStep DEF NameInv
<1>3. Inv => OneBoxPerImage
  BY NamesAreOneBox
<1> QED BY <1>1, <1>2, <1>3, PTL DEF Spec

-----------------------------------------------------------------------------
(* Cut over.  Whether the box is live is fixed when the row is proposed, and
   every handler at work read it from the row; the handler that stops a live
   box exists only because a person clicked. *)

LiveInv == \A t \in Tasks : task[t].at # "idle" => task[t].f.live = facts.live
AskedInv == task["page"].at = "stepping" => asked
CutOverInv == LiveInv /\ AskedInv /\ CutOverIsAsked

\* The facts a handler at work holds, and what it makes of them, are of the row's mode.
LEMMA LiveEnter ==
  ASSUME TypeInv, LiveInv, NEW t \in Tasks, NEW at \in Places, Enter(t, at), UNCHANGED row
  PROVE  LiveInv'
  BY IdleTyped DEF LiveInv, Enter, row, TypeInv, ProcessOK, TaskOK, TaskType, RowOK, IdleTask

LEMMA LiveReturn ==
  ASSUME TypeInv, LiveInv, NEW t \in Tasks, NEW s, NEW g, g.live = facts.live, Write(s, g), Return(t)
  PROVE  LiveInv' /\ facts'.live = facts.live
  BY IdleTyped DEF LiveInv, Return, Write, TypeInv, ProcessOK, TaskOK

LEMMA LiveRecord ==
  ASSUME TypeInv, LiveInv, NEW t \in Tasks, NEW g \in Facts, g.live = facts.live, RecordStage(t, g)
  PROVE  LiveInv' /\ facts'.live = facts.live
<1>1. Write(status, g)
  BY DEF RecordStage
<1>2. CASE Return(t)
  BY <1>1, <1>2, LiveReturn
<1>3. CASE task' = [task EXCEPT ![t] = [IdleTask EXCEPT !.at = "reading", !.f = g]]
  <2>1. facts'.live = facts.live
    BY <1>1 DEF Write
  <2> QED BY <1>3, <2>1, IdleTyped DEF LiveInv, TypeInv, ProcessOK, TaskOK, TaskType
<1> QED BY <1>2, <1>3 DEF RecordStage, Answers

LEMMA LiveApply ==
  ASSUME TypeInv, LiveInv, NEW t \in Appliers, ClickApply(t) \/ Apply(t)
  PROVE  LiveInv' /\ facts'.live = facts.live
<1> USE Ids
<1>a. TaskOK /\ task[t].f \in Facts /\ t \in Tasks
  BY DEF TypeInv, ProcessOK, TaskOK, TaskType
<1>1. CASE ClickApply(t)
  BY <1>1, <1>a, LiveEnter DEF ClickApply, row, Places
<1>2. CASE ApplyLands(t)
  BY <1>2, <1>a DEF ApplyLands, Go, row, LiveInv, TaskOK, TaskType
<1>3. CASE ApplyReturns(t)
  <2>1. task[t].f.live = facts.live
    BY <1>3, <1>a DEF ApplyReturns, LiveInv
  <2>2. PICK s, g : g.live = facts.live /\ Write(s, g) /\ Return(t)
    BY <1>3, <2>1, <1>a DEF ApplyReturns, Facts
  <2> QED BY <2>2, <1>a, LiveReturn
<1>4. CASE ApplyThrows(t) \/ ApplyRefuses(t)
  BY <1>4, <1>a, LiveReturn DEF ApplyThrows, ApplyRefuses
<1> QED BY <1>1, <1>2, <1>3, <1>4 DEF Apply

LEMMA LivePage ==
  ASSUME TypeInv, LiveInv, ClickCutOver \/ ClickRevert \/ PageHandler
  PROVE  LiveInv' /\ facts'.live = facts.live
<1> USE Ids
<1>a. TaskOK /\ task["page"].f \in Facts
  BY DEF TypeInv, ProcessOK, TaskOK, TaskType
<1>1. CASE ClickCutOver \/ ClickRevert
  BY <1>1, LiveEnter DEF ClickCutOver, ClickRevert, row, Places
<1>2. CASE StepLands \/ RevertReads \/ RevertStartsOld \/ \E a \in Addresses : RevertMoves(a)
  BY <1>2, <1>a DEF StepLands, RevertReads, RevertStartsOld, RevertMoves, Go, row, LiveInv, TaskOK, TaskType
<1>3. CASE StepReturns \/ RevertReturns
  <2>1. task["page"].f.live = facts.live
    BY <1>3 DEF StepReturns, RevertReturns, LiveInv
  <2>2. PICK s, g : g.live = facts.live /\ Write(s, g) /\ Return("page")
    BY <1>3, <2>1, <1>a DEF StepReturns, RevertReturns, Facts
  <2> QED BY <2>2, LiveReturn
<1>4. CASE Apply("page")
  BY <1>4, LiveApply DEF Appliers, Tasks
<1>5. CASE StepThrows
  BY <1>5, LiveReturn DEF StepThrows, LiveInv
<1>6. CASE RevertThrows
  BY <1>6, IdleTyped, <1>a DEF RevertThrows, Return, row, LiveInv, TaskOK
<1> QED BY <1>1, <1>2, <1>3, <1>4, <1>5, <1>6 DEF PageHandler

LEMMA LiveWalk ==
  ASSUME TypeInv, LiveInv, NEW t \in Walkers, Walk(t)
  PROVE  LiveInv' /\ facts'.live = facts.live
<1> USE Ids
<1>a. TaskOK /\ task[t].f \in Facts /\ t \in Tasks
  BY DEF TypeInv, ProcessOK, TaskOK, TaskType
<1>0. CASE t \in Appliers /\ Apply(t)
  BY <1>0, LiveApply
<1>1. CASE AdvanceStarts(t)
  BY <1>1, <1>a, LiveEnter DEF AdvanceStarts, row, Places
<1>2. CASE CredsBack(t) \/ StageGoes(t) \/ StageLands(t) \/ \E a \in Addresses : MovesAddress(t, a)
  BY <1>2, <1>a DEF CredsBack, StageGoes, StageLands, MovesAddress, Go, row, LiveInv, TaskOK, TaskType
<1>3. CASE NoCreds(t)
  BY <1>3, IdleTyped, <1>a DEF NoCreds, Answers, Return, row, LiveInv, TaskOK
<1>4. CASE StageLooks(t)
  <2>1. task[t].f.live = facts.live
    BY <1>4, <1>a DEF StageLooks, LiveInv
  <2>2. CASE RecordStage(t, task[t].f)
    BY <2>1, <2>2, <1>a, LiveRecord
  <2>3. CASE RecordStage(t, [task[t].f EXCEPT !.stage = "awaiting_cutover", !.offers = TRUE])
    <3>1. [task[t].f EXCEPT !.stage = "awaiting_cutover", !.offers = TRUE] \in Facts
      BY <1>a DEF Facts, Stages
    <3>2. [task[t].f EXCEPT !.stage = "awaiting_cutover", !.offers = TRUE].live = facts.live
      BY <1>a, <2>1 DEF Facts
    <3> QED BY <2>3, <3>1, <3>2, <1>a, LiveRecord
  <2> QED BY <1>4, <2>2, <2>3 DEF StageLooks
<1>5. CASE StageReturns(t)
  <2> DEFINE g == IF task[t].f.stage = "stopping_old"
                  THEN [task[t].f EXCEPT !.final = task[t].got, !.stage = "final_image"]
                  ELSE [task[t].f EXCEPT !.box = task[t].got, !.stage = "launching"]
  <2>1. task[t].f.live = facts.live
    BY <1>5, <1>a DEF StageReturns, LiveInv
  <2>2. IF task[t].f.stage = "stopping_old" THEN task[t].got \in Images ELSE task[t].got \in Boxes
    BY <1>5, <1>a DEF StageReturns, TypeInv, ProcessOK, GotOK
  <2>3. g \in Facts /\ g.live = facts.live
    BY <2>1, <2>2, <1>a DEF Facts, Stages
  <2>4. RecordStage(t, g)
    BY <1>5 DEF StageReturns
  <2> QED BY <2>3, <2>4, <1>a, LiveRecord
<1>6. CASE MovedAll(t)
  <2> DEFINE g == [task[t].f EXCEPT !.moved = Groups, !.stage = "done", !.offers = FALSE]
  <2>1. task[t].f.live = facts.live
    BY <1>6, <1>a DEF MovedAll, LiveInv
  <2>2. g \in Facts /\ g.live = facts.live
    BY <2>1, <1>a DEF Facts, Stages
  <2>3. RecordStage(t, g)
    BY <1>6 DEF MovedAll
  <2> QED BY <2>2, <2>3, <1>a, LiveRecord
<1>7. CASE StageThrows(t) \/ \E a \in Addresses : MoveUnanswered(t, a)
  <2>1. task[t].f.live = facts.live
    BY <1>7, <1>a DEF StageThrows, MoveUnanswered, LiveInv
  <2>2. PICK g : g.live = facts.live /\ Write("failed", g) /\ Return(t)
    BY <1>7, <2>1, <1>a DEF StageThrows, MoveUnanswered, Answers, Facts
  <2> QED BY <2>2, <1>a, LiveReturn
<1>8. ASSUME NEW s, VerifyReturns(t, s) PROVE LiveInv' /\ facts'.live = facts.live
  BY <1>8, <1>a, LiveReturn DEF VerifyReturns, Answers
<1> QED BY <1>0, <1>1, <1>2, <1>3, <1>4, <1>5, <1>6, <1>7, <1>8 DEF Walk

LEMMA LiveStep ==
  ASSUME TypeInv, LiveInv, [Next]_vars
  PROVE  LiveInv' /\ facts'.live = facts.live
<1>1. CASE UNCHANGED vars
  BY <1>1 DEF vars, row, process, LiveInv
<1>2. CASE DriverStops \/ Ec2 \/ Halt \/ Delete
  BY <1>2 DEF DriverStops, Ec2, Halt, Delete, row, process, LiveInv
<1>3. CASE Crash
  BY <1>3, IdleTyped DEF Crash, row, LiveInv
<1> QED BY <1>1, <1>2, <1>3, LiveApply, LivePage, LiveWalk DEF Next

LEMMA AskedStep ==
  ASSUME TypeInv, AskedInv, [Next]_vars
  PROVE  AskedInv' /\ (asked => asked')
<1> USE Ids DEF AskedInv
<1>a. TaskOK
  BY DEF TypeInv, ProcessOK
<1>1. CASE UNCHANGED vars
  BY <1>1 DEF vars, process, history
<1>2. ASSUME NEW t \in Walkers, Walk(t) PROVE task'["page"] = task["page"] /\ asked' = asked
  <2>1. t # "page"
    OBVIOUS
  <2> QED BY <1>2, <2>1, <1>a DEF Walk, Apply, ApplyRefuses, ApplyLands, ApplyReturns, ApplyThrows, AdvanceStarts, CredsBack,
              NoCreds, StageLooks, StageGoes, StageLands, StageReturns,
              MovedAll, StageThrows, MovesAddress, MoveUnanswered, VerifyReturns, RecordStage, Answers,
              Return, Enter, Go, TaskOK, history
<1>3. CASE (\E t \in Appliers : ClickApply(t)) \/ ClickRevert
  BY <1>3, <1>a, IdleTyped DEF ClickApply, ClickRevert, Enter, TaskOK, TaskType, history
<1>4. CASE ClickCutOver
  BY <1>4 DEF ClickCutOver
<1>5. CASE PageHandler
  BY <1>5, <1>a, IdleTyped DEF PageHandler, Apply, ApplyRefuses, ApplyLands, ApplyReturns, ApplyThrows, StepLands, StepReturns,
              StepThrows, RevertReads, RevertStartsOld, RevertReturns, RevertThrows, RevertMoves, Go, Return, TaskOK, TaskType, history
<1>6. CASE DriverStops \/ Ec2 \/ Halt \/ Delete
  BY <1>6 DEF DriverStops, Ec2, Halt, Delete, process, history
<1>7. CASE Crash
  BY <1>7, IdleTyped DEF Crash, history
<1> QED BY <1>1, <1>2, <1>3, <1>4, <1>5, <1>6, <1>7 DEF Next

\* Only apply of a stop-mode row and a person's step stop the old box.
LEMMA OldStops ==
  ASSUME TypeInv, LiveInv, AskedInv, [Next]_vars, facts.live, old = "running", old' # "running"
  PROVE  asked
<1>1. CASE UNCHANGED vars
  BY <1>1 DEF vars, cloud
<1>2. ASSUME NEW t \in Walkers, Walk(t), ~(t \in Appliers /\ Apply(t)) PROVE FALSE
  BY <1>2 DEF Walk, AdvanceStarts, CredsBack, NoCreds, StageLooks, StageGoes, StageLands, StageReturns, MovedAll,
              StageThrows, MovesAddress, MoveUnanswered, VerifyReturns, cloud
<1>3. ASSUME NEW t \in Appliers, Apply(t) PROVE FALSE
  <2>1. task[t].at = "applying" => task[t].f.live
    BY Ids DEF LiveInv
  <2> QED BY <1>3, <2>1 DEF Apply, ApplyRefuses, ApplyLands, ApplyReturns, ApplyThrows, cloud
<1>4. CASE StepLands
  BY <1>4 DEF StepLands, AskedInv
<1>5. CASE PageHandler /\ ~Apply("page") /\ ~StepLands
  BY <1>5 DEF PageHandler, StepReturns, StepThrows, RevertReads, RevertStartsOld,
              RevertReturns, RevertThrows, RevertMoves, cloud
<1>7. "page" \in Appliers
  BY DEF Appliers, Tasks
<1>6. CASE (\E t \in Appliers : ClickApply(t)) \/ ClickCutOver \/ ClickRevert \/ DriverStops \/ Ec2 \/ Halt \/ Delete \/ Crash
  BY <1>6 DEF ClickApply, ClickCutOver, ClickRevert, DriverStops, Ec2, Halt, Delete, Crash, cloud
<1> QED BY <1>1, <1>2, <1>3, <1>4, <1>5, <1>6, <1>7 DEF Next

\* A box that has to stay up is not stopped before a person asks for the cut over,
\* by whatever walk, retry, overlap or restart its row goes through.
THEOREM CutOverIsAskedHolds == Spec => []CutOverIsAsked
<1>1. Init => TypeInv /\ CutOverInv
  <2> SUFFICES ASSUME Init PROVE TypeInv /\ CutOverInv
    OBVIOUS
  <2>1. LiveInv /\ AskedInv
    BY Ids, IdleTyped DEF Init, LiveInv, AskedInv
  <2>2. CutOverIsAsked
    BY DEF Init, Proposed, CutOverIsAsked
  <2> QED BY TypeInit, <2>1, <2>2 DEF CutOverInv
<1>2. TypeInv /\ CutOverInv /\ [Next]_vars => (TypeInv /\ CutOverInv)'
  <2> SUFFICES ASSUME TypeInv, CutOverInv, [Next]_vars PROVE TypeInv' /\ CutOverInv'
    OBVIOUS
  <2>1. LiveInv' /\ facts'.live = facts.live /\ AskedInv' /\ (asked => asked')
    BY LiveStep, AskedStep DEF CutOverInv
  <2>2. CutOverIsAsked'
    BY <2>1, OldStops DEF CutOverInv, CutOverIsAsked
  <2> QED BY TypeStep, <2>1, <2>2 DEF CutOverInv
<1> QED BY <1>1, <1>2, PTL DEF Spec, CutOverInv
=============================================================================
