--------------------------- MODULE AgentRunsProofs ---------------------------
(* Proofs about AgentRuns, for any topics, flows, dispatches and bounds. *)
EXTENDS AgentRuns, TLAPS, FiniteSetTheorems

-----------------------------------------------------------------------------
(* Types. *)

LEMMA IdsAreNat == Ids \subseteq Nat /\ Reqs \subseteq Nat /\ None \in Nat /\ None \notin Ids /\ None \notin Reqs
  BY AgentRunsAssumption DEF AgentRunsAssumption, Ids, Reqs, None

\* What a table or a process starts from.
LEMMA FirstTyped ==
  /\ NoRow \in RowType /\ NoRun \in RunType /\ IdleDispatch \in DispatchType /\ IdleHandler \in HandlerType
  /\ NoRow.status = "none" /\ NoRun.status = "none" /\ IdleDispatch.at = "idle" /\ IdleHandler.at = "idle"
<1>1. (CHOOSE t \in Topics : TRUE) \in Topics
  BY AgentRunsAssumption DEF AgentRunsAssumption
<1> QED BY <1>1 DEF NoRow, NoRun, IdleDispatch, IdleHandler, RowType, RunType, DispatchType, HandlerType, AllKinds

\* Writing an outcome on rows, and following a retry, keep the table a table.
LEMMA StoredTyped ==
  ASSUME NEW R \in [Ids -> RowType], NEW S, NEW q \in Reqs, NEW s \in {"completed", "failed"}
  PROVE  Stored(R, S, q, s) \in [Ids -> RowType]
  BY DEF Stored, RowType

LEMMA FollowTyped ==
  ASSUME TypeOK, NEW q \in Reqs, NEW next \in Reqs
  PROVE  FollowRetry(q, next) \in [Ids -> RowType]
<1>1. ASSUME NEW r \in RowType PROVE [r EXCEPT !.req = next, !.status = "pending"] \in RowType
  <2> DEFINE s == [r EXCEPT !.req = next]
  <2>1. s \in RowType
    BY DEF RowType
  <2> HIDE DEF s
  <2>2. [s EXCEPT !.status = "pending"] \in RowType
    BY <2>1 DEF RowType
  <2> QED BY <2>2 DEF s
<1>2. \A i \in Ids : row[i] \in RowType
  BY DEF TypeOK
<1> QED BY <1>1, <1>2 DEF FollowRetry

LEMMA OpenTyped ==
  ASSUME TypeOK, NEW d \in Dispatches, NEW t \in Topics, NEW force \in BOOLEAN, Open(d, t, force)
  PROVE  /\ row' \in [Ids -> RowType] /\ dispatch' \in [Dispatches -> DispatchType]
         /\ \A e \in Dispatches : dispatch'[e].at \in {"opened", "sent"} => dispatch'[e].row \in Ids
         /\ \A e \in Dispatches : dispatch'[e].at = "sent" => dispatch'[e].req \in Reqs
<1>1. PICK i \in Ids :
        /\ row' = [row EXCEPT ![i] = [NoRow EXCEPT !.status = "pending", !.topic = t, !.forced = force]]
        /\ dispatch' = [dispatch EXCEPT ![d] = [IdleDispatch EXCEPT !.at = "opened", !.topic = t, !.row = i]]
  BY DEF Open, IsFirst
<1>2. [NoRow EXCEPT !.status = "pending", !.topic = t, !.forced = force] \in RowType
  BY FirstTyped DEF RowType
<1>3. [IdleDispatch EXCEPT !.at = "opened", !.topic = t, !.row = i] \in DispatchType
  BY FirstTyped DEF DispatchType
<1>4. row' \in [Ids -> RowType]
  BY <1>1, <1>2 DEF TypeOK
<1>5. dispatch' \in [Dispatches -> DispatchType]
  BY <1>1, <1>3 DEF TypeOK
<1> QED BY <1>1, <1>4, <1>5, FirstTyped DEF TypeOK, DispatchType

LEMMA PostTyped ==
  ASSUME TypeOK, NEW q \in Reqs, NEW k \in AllKinds, NEW t \in Topics, NEW of \in Reqs \cup {None}, Post(q, k, t, of)
  PROVE  run' \in [Reqs -> RunType] /\ agent' \in [Reqs -> Answers \cup {"none", "working"}]
  BY DEF Post, TypeOK, RunType

\* complete<Flow> leaves the handler idle or on a row.
LEMMA CompleteTyped ==
  ASSUME TypeOK, NEW q \in Reqs, NEW R \in [Ids -> RowType], Complete(q, R)
  PROVE  /\ row' \in [Ids -> RowType] /\ handler' \in [Reqs -> HandlerType]
         /\ \A p \in Reqs : handler'[p].at = "retrying" => handler'[p].next \in Reqs
         /\ \A p \in Reqs : handler'[p].at = "storing" => handler'[p].row \in Ids
<1>1. row' \in [Ids -> RowType]
  BY StoredTyped DEF Complete
<1>2. CASE handler' = [handler EXCEPT ![q] = IdleHandler]
  BY <1>1, <1>2, FirstTyped DEF TypeOK
<1>3. ASSUME NEW i \in OwnersOf(R, q), handler' = [handler EXCEPT ![q] = [at |-> "storing", row |-> i, next |-> None]]
      PROVE  /\ handler' \in [Reqs -> HandlerType]
             /\ \A p \in Reqs : handler'[p].at = "retrying" => handler'[p].next \in Reqs
             /\ \A p \in Reqs : handler'[p].at = "storing" => handler'[p].row \in Ids
  <2>1. i \in Ids
    BY <1>3 DEF OwnersOf
  <2> QED BY <1>3, <2>1 DEF TypeOK, HandlerType
<1> QED BY <1>1, <1>2, <1>3 DEF Complete

LEMMA DispatchTyped ==
  ASSUME TypeOK, NEW d \in Dispatches,
         \/ \E t \in Topics, force \in BOOLEAN : Check(d, t, force) \/ CheckAndOpen(d, t, force)
         \/ OpenChecked(d) \/ GateCloses(d) \/ Accepted(d) \/ Refused(d)
         \/ \E q \in Reqs : Send(d, q)
  PROVE  TypeOK'
<1> USE IdsAreNat
<1>1. ASSUME NEW t \in Topics, NEW force \in BOOLEAN, Check(d, t, force) PROVE TypeOK'
  <2>1. [IdleDispatch EXCEPT !.at = "checked", !.topic = t, !.forced = force] \in DispatchType
    BY FirstTyped DEF DispatchType
  <2> QED BY <1>1, <2>1, FirstTyped DEF Check, TypeOK, DispatchType, history
<1>2. ASSUME NEW t \in Topics, NEW force \in BOOLEAN, CheckAndOpen(d, t, force) PROVE TypeOK'
  <2>1. Open(d, t, force)
    BY <1>2 DEF CheckAndOpen
  <2> QED BY <1>2, <2>1, OpenTyped DEF CheckAndOpen, TypeOK, history
<1>3. CASE OpenChecked(d)
  <2>1. CASE dispatch' = [dispatch EXCEPT ![d] = IdleDispatch] /\ UNCHANGED row
    BY <1>3, <2>1, FirstTyped DEF OpenChecked, TypeOK, history
  <2>2. CASE Open(d, dispatch[d].topic, dispatch[d].forced)
    <3>1. dispatch[d].topic \in Topics /\ dispatch[d].forced \in BOOLEAN
      BY DEF TypeOK, DispatchType
    <3> QED BY <1>3, <2>2, <3>1, OpenTyped DEF OpenChecked, TypeOK, history
  <2> QED BY <1>3, <2>1, <2>2 DEF OpenChecked
<1>4. CASE GateCloses(d)
  <2>1. row' \in [Ids -> RowType]
    <3>1. dispatch[d].row \in Ids
      BY <1>4 DEF GateCloses, TypeOK
    <3>2. [row[dispatch[d].row] EXCEPT !.status = "not_applicable"] \in RowType
      BY <3>1 DEF TypeOK, RowType
    <3> QED BY <1>4, <3>2 DEF GateCloses, TypeOK
  <2> QED BY <1>4, <2>1, FirstTyped DEF GateCloses, TypeOK, history
<1>5. CASE Accepted(d)
  <2>1. dispatch[d].req \in Reqs /\ dispatch[d].row \in Ids
    BY <1>5 DEF Accepted, TypeOK
  <2>2. row' \in [Ids -> RowType]
    <3>1. [row[dispatch[d].row] EXCEPT !.req = dispatch[d].req] \in RowType
      BY <2>1 DEF TypeOK, RowType
    <3> QED BY <1>5, <3>1 DEF Accepted, TypeOK
  <2>3. run' \in [Reqs -> RunType]
    <3>1. [run[dispatch[d].req] EXCEPT !.status = "pending"] \in RunType
      BY <2>1 DEF TypeOK, RunType
    <3> QED BY <1>5, <3>1 DEF Accepted, TypeOK
  <2> QED BY <1>5, <2>2, <2>3, FirstTyped DEF Accepted, TypeOK, history
<1>6. CASE Refused(d)
  <2>1. dispatch[d].row \in Ids
    BY <1>6 DEF Refused, TypeOK
  <2>2. row' \in [Ids -> RowType]
    <3>1. [row[dispatch[d].row] EXCEPT !.status = "failed"] \in RowType
      BY <2>1 DEF TypeOK, RowType
    <3> QED BY <1>6, <3>1 DEF Refused, TypeOK
  <2>3. stranded' \subseteq Ids
    BY <1>6, <2>1 DEF Refused, TypeOK
  <2> QED BY <1>6, <2>2, <2>3, FirstTyped DEF Refused, TypeOK
<1>7. ASSUME NEW q \in Reqs, Send(d, q) PROVE TypeOK'
  <2>1. KindOf[dispatch[d].topic] \in AllKinds /\ dispatch[d].topic \in Topics
    BY AgentRunsAssumption DEF AgentRunsAssumption, TypeOK, DispatchType
  <2>2. run' \in [Reqs -> RunType] /\ agent' \in [Reqs -> Answers \cup {"none", "working"}]
    BY <1>7, <2>1, PostTyped DEF Send
  <2> DEFINE mid == [dispatch EXCEPT ![d].at = "sent"]
  <2>3. mid \in [Dispatches -> DispatchType] /\ mid[d].row \in Ids
    <3>1. dispatch[d].at = "opened"
      BY <1>7 DEF Send
    <3>2. dispatch \in [Dispatches -> DispatchType] /\ dispatch[d].row \in Ids
      BY <3>1 DEF TypeOK
    <3> QED BY <3>2 DEF DispatchType
  <2>4. \A e \in Dispatches : e # d => mid[e] = dispatch[e]
    BY DEF TypeOK
  <2>5. dispatch' = [mid EXCEPT ![d].req = q]
    BY <1>7 DEF Send
  <2> HIDE DEF mid
  <2>6. /\ dispatch' \in [Dispatches -> DispatchType]
        /\ dispatch'[d].row \in Ids /\ dispatch'[d].req \in Reqs
        /\ \A e \in Dispatches : e # d => dispatch'[e] = dispatch[e]
    BY <2>3, <2>4, <2>5 DEF DispatchType
  <2> QED BY <1>7, <2>2, <2>6 DEF Send, TypeOK, history
<1> QED BY <1>1, <1>2, <1>3, <1>4, <1>5, <1>6, <1>7

LEMMA HandlerTyped ==
  ASSUME TypeOK, NEW q \in Reqs,
         \/ \E a \in Answers : Answer(q, a)
         \/ Receive(q) \/ GradedWell(q) \/ RetryAccepted(q) \/ RetryNotSent(q) \/ StoreLate(q)
         \/ \E next \in Reqs : SendRetry(q, next)
  PROVE  TypeOK'
<1> USE IdsAreNat
<1>1. ASSUME NEW a \in Answers, Answer(q, a) PROVE TypeOK'
  BY <1>1 DEF Answer, TypeOK, history
<1>2. CASE Receive(q)
  <2>1. accepted' \in [Reqs -> Nat]
    BY <1>2 DEF Receive, TypeOK
  <2>2. CASE agent[q] = "error"
    <3>1. row' \in [Ids -> RowType]
      BY <1>2, <2>2, StoredTyped DEF Receive, TypeOK
    <3>2. run' \in [Reqs -> RunType]
      BY <1>2, <2>2 DEF Receive, TypeOK, RunType
    <3> QED BY <1>2, <2>1, <2>2, <3>1, <3>2 DEF Receive, TypeOK
  <2>3. CASE agent[q] # "error"
    <3>1. run' \in [Reqs -> RunType]
      BY <1>2, <2>3 DEF Receive, TypeOK, RunType
    <3>2. [IdleHandler EXCEPT !.at = "grading"] \in HandlerType
      BY FirstTyped DEF HandlerType
    <3>3. [IdleHandler EXCEPT !.at = "grading"].at = "grading"
      BY FirstTyped DEF HandlerType
    <3>4. handler' = [handler EXCEPT ![q] = [IdleHandler EXCEPT !.at = "grading"]]
          /\ UNCHANGED <<row, agent, dispatch, closed, crashes, stranded>>
      BY <1>2, <2>3 DEF Receive
    <3>5. /\ handler' \in [Reqs -> HandlerType] /\ handler'[q].at = "grading"
          /\ \A p \in Reqs : p # q => handler'[p] = handler[p]
      BY <3>2, <3>3, <3>4 DEF TypeOK
    <3>6. /\ \A p \in Reqs : handler'[p].at = "retrying" => handler'[p].next \in Reqs
          /\ \A p \in Reqs : handler'[p].at = "storing" => handler'[p].row \in Ids
      BY <3>5 DEF TypeOK
    <3> QED BY <2>1, <3>1, <3>4, <3>5, <3>6 DEF TypeOK
  <2> QED BY <2>2, <2>3
<1>3. ASSUME NEW R \in [Ids -> RowType], Complete(q, R), run' \in [Reqs -> RunType],
             UNCHANGED <<agent, dispatch, closed, crashes, history>>
      PROVE  TypeOK'
  BY <1>3, CompleteTyped DEF TypeOK, history
<1>4. CASE GradedWell(q)
  BY <1>4, <1>3 DEF GradedWell, TypeOK
<1>5. CASE RetryAccepted(q)
  <2>1. handler[q].next \in Reqs
    BY <1>5 DEF RetryAccepted, TypeOK
  <2>2. FollowRetry(q, handler[q].next) \in [Ids -> RowType]
    BY <2>1, FollowTyped
  <2>3. run' \in [Reqs -> RunType]
    BY <1>5, <2>1 DEF RetryAccepted, TypeOK, RunType
  <2> QED BY <1>5, <2>2, <2>3, <1>3 DEF RetryAccepted
<1>6. CASE RetryNotSent(q)
  BY <1>6, <1>3 DEF RetryNotSent, TypeOK
<1>7. CASE StoreLate(q)
  BY <1>7, StoredTyped, FirstTyped DEF StoreLate, TypeOK, history
<1>8. ASSUME NEW next \in Reqs, SendRetry(q, next) PROVE TypeOK'
  <2> DEFINE k == IF run[q].kind = "usage" THEN "observe" ELSE run[q].kind
  <2>1. k \in AllKinds /\ run[q].topic \in Topics
    BY DEF TypeOK, RunType, AllKinds
  <2>2. Post(next, k, run[q].topic, q)
    BY <1>8 DEF SendRetry
  <2>3. run' \in [Reqs -> RunType] /\ agent' \in [Reqs -> Answers \cup {"none", "working"}]
    BY <2>1, <2>2, PostTyped
  <2> DEFINE mid == [handler EXCEPT ![q].at = "retrying"]
  <2>4. mid \in [Reqs -> HandlerType] /\ mid[q].at = "retrying" /\ \A p \in Reqs : p # q => mid[p] = handler[p]
    BY DEF TypeOK, HandlerType
  <2>5. handler' = [mid EXCEPT ![q].next = next]
    BY <1>8 DEF SendRetry
  <2> HIDE DEF mid
  <2>6. /\ handler' \in [Reqs -> HandlerType]
        /\ handler'[q].at = "retrying" /\ handler'[q].next = next
        /\ \A p \in Reqs : p # q => handler'[p] = handler[p]
    BY <2>4, <2>5 DEF HandlerType
  <2>7. /\ \A p \in Reqs : handler'[p].at = "retrying" => handler'[p].next \in Reqs
        /\ \A p \in Reqs : handler'[p].at = "storing" => handler'[p].row \in Ids
    BY <2>6 DEF TypeOK
  <2>8. UNCHANGED <<row, dispatch, closed, crashes, accepted, stranded>>
    BY <1>8 DEF SendRetry, history
  <2> QED BY <2>3, <2>6, <2>7, <2>8 DEF TypeOK
<1> QED BY <1>1, <1>2, <1>4, <1>5, <1>6, <1>7, <1>8

LEMMA TypeStep == TypeOK /\ [Next]_vars => TypeOK'
<1> SUFFICES ASSUME TypeOK, [Next]_vars PROVE TypeOK'
  OBVIOUS
<1>1. CASE UNCHANGED vars
  BY <1>1 DEF TypeOK, vars, history
<1>2. ASSUME NEW t \in Topics, DeleteThread(t) PROVE TypeOK'
  <2>1. row' \in [Ids -> RowType]
    BY <1>2 DEF DeleteThread, TypeOK, RowType
  <2> QED BY <1>2, <2>1 DEF DeleteThread, TypeOK, history
<1>3. CASE Crash
  <2>1. stranded' \subseteq Ids
    BY <1>3 DEF Crash, TypeOK
  <2>2. crashes' \in 0 .. MaxCrash
    BY <1>3, AgentRunsAssumption DEF Crash, TypeOK, AgentRunsAssumption
  <2> QED BY <1>3, <2>1, <2>2, FirstTyped DEF Crash, TypeOK
<1> QED BY <1>1, <1>2, <1>3, DispatchTyped, HandlerTyped DEF Next

LEMMA TypeInit == Init => TypeOK
<1>1. 0 \in 0 .. MaxCrash
  BY AgentRunsAssumption DEF AgentRunsAssumption
<1> QED BY <1>1, FirstTyped DEF Init, TypeOK

\* Every reachable state of the dispatches, runs and handlers has its declared type; a
\* handler past its post holds a request, one that stores late holds a row.
THEOREM TypeCorrect == Spec => []TypeOK
  BY TypeInit, TypeStep, PTL DEF Spec

-----------------------------------------------------------------------------
(* The life of a run: five steps change agent_runs, every other step leaves it
   alone and only puts handlers to rest. *)

Quiet ==
    /\ UNCHANGED <<run, accepted>>
    /\ \A d \in Dispatches : dispatch'[d] = dispatch[d] \/ dispatch'[d].at # "sent"
    /\ \A q \in Reqs : handler'[q] = handler[q] \/ handler'[q].at \notin {"grading", "retrying"}

\* handleAgentResult is past the grade once the answer is completed.
LEMMA CompleteRests ==
  ASSUME TypeOK, NEW q \in Reqs, NEW R, Complete(q, R)
  PROVE  /\ handler'[q].at \in {"idle", "storing"}
         /\ \A p \in Reqs : p # q => handler'[p] = handler[p]
<1>1. CASE handler' = [handler EXCEPT ![q] = IdleHandler]
  BY <1>1, FirstTyped DEF TypeOK
<1>2. ASSUME NEW i, handler' = [handler EXCEPT ![q] = [at |-> "storing", row |-> i, next |-> None]]
      PROVE  handler'[q].at \in {"idle", "storing"} /\ \A p \in Reqs : p # q => handler'[p] = handler[p]
  BY <1>2 DEF TypeOK
<1> QED BY <1>1, <1>2 DEF Complete

LEMMA PostPosts ==
  ASSUME TypeOK, NEW q \in Reqs, NEW k, NEW t, NEW of, Post(q, k, t, of)
  PROVE  /\ run[q].status = "none" /\ run'[q].status = "posted" /\ run'[q].retryOf = of
         /\ \A p \in Reqs : p # q => run'[p] = run[p]
  BY DEF Post, IsFirst, TypeOK

LEMMA SendSends ==
  ASSUME TypeOK, NEW d \in Dispatches, NEW q \in Reqs, Send(d, q)
  PROVE  /\ dispatch'[d].at = "sent" /\ dispatch'[d].req = q
         /\ dispatch'[d].row = dispatch[d].row /\ dispatch'[d].topic = dispatch[d].topic
         /\ \A e \in Dispatches : e # d => dispatch'[e] = dispatch[e]
<1> DEFINE mid == [dispatch EXCEPT ![d].at = "sent"]
<1>1. /\ mid \in [Dispatches -> DispatchType] /\ mid[d].at = "sent"
      /\ mid[d].row = dispatch[d].row /\ mid[d].topic = dispatch[d].topic
      /\ \A e \in Dispatches : e # d => mid[e] = dispatch[e]
  BY DEF TypeOK, DispatchType
<1>2. dispatch' = [mid EXCEPT ![d].req = q]
  BY DEF Send
<1> HIDE DEF mid
<1> QED BY <1>1, <1>2 DEF DispatchType

LEMMA RetrySends ==
  ASSUME TypeOK, NEW q \in Reqs, NEW next \in Reqs, SendRetry(q, next)
  PROVE  /\ handler'[q].at = "retrying" /\ handler'[q].next = next
         /\ \A p \in Reqs : p # q => handler'[p] = handler[p]
<1> DEFINE mid == [handler EXCEPT ![q].at = "retrying"]
<1>1. mid \in [Reqs -> HandlerType] /\ mid[q].at = "retrying" /\ \A p \in Reqs : p # q => mid[p] = handler[p]
  BY DEF TypeOK, HandlerType
<1>2. handler' = [mid EXCEPT ![q].next = next]
  BY DEF SendRetry
<1> HIDE DEF mid
<1> QED BY <1>1, <1>2 DEF HandlerType

LEMMA OthersRest ==
  ASSUME TypeOK, [Next]_vars,
         \A d \in Dispatches : ~Accepted(d) /\ \A q \in Reqs : ~Send(d, q),
         \A q \in Reqs : ~Receive(q) /\ ~RetryAccepted(q) /\ \A next \in Reqs : ~SendRetry(q, next)
  PROVE  Quiet
<1> USE DEF Quiet, history
<1>1. CASE UNCHANGED vars
  BY <1>1 DEF vars
<1>2. ASSUME NEW d \in Dispatches, NEW t \in Topics, NEW force \in BOOLEAN, Open(d, t, force)
      PROVE  \A e \in Dispatches : dispatch'[e] = dispatch[e] \/ dispatch'[e].at # "sent"
  <2>1. PICK i \in Ids : dispatch' = [dispatch EXCEPT ![d] = [IdleDispatch EXCEPT !.at = "opened", !.topic = t, !.row = i]]
    BY <1>2 DEF Open
  <2>2. dispatch'[d].at = "opened" /\ \A e \in Dispatches : e # d => dispatch'[e] = dispatch[e]
    BY <2>1 DEF TypeOK, IdleDispatch
  <2> QED BY <2>2
<1>3. ASSUME NEW d \in Dispatches, NEW t \in Topics, NEW force \in BOOLEAN, Check(d, t, force) \/ CheckAndOpen(d, t, force)
      PROVE  Quiet
  <2>1. CASE Check(d, t, force)
    <3>1. dispatch'[d].at = "checked" /\ \A e \in Dispatches : e # d => dispatch'[e] = dispatch[e]
      BY <2>1 DEF Check, TypeOK, IdleDispatch
    <3> QED BY <2>1, <3>1 DEF Check
  <2>2. CASE CheckAndOpen(d, t, force)
    BY <2>2, <1>2 DEF CheckAndOpen
  <2> QED BY <1>3, <2>1, <2>2
<1>4. ASSUME NEW d \in Dispatches, OpenChecked(d) \/ GateCloses(d) \/ Refused(d)
      PROVE  Quiet
  <2>1. CASE dispatch' = [dispatch EXCEPT ![d] = IdleDispatch]
    BY <1>4, <2>1, FirstTyped DEF OpenChecked, GateCloses, Refused, TypeOK
  <2>2. CASE OpenChecked(d) /\ Open(d, dispatch[d].topic, dispatch[d].forced)
    <3>1. dispatch[d].topic \in Topics /\ dispatch[d].forced \in BOOLEAN
      BY DEF TypeOK, DispatchType
    <3> QED BY <2>2, <3>1, <1>2 DEF OpenChecked
  <2> QED BY <1>4, <2>1, <2>2 DEF OpenChecked, GateCloses, Refused
<1>5. ASSUME NEW q \in Reqs, NEW a \in Answers, Answer(q, a) PROVE Quiet
  BY <1>5 DEF Answer
<1>6. ASSUME NEW q \in Reqs, GradedWell(q) \/ RetryNotSent(q) PROVE Quiet
  BY <1>6, CompleteRests DEF GradedWell, RetryNotSent
<1>7. ASSUME NEW q \in Reqs, StoreLate(q) PROVE Quiet
  BY <1>7, FirstTyped DEF StoreLate, TypeOK
<1>8. ASSUME NEW t \in Topics, DeleteThread(t) PROVE Quiet
  BY <1>8 DEF DeleteThread
<1>9. CASE Crash
  BY <1>9, FirstTyped DEF Crash
<1> QED BY <1>1, <1>3, <1>4, <1>5, <1>6, <1>7, <1>8, <1>9 DEF Next

-----------------------------------------------------------------------------
(* An answer is accepted once.  `accepted` counts Receive, which wants a pending
   run and ends that state; so no run may become pending again.  It becomes
   pending only from "posted", by the one handler that posted it. *)

HeldInv ==
    /\ \A d \in Dispatches : dispatch[d].at = "sent" => run[dispatch[d].req].status = "posted"
    /\ \A q \in Reqs : handler[q].at = "retrying" => run[handler[q].next].status = "posted"
    /\ \A d, e \in Dispatches :
          dispatch[d].at = "sent" /\ dispatch[e].at = "sent" /\ dispatch[d].req = dispatch[e].req => d = e
    /\ \A p, q \in Reqs :
          handler[p].at = "retrying" /\ handler[q].at = "retrying" /\ handler[p].next = handler[q].next => p = q
    /\ \A d \in Dispatches, q \in Reqs :
          dispatch[d].at = "sent" /\ handler[q].at = "retrying" => dispatch[d].req # handler[q].next
OnceInv ==
    \A q \in Reqs : accepted[q] = 0 \/ (accepted[q] = 1 /\ run[q].status \in {"completed", "failed"})

LEMMA HeldStep == TypeOK /\ HeldInv /\ [Next]_vars => HeldInv'
<1> SUFFICES ASSUME TypeOK, HeldInv, [Next]_vars PROVE HeldInv'
  OBVIOUS
<1> USE DEF HeldInv
<1>a. /\ \A d \in Dispatches : dispatch[d].at = "sent" => dispatch[d].req \in Reqs
      /\ \A q \in Reqs : handler[q].at = "retrying" => handler[q].next \in Reqs
  BY DEF TypeOK
<1>1. ASSUME NEW d \in Dispatches, NEW q \in Reqs, Send(d, q) PROVE HeldInv'
  <2>1. PICK k, t, of : Post(q, k, t, of)
    BY <1>1 DEF Send
  <2>2. run[q].status = "none" /\ run'[q].status = "posted" /\ \A p \in Reqs : p # q => run'[p] = run[p]
    BY <2>1, PostPosts
  <2>3. handler' = handler
    BY <1>1 DEF Send
  <2> QED BY <1>1, <1>a, <2>2, <2>3, SendSends
<1>2. ASSUME NEW d \in Dispatches, Accepted(d) PROVE HeldInv'
  <2>1. \A p \in Reqs : p # dispatch[d].req => run'[p] = run[p]
    BY <1>2 DEF Accepted, TypeOK
  <2>2. dispatch'[d].at = "idle" /\ \A e \in Dispatches : e # d => dispatch'[e] = dispatch[e]
    BY <1>2, FirstTyped DEF Accepted, TypeOK
  <2>3. dispatch[d].at = "sent" /\ handler' = handler
    BY <1>2 DEF Accepted
  <2> QED BY <1>a, <2>1, <2>2, <2>3
<1>3. ASSUME NEW q \in Reqs, Receive(q) PROVE HeldInv'
  <2>1. run[q].status = "pending" /\ \A p \in Reqs : p # q => run'[p] = run[p]
    BY <1>3 DEF Receive, TypeOK
  <2>2. dispatch' = dispatch
    BY <1>3 DEF Receive
  <2>3. \A p \in Reqs : handler'[p] = handler[p] \/ handler'[p].at = "grading"
    BY <1>3 DEF Receive, TypeOK, IdleHandler
  <2> QED BY <1>a, <2>1, <2>2, <2>3
<1>4. ASSUME NEW q \in Reqs, NEW next \in Reqs, SendRetry(q, next) PROVE HeldInv'
  <2>1. PICK k, t, of : Post(next, k, t, of)
    BY <1>4 DEF SendRetry
  <2>2. run[next].status = "none" /\ run'[next].status = "posted" /\ \A p \in Reqs : p # next => run'[p] = run[p]
    BY <2>1, PostPosts
  <2>3. dispatch' = dispatch
    BY <1>4 DEF SendRetry
  <2> QED BY <1>4, <1>a, <2>2, <2>3, RetrySends
<1>5. ASSUME NEW q \in Reqs, RetryAccepted(q) PROVE HeldInv'
  <2>1. \A p \in Reqs : p # handler[q].next => run'[p] = run[p]
    BY <1>5 DEF RetryAccepted, TypeOK
  <2>2. handler'[q].at # "retrying" /\ \A p \in Reqs : p # q => handler'[p] = handler[p]
    BY <1>5, CompleteRests DEF RetryAccepted
  <2>3. handler[q].at = "retrying" /\ dispatch' = dispatch
    BY <1>5 DEF RetryAccepted
  <2> QED BY <1>a, <2>1, <2>2, <2>3
<1>6. CASE Quiet
  BY <1>6 DEF Quiet
<1> QED BY <1>1, <1>2, <1>3, <1>4, <1>5, <1>6, OthersRest

LEMMA OnceStep == TypeOK /\ HeldInv /\ OnceInv /\ [Next]_vars => OnceInv'
<1> SUFFICES ASSUME TypeOK, HeldInv, OnceInv, [Next]_vars PROVE OnceInv'
  OBVIOUS
<1> USE DEF OnceInv
<1>1. ASSUME NEW q \in Reqs, NEW k, NEW t, NEW of, Post(q, k, t, of), accepted' = accepted PROVE OnceInv'
  BY <1>1, PostPosts
<1>2. ASSUME NEW q \in Reqs, run[q].status = "posted", run' = [run EXCEPT ![q].status = "pending"], accepted' = accepted
      PROVE  OnceInv'
  BY <1>2 DEF TypeOK
<1>3. ASSUME NEW d \in Dispatches, Accepted(d) PROVE OnceInv'
  BY <1>3, <1>2 DEF Accepted, HeldInv, TypeOK, history
<1>4. ASSUME NEW q \in Reqs, Receive(q) PROVE OnceInv'
  <2>1. accepted[q] = 0
    BY <1>4 DEF Receive
  <2>2. accepted'[q] = 1 /\ \A p \in Reqs : p # q => accepted'[p] = accepted[p]
    BY <1>4, <2>1 DEF Receive, TypeOK
  <2>3. run'[q].status \in {"completed", "failed"} /\ \A p \in Reqs : p # q => run'[p] = run[p]
    BY <1>4 DEF Receive, TypeOK, RunType
  <2> QED BY <2>2, <2>3
<1>5. ASSUME NEW q \in Reqs, RetryAccepted(q) PROVE OnceInv'
  BY <1>5, <1>2 DEF RetryAccepted, HeldInv, TypeOK, history
<1>6. CASE Quiet
  BY <1>6 DEF Quiet
<1> QED BY <1>1, <1>3, <1>4, <1>5, <1>6, OthersRest DEF Send, SendRetry, history

\* Whatever the webhook and the polls repeat, and whenever they come, the answer of a
\* request is taken at most once.
THEOREM AcceptedOnceHolds == Spec => []AcceptedOnce
<1>1. Init => TypeOK /\ HeldInv /\ OnceInv
  <2> SUFFICES ASSUME Init PROVE TypeOK /\ HeldInv /\ OnceInv
    OBVIOUS
  <2>1. /\ \A d \in Dispatches : dispatch[d].at = "idle"
        /\ \A q \in Reqs : handler[q].at = "idle" /\ accepted[q] = 0
    BY FirstTyped DEF Init
  <2>2. HeldInv
    BY <2>1 DEF HeldInv
  <2>3. OnceInv
    BY <2>1 DEF OnceInv
  <2> QED BY <2>2, <2>3, TypeInit
<1>2. TypeOK /\ HeldInv /\ OnceInv /\ [Next]_vars => (TypeOK /\ HeldInv /\ OnceInv)'
  BY TypeStep, HeldStep, OnceStep
<1>3. OnceInv => AcceptedOnce
  BY DEF OnceInv, AcceptedOnce
<1> QED BY <1>1, <1>2, <1>3, PTL DEF Spec

-----------------------------------------------------------------------------
(* One second chance.  A request that was retried is completed for good and its
   handler has left the grade, which it enters only from a pending run. *)

ChanceInv ==
    /\ \A q \in Reqs : handler[q].at = "grading" => run[q].status = "completed"
    /\ \A p, q \in Reqs :
          run[p].retryOf = q => run[q].status = "completed" /\ run[q].retryOf = None /\ handler[q].at # "grading"
    /\ \A o, p, q \in Reqs : run[p].retryOf = o /\ run[q].retryOf = o => p = q

LEMMA ChanceInvIsOneSecondChance == TypeOK /\ ChanceInv => OneSecondChance
<1> SUFFICES ASSUME TypeOK, ChanceInv, NEW p \in Reqs, NEW q \in Reqs, run[q].retryOf # None
             PROVE  run[run[q].retryOf].retryOf = None /\ (run[p].retryOf = run[q].retryOf => p = q)
  BY DEF OneSecondChance
<1>1. run[q].retryOf \in Reqs
  BY DEF TypeOK, RunType
<1> QED BY <1>1 DEF ChanceInv

LEMMA ChanceStep == TypeOK /\ HeldInv /\ ChanceInv /\ [Next]_vars => ChanceInv'
<1> SUFFICES ASSUME TypeOK, HeldInv, ChanceInv, [Next]_vars PROVE ChanceInv'
  OBVIOUS
<1> USE IdsAreNat DEF ChanceInv
<1>1. ASSUME NEW d \in Dispatches, NEW q \in Reqs, Send(d, q) PROVE ChanceInv'
  <2>1. PICK k, t : Post(q, k, t, None)
    BY <1>1 DEF Send
  <2>2. run[q].status = "none" /\ run'[q].retryOf = None /\ \A p \in Reqs : p # q => run'[p] = run[p]
    BY <2>1, PostPosts
  <2>3. handler' = handler
    BY <1>1 DEF Send
  <2> QED BY <2>2, <2>3
<1>2. ASSUME NEW q \in Reqs, run[q].status = "posted", run' = [run EXCEPT ![q].status = "pending"],
             \A p \in Reqs : handler'[p] = handler[p] \/ handler'[p].at # "grading"
      PROVE  ChanceInv'
  <2>1. /\ \A p \in Reqs : run'[p].retryOf = run[p].retryOf
        /\ \A p \in Reqs : p # q => run'[p].status = run[p].status
    BY <1>2 DEF TypeOK, RunType
  <2> QED BY <1>2, <2>1
<1>3. ASSUME NEW d \in Dispatches, Accepted(d) PROVE ChanceInv'
  BY <1>3, <1>2 DEF Accepted, HeldInv, TypeOK
<1>4. ASSUME NEW q \in Reqs, Receive(q) PROVE ChanceInv'
  <2>1. /\ \A p \in Reqs : run'[p].retryOf = run[p].retryOf
        /\ \A p \in Reqs : p # q => run'[p].status = run[p].status
    <3>1. \E s : run' = [run EXCEPT ![q].status = s]
      BY <1>4 DEF Receive
    <3> QED BY <3>1 DEF TypeOK, RunType
  <2>2. \A p \in Reqs : p # q => handler'[p] = handler[p]
    BY <1>4 DEF Receive, TypeOK
  <2>3. run[q].status = "pending"
    BY <1>4 DEF Receive
  <2>4. ASSUME NEW o \in Reqs, NEW p \in Reqs, NEW r \in Reqs, run'[p].retryOf = o, run'[r].retryOf = o
        PROVE  p = r
    <3>1. run[p].retryOf = o /\ run[r].retryOf = o
      BY <2>1, <2>4
    <3> QED BY <3>1
  <2>5. CASE agent[q] = "error"
    <3>1. handler' = handler
      BY <1>4, <2>5 DEF Receive
    <3>2. handler[q].at # "grading" /\ \A p \in Reqs : run[p].retryOf # q
      BY <2>3
    <3>3. \A p \in Reqs : handler'[p].at = "grading" => run'[p].status = "completed"
      BY <2>1, <3>1, <3>2
    <3>4. \A p, r \in Reqs : run'[p].retryOf = r =>
            run'[r].status = "completed" /\ run'[r].retryOf = None /\ handler'[r].at # "grading"
      BY <2>1, <3>1, <3>2
    <3> HIDE DEF ChanceInv
    <3> QED BY <2>4, <3>3, <3>4 DEF ChanceInv
  <2>6. CASE agent[q] # "error"
    <3>1. run'[q].status = "completed"
      BY <1>4, <2>6 DEF Receive, TypeOK, RunType
    <3>2. \A p \in Reqs : run[p].retryOf # q
      BY <2>3
    <3>3. \A p \in Reqs : handler'[p].at = "grading" => run'[p].status = "completed"
      BY <2>1, <2>2, <3>1
    <3>4. ASSUME NEW p \in Reqs, NEW r \in Reqs, run'[p].retryOf = r
          PROVE  run'[r].status = "completed" /\ run'[r].retryOf = None /\ handler'[r].at # "grading"
      <4>1. run[p].retryOf = r /\ r # q
        BY <2>1, <3>2, <3>4
      <4> QED BY <4>1, <2>1, <2>2
    <3> HIDE DEF ChanceInv
    <3> QED BY <2>4, <3>3, <3>4 DEF ChanceInv
  <2> QED BY <2>5, <2>6
<1>5. ASSUME NEW q \in Reqs, NEW next \in Reqs, SendRetry(q, next) PROVE ChanceInv'
  <2>1. handler[q].at = "grading" /\ run[q].retryOf = None
    BY <1>5 DEF SendRetry, Retries
  <2>2. PICK k, t : Post(next, k, t, q)
    BY <1>5 DEF SendRetry
  <2>3. run[next].status = "none" /\ run'[next].retryOf = q /\ \A p \in Reqs : p # next => run'[p] = run[p]
    BY <2>2, PostPosts
  <2>4. handler'[q].at = "retrying" /\ \A p \in Reqs : p # q => handler'[p] = handler[p]
    BY <1>5, RetrySends
  <2>5. \A p \in Reqs : run[p].retryOf # q
    BY <2>1
  <2> QED BY <2>1, <2>3, <2>4, <2>5
<1>6. ASSUME NEW q \in Reqs, RetryAccepted(q) PROVE ChanceInv'
  <2>1. \A p \in Reqs : handler'[p] = handler[p] \/ handler'[p].at # "grading"
    BY <1>6, CompleteRests DEF RetryAccepted
  <2> QED BY <1>6, <1>2, <2>1 DEF RetryAccepted, HeldInv, TypeOK
<1>7. CASE Quiet
  BY <1>7 DEF Quiet
<1> QED BY <1>1, <1>3, <1>4, <1>5, <1>6, <1>7, OthersRest

\* No request is given two second chances and no second chance a third, however its
\* deliveries overlap the grade.
THEOREM OneSecondChanceHolds == Spec => []OneSecondChance
<1> DEFINE Inv == TypeOK /\ HeldInv /\ ChanceInv
<1>1. Init => Inv
  <2> SUFFICES ASSUME Init PROVE Inv
    OBVIOUS
  <2>1. \A q \in Reqs : run[q].retryOf = None /\ handler[q].at = "idle"
    BY FirstTyped DEF Init, NoRun
  <2>2. HeldInv
    <3>1. \A d \in Dispatches : dispatch[d].at = "idle"
      BY FirstTyped DEF Init
    <3> QED BY <2>1, <3>1 DEF HeldInv
  <2> QED BY <2>1, <2>2, TypeInit, IdsAreNat DEF ChanceInv
<1>2. Inv /\ [Next]_vars => Inv'
  BY TypeStep, HeldStep, ChanceStep
<1> QED BY <1>1, <1>2, ChanceInvIsOneSecondChance, PTL DEF Spec

-----------------------------------------------------------------------------
(* A pending row is tracked.  A row's request names a recorded run of the row's
   own flow, and no two rows name one; so the answer of that run finds this row
   and no other, at once or, for the flows that store late, when it is picked. *)

LinkInv ==
    /\ \A i \in Ids : row[i].req # None =>
          /\ run[row[i].req].status \in {"pending", "completed", "failed"}
          /\ run[row[i].req].kind = KindOf[row[i].topic]
    /\ \A i, j \in Ids : row[i].req # None /\ row[i].req = row[j].req => i = j
OpenInv ==
    /\ \A d \in Dispatches : dispatch[d].at \in {"opened", "sent"} =>
          row[dispatch[d].row].status # "none" /\ row[dispatch[d].row].topic = dispatch[d].topic
    /\ \A d \in Dispatches : dispatch[d].at = "sent" => run[dispatch[d].req].kind = KindOf[dispatch[d].topic]
GradeInv ==
    /\ \A q \in Reqs : handler[q].at # "idle" => run[q].status = "completed"
    /\ \A q \in Reqs : handler[q].at = "retrying" => run[q].kind \in {"usage", run[handler[q].next].kind}
    /\ \A q \in Reqs, i \in Ids :
          handler[q].at = "storing" /\ row[i].req = q /\ row[i].status = "pending" => handler[q].row = i
RowsInv == LinkInv /\ OpenInv /\ GradeInv

\* The row that names a request is the one its answer goes to.
LEMMA OwnerIsRow ==
  ASSUME NEW R, NEW q \in Reqs, NEW j \in Ids, R[j].req = q, R[j].status # "deleted",
         KindOf[R[j].topic] = run[q].kind, \A i \in Ids : R[i].req = q => i = j
  PROVE  OwnersOf(R, q) = {j}
<1>1. {i \in Ids : R[i].status # "deleted" /\ R[i].req = q /\ KindOf[R[i].topic] = run[q].kind} = {j}
  OBVIOUS
<1>2. {i \in {j} : IsNewest(i, {j})} = {j}
  BY IdsAreNat DEF IsNewest
<1> QED BY <1>1, <1>2 DEF OwnersOf

LEMMA StoredRows ==
  ASSUME NEW R \in [Ids -> RowType], NEW S, NEW q \in Reqs, NEW s
  PROVE  \A i \in Ids :
            /\ Stored(R, S, q, s)[i].req = R[i].req /\ Stored(R, S, q, s)[i].topic = R[i].topic
            /\ Stored(R, S, q, s)[i].forced = R[i].forced
            /\ Stored(R, S, q, s)[i].status = IF i \in S /\ R[i].status # "deleted" THEN s ELSE R[i].status
            /\ IF i \in S /\ R[i].status # "deleted" THEN Stored(R, S, q, s)[i].answer = q ELSE Stored(R, S, q, s)[i] = R[i]
<1>1. ASSUME NEW r \in RowType
      PROVE  /\ [r EXCEPT !.status = s, !.answer = q].req = r.req
             /\ [r EXCEPT !.status = s, !.answer = q].topic = r.topic
             /\ [r EXCEPT !.status = s, !.answer = q].forced = r.forced
             /\ [r EXCEPT !.status = s, !.answer = q].status = s
             /\ [r EXCEPT !.status = s, !.answer = q].answer = q
  <2> DEFINE m == [r EXCEPT !.status = s]
  <2>1. /\ m.req = r.req /\ m.topic = r.topic /\ m.status = s /\ m.forced = r.forced
        /\ m = [status |-> s, topic |-> r.topic, req |-> r.req, answer |-> r.answer, forced |-> r.forced]
    BY DEF RowType
  <2> HIDE DEF m
  <2>2. /\ [m EXCEPT !.answer = q].req = m.req /\ [m EXCEPT !.answer = q].topic = m.topic
        /\ [m EXCEPT !.answer = q].status = m.status /\ [m EXCEPT !.answer = q].forced = m.forced
        /\ [m EXCEPT !.answer = q].answer = q
    BY <2>1
  <2> QED BY <2>1, <2>2 DEF m
<1> QED BY <1>1 DEF Stored

\* The rows after gradeAndMaybeRetry pointed them at the retry.
LEMMA FollowRows ==
  ASSUME TypeOK, NEW q \in Reqs, NEW n \in Reqs
  PROVE  \A i \in Ids :
            \/ /\ FollowRetry(q, n)[i] = row[i]
               /\ row[i].status = "deleted" \/ row[i].req # q \/ KindOf[row[i].topic] \notin Repointed
            \/ /\ row[i].status # "deleted" /\ row[i].req = q /\ KindOf[row[i].topic] \in Repointed
               /\ FollowRetry(q, n)[i].req = n /\ FollowRetry(q, n)[i].status = "pending"
               /\ FollowRetry(q, n)[i].topic = row[i].topic /\ FollowRetry(q, n)[i].forced = row[i].forced
               /\ FollowRetry(q, n)[i].answer = row[i].answer
<1>1. ASSUME NEW r \in RowType
      PROVE  /\ [r EXCEPT !.req = n, !.status = "pending"].req = n
             /\ [r EXCEPT !.req = n, !.status = "pending"].status = "pending"
             /\ [r EXCEPT !.req = n, !.status = "pending"].topic = r.topic
             /\ [r EXCEPT !.req = n, !.status = "pending"].forced = r.forced
             /\ [r EXCEPT !.req = n, !.status = "pending"].answer = r.answer
  <2> DEFINE m == [r EXCEPT !.req = n]
  <2>1. m \in RowType /\ m.req = n /\ m.topic = r.topic /\ m.forced = r.forced /\ m.answer = r.answer
    BY DEF RowType
  <2> HIDE DEF m
  <2>2. /\ [m EXCEPT !.status = "pending"].req = n
        /\ [m EXCEPT !.status = "pending"].status = "pending"
        /\ [m EXCEPT !.status = "pending"].topic = r.topic
        /\ [m EXCEPT !.status = "pending"].forced = r.forced
        /\ [m EXCEPT !.status = "pending"].answer = r.answer
    BY <2>1 DEF RowType
  <2> QED BY <2>2 DEF m
<1>2. \A i \in Ids : row[i] \in RowType
  BY DEF TypeOK
<1> QED BY <1>1, <1>2 DEF FollowRetry

\* complete<Flow> changes no link, and leaves no pending row that names its request,
\* but the one it will store.
LEMMA CompleteRows ==
  ASSUME TypeOK, NEW q \in Reqs, NEW R \in [Ids -> RowType], Complete(q, R),
         \A i, j \in Ids : R[i].req = q /\ R[j].req = q => i = j,
         \A i \in Ids : R[i].req = q => KindOf[R[i].topic] = run[q].kind
  PROVE  /\ \A i \in Ids :
              /\ row'[i].req = R[i].req /\ row'[i].topic = R[i].topic
              /\ row'[i].status = R[i].status \/ row'[i].status \in {"completed", "failed"}
         /\ \A i \in Ids : row'[i].req = q /\ row'[i].status = "pending" =>
              handler'[q].at = "storing" /\ handler'[q].row = i
<1> DEFINE object == agent[q] # "useless" \/ run[q].kind \notin NeedsObject
           s == IF object THEN "completed" ELSE "failed"
<1>0. \A i \in Ids : R[i].req = q /\ R[i].status = "pending" => OwnersOf(R, q) = {i}
  BY OwnerIsRow
<1>1. CASE run[q].kind \in StoresLate /\ object
  <2>1. row' = R
    BY <1>1 DEF Complete
  <2>2. ASSUME NEW i \in Ids, R[i].req = q, R[i].status = "pending"
        PROVE  handler'[q].at = "storing" /\ handler'[q].row = i
    <3>1. OwnersOf(R, q) = {i}
      BY <1>0, <2>2
    <3>2. handler' = [handler EXCEPT ![q] = [at |-> "storing", row |-> i, next |-> None]]
      BY <1>1, <3>1 DEF Complete
    <3> QED BY <3>2 DEF TypeOK
  <2> QED BY <2>1, <2>2
<1>2. CASE ~(run[q].kind \in StoresLate /\ object)
  <2>1. row' = Stored(R, OwnersOf(R, q), q, s)
    BY <1>2 DEF Complete
  <2>2. s \in {"completed", "failed"}
    OBVIOUS
  <2> HIDE DEF s, object
  <2>3. \A i \in Ids :
           /\ row'[i].req = R[i].req /\ row'[i].topic = R[i].topic
           /\ row'[i].status = IF i \in OwnersOf(R, q) /\ R[i].status # "deleted" THEN s ELSE R[i].status
    BY <2>1, StoredRows
  <2> QED BY <2>2, <2>3, <1>0
<1> QED BY <1>1, <1>2

LEMMA OpenRows ==
  ASSUME TypeOK, NEW d \in Dispatches, NEW t \in Topics, NEW force \in BOOLEAN, Open(d, t, force)
  PROVE  \E i \in Ids :
            /\ row[i].status = "none" /\ \A j \in Ids : row[j].status = "none" => i <= j
            /\ row'[i].status = "pending" /\ row'[i].topic = t /\ row'[i].req = None
            /\ row'[i].answer = None /\ row'[i].forced = force
            /\ \A j \in Ids : j # i => row'[j] = row[j]
            /\ dispatch'[d].at = "opened" /\ dispatch'[d].topic = t /\ dispatch'[d].row = i
            /\ \A e \in Dispatches : e # d => dispatch'[e] = dispatch[e]
<1>1. PICK i \in Ids :
        /\ row[i].status = "none" /\ \A j \in Ids : row[j].status = "none" => i <= j
        /\ row' = [row EXCEPT ![i] = [NoRow EXCEPT !.status = "pending", !.topic = t, !.forced = force]]
        /\ dispatch' = [dispatch EXCEPT ![d] = [IdleDispatch EXCEPT !.at = "opened", !.topic = t, !.row = i]]
  BY DEF Open, IsFirst
<1>2. /\ [NoRow EXCEPT !.status = "pending", !.topic = t, !.forced = force].status = "pending"
      /\ [NoRow EXCEPT !.status = "pending", !.topic = t, !.forced = force].topic = t
      /\ [NoRow EXCEPT !.status = "pending", !.topic = t, !.forced = force].req = None
      /\ [NoRow EXCEPT !.status = "pending", !.topic = t, !.forced = force].answer = None
      /\ [NoRow EXCEPT !.status = "pending", !.topic = t, !.forced = force].forced = force
  <2> DEFINE m == [NoRow EXCEPT !.status = "pending"]
             n == [m EXCEPT !.topic = t]
  <2>1. NoRow \in RowType /\ NoRow.req = None /\ NoRow.answer = None
    BY FirstTyped DEF NoRow
  <2>2. m \in RowType /\ m.status = "pending" /\ m.req = None /\ m.answer = None
    BY <2>1 DEF RowType
  <2> HIDE DEF m
  <2>3. n \in RowType /\ n.status = "pending" /\ n.req = None /\ n.topic = t /\ n.answer = None
    BY <2>2 DEF RowType
  <2> HIDE DEF n
  <2>4. /\ [n EXCEPT !.forced = force].status = "pending"
        /\ [n EXCEPT !.forced = force].topic = t
        /\ [n EXCEPT !.forced = force].req = None
        /\ [n EXCEPT !.forced = force].answer = None
        /\ [n EXCEPT !.forced = force].forced = force
    BY <2>3 DEF RowType
  <2> QED BY <2>4 DEF n, m
<1>3. /\ [IdleDispatch EXCEPT !.at = "opened", !.topic = t, !.row = i].at = "opened"
      /\ [IdleDispatch EXCEPT !.at = "opened", !.topic = t, !.row = i].topic = t
      /\ [IdleDispatch EXCEPT !.at = "opened", !.topic = t, !.row = i].row = i
  <2> DEFINE m == [IdleDispatch EXCEPT !.at = "opened"]
             n == [m EXCEPT !.topic = t]
  <2>1. IdleDispatch \in DispatchType
    BY FirstTyped
  <2>2. m \in DispatchType /\ m.at = "opened"
    BY <2>1 DEF DispatchType
  <2> HIDE DEF m
  <2>3. n \in DispatchType /\ n.at = "opened" /\ n.topic = t
    BY <2>2 DEF DispatchType
  <2> HIDE DEF n
  <2>4. /\ [n EXCEPT !.row = i].at = "opened" /\ [n EXCEPT !.row = i].topic = t /\ [n EXCEPT !.row = i].row = i
    BY <2>3 DEF DispatchType
  <2> QED BY <2>4 DEF n, m
<1> DEFINE r == [NoRow EXCEPT !.status = "pending", !.topic = t, !.forced = force]
           f == [IdleDispatch EXCEPT !.at = "opened", !.topic = t, !.row = i]
<1>4. /\ row' = [row EXCEPT ![i] = r] /\ r.status = "pending" /\ r.topic = t /\ r.req = None
      /\ r.answer = None /\ r.forced = force
  BY <1>1, <1>2
<1>5. dispatch' = [dispatch EXCEPT ![d] = f] /\ f.at = "opened" /\ f.topic = t /\ f.row = i
  BY <1>1, <1>3
<1> HIDE DEF r, f
<1>6. /\ row'[i].status = "pending" /\ row'[i].topic = t /\ row'[i].req = None
      /\ row'[i].answer = None /\ row'[i].forced = force
      /\ \A j \in Ids : j # i => row'[j] = row[j]
  BY <1>4 DEF TypeOK
<1>7. /\ dispatch'[d].at = "opened" /\ dispatch'[d].topic = t /\ dispatch'[d].row = i
      /\ \A e \in Dispatches : e # d => dispatch'[e] = dispatch[e]
  BY <1>5 DEF TypeOK
<1> QED BY <1>1, <1>6, <1>7

TrackInv == TypeOK /\ HeldInv /\ RowsInv /\ PendingIsTracked

\* What the steps below take from the invariant.
LEMMA TrackFacts ==
  ASSUME TrackInv
  PROVE  /\ \A d \in Dispatches : dispatch[d].at \in {"opened", "sent"} => dispatch[d].row \in Ids
         /\ \A d \in Dispatches : dispatch[d].at = "sent" => dispatch[d].req \in Reqs
         /\ \A q \in Reqs : handler[q].at = "retrying" => handler[q].next \in Reqs
         /\ \A i \in Ids : row[i].req # None => row[i].req \in Reqs
         /\ \A q \in Reqs, i \in Ids : run[q].status \in {"none", "posted"} => row[i].req # q
  BY IdsAreNat DEF TrackInv, TypeOK, RowType, RowsInv, LinkInv

\* Links survive while runs keep their flow and stay recorded, and rows gain none.
LEMMA SameLinks ==
  ASSUME LinkInv,
         \A i \in Ids : row'[i].req # None => row'[i].req = row[i].req /\ row'[i].topic = row[i].topic,
         \A q \in Reqs : run[q].status \in {"pending", "completed", "failed"} =>
            run'[q].kind = run[q].kind /\ run'[q].status \in {"pending", "completed", "failed"},
         \A i \in Ids : row[i].req # None => row[i].req \in Reqs
  PROVE  LinkInv'
<1>1. ASSUME NEW i \in Ids, row'[i].req # None
      PROVE  /\ run'[row'[i].req].status \in {"pending", "completed", "failed"}
             /\ run'[row'[i].req].kind = KindOf[row'[i].topic]
  <2>1. row'[i].req = row[i].req /\ row'[i].topic = row[i].topic
    BY <1>1
  <2>2. row[i].req # None /\ row[i].req \in Reqs
    BY <1>1, <2>1
  <2>3. run[row[i].req].status \in {"pending", "completed", "failed"} /\ run[row[i].req].kind = KindOf[row[i].topic]
    BY <2>2 DEF LinkInv
  <2>4. /\ run'[row[i].req].kind = run[row[i].req].kind
        /\ run'[row[i].req].status \in {"pending", "completed", "failed"}
    BY <2>2, <2>3
  <2> QED BY <2>1, <2>3, <2>4
<1>2. \A i, j \in Ids : row'[i].req # None /\ row'[i].req = row'[j].req => i = j
  BY DEF LinkInv
<1> QED BY <1>1, <1>2 DEF LinkInv

\* A row that a dispatch opens, closes at the gate, or cannot post.
LEMMA TrackRows ==
  ASSUME TrackInv, NEW d \in Dispatches, UNCHANGED <<run, handler>>,
         \/ \E t \in Topics, force \in BOOLEAN : Check(d, t, force) \/ CheckAndOpen(d, t, force)
         \/ OpenChecked(d) \/ GateCloses(d) \/ Refused(d)
  PROVE  RowsInv' /\ PendingIsTracked'
<1> USE IdsAreNat, TrackFacts
<1>i. TypeOK /\ LinkInv /\ OpenInv /\ GradeInv /\ PendingIsTracked
  BY DEF TrackInv, RowsInv
<1>u. run' = run /\ handler' = handler
  OBVIOUS
<1>1. ASSUME \/ \E t \in Topics, force \in BOOLEAN : Check(d, t, force)
             \/ OpenChecked(d) /\ UNCHANGED row
      PROVE  RowsInv' /\ PendingIsTracked'
  <2>1. /\ dispatch[d].at \notin {"opened", "sent"} /\ dispatch'[d].at \notin {"opened", "sent"}
        /\ \A e \in Dispatches : e # d => dispatch'[e] = dispatch[e]
    <3>1. ASSUME NEW t \in Topics, NEW force \in BOOLEAN, Check(d, t, force)
          PROVE  dispatch[d].at = "idle" /\ dispatch'[d].at = "checked" /\ \A e \in Dispatches : e # d => dispatch'[e] = dispatch[e]
      BY <3>1, <1>i DEF Check, TypeOK, IdleDispatch
    <3>2. ASSUME OpenChecked(d), UNCHANGED row
          PROVE  dispatch[d].at = "checked" /\ dispatch'[d].at = "idle" /\ \A e \in Dispatches : e # d => dispatch'[e] = dispatch[e]
      <4>1. CASE dispatch' = [dispatch EXCEPT ![d] = IdleDispatch]
        BY <3>2, <4>1, <1>i, FirstTyped DEF OpenChecked, TypeOK
      <4>2. CASE Open(d, dispatch[d].topic, dispatch[d].forced)
        <5>1. dispatch[d].topic \in Topics /\ dispatch[d].forced \in BOOLEAN
          BY <1>i DEF TypeOK, DispatchType
        <5> QED BY <3>2, <4>2, <5>1, <1>i, OpenRows
      <4> QED BY <3>2, <4>1, <4>2 DEF OpenChecked
    <3> QED BY <1>1, <3>1, <3>2
  <2>2. UNCHANGED <<row, stranded>>
    BY <1>1 DEF Check, OpenChecked, history
  <2>3. LinkInv' /\ OpenInv' /\ GradeInv'
    BY <1>i, <2>1, <2>2 DEF LinkInv, OpenInv, GradeInv
  <2>4. PendingIsTracked'
    BY <1>i, <2>1, <2>2 DEF PendingIsTracked
  <2> QED BY <2>3, <2>4 DEF RowsInv
<1>2. ASSUME NEW t \in Topics, NEW force \in BOOLEAN, Open(d, t, force), dispatch[d].at \in {"idle", "checked"},
             UNCHANGED stranded
      PROVE  RowsInv' /\ PendingIsTracked'
  <2>1. PICK i \in Ids :
            /\ row[i].status = "none"
            /\ row'[i].status = "pending" /\ row'[i].topic = t /\ row'[i].req = None
            /\ \A j \in Ids : j # i => row'[j] = row[j]
            /\ dispatch'[d].at = "opened" /\ dispatch'[d].topic = t /\ dispatch'[d].row = i
            /\ \A e \in Dispatches : e # d => dispatch'[e] = dispatch[e]
    BY <1>2, <1>i, OpenRows
  <2>2. LinkInv'
    <3>1. \A j \in Ids : row'[j].req # None => row'[j] = row[j]
      BY <2>1
    <3> QED BY <1>i, <1>u, <3>1, SameLinks
  <2>3. OpenInv'
    <3>1. ASSUME NEW e \in Dispatches, dispatch'[e].at \in {"opened", "sent"}
          PROVE  row'[dispatch'[e].row].status # "none" /\ row'[dispatch'[e].row].topic = dispatch'[e].topic
      <4>1. CASE e = d
        BY <2>1, <4>1
      <4>2. CASE e # d
        <5>1. dispatch'[e] = dispatch[e] /\ dispatch[e].row \in Ids /\ dispatch[e].row # i
          BY <2>1, <3>1, <4>2, <1>i DEF OpenInv
        <5>2. row'[dispatch[e].row] = row[dispatch[e].row]
          BY <2>1, <5>1
        <5> QED BY <3>1, <5>1, <5>2, <1>i DEF OpenInv
      <4> QED BY <4>1, <4>2
    <3>2. \A e \in Dispatches : dispatch'[e].at = "sent" => run'[dispatch'[e].req].kind = KindOf[dispatch'[e].topic]
      BY <1>i, <1>u, <2>1 DEF OpenInv
    <3> QED BY <3>1, <3>2 DEF OpenInv
  <2>4. GradeInv'
    BY <1>i, <2>1 DEF GradeInv
  <2>5. PendingIsTracked'
    BY <1>i, <1>2, <2>1 DEF PendingIsTracked
  <2> QED BY <2>2, <2>3, <2>4, <2>5 DEF RowsInv
<1>3. ASSUME dispatch' = [dispatch EXCEPT ![d] = IdleDispatch], dispatch[d].at \in {"opened", "sent"},
             NEW s \in {"failed", "not_applicable"},
             \/ row' = [row EXCEPT ![dispatch[d].row].status = s] /\ stranded' = stranded
             \/ row' = row /\ stranded' = stranded \cup {dispatch[d].row}
             \/ row' = row /\ stranded' = stranded /\ row[dispatch[d].row].status = "deleted"
      PROVE  RowsInv' /\ PendingIsTracked'
  <2>1. dispatch'[d].at = "idle" /\ \A e \in Dispatches : e # d => dispatch'[e] = dispatch[e]
    BY <1>3, <1>i, FirstTyped DEF TypeOK
  <2>2. \A i \in Ids :
           /\ row'[i].req = row[i].req /\ row'[i].topic = row[i].topic
           /\ row'[i].status = row[i].status \/ row'[i].status = s
    BY <1>3, <1>i DEF TypeOK, RowType
  <2>3. row'[dispatch[d].row].status # "pending" \/ dispatch[d].row \in stranded'
    BY <1>3, <1>i DEF TypeOK, RowType
  <2>4. LinkInv'
    BY <1>i, <1>u, <2>2, SameLinks
  <2>5. OpenInv'
    BY <1>i, <2>1, <2>2, <1>3 DEF OpenInv
  <2>6. GradeInv'
    BY <1>i, <2>2, <1>3 DEF GradeInv
  <2>7. stranded \subseteq stranded'
    BY <1>3
  <2>8. PendingIsTracked'
    BY <1>i, <1>3, <2>1, <2>2, <2>3, <2>7 DEF PendingIsTracked
  <2> QED BY <2>4, <2>5, <2>6, <2>8 DEF RowsInv
<1>4. ASSUME NEW t \in Topics, NEW force \in BOOLEAN, CheckAndOpen(d, t, force) PROVE RowsInv' /\ PendingIsTracked'
  BY <1>4, <1>2 DEF CheckAndOpen, history
<1>5. CASE OpenChecked(d)
  <2>1. CASE UNCHANGED row
    BY <1>5, <2>1, <1>1
  <2>2. CASE Open(d, dispatch[d].topic, dispatch[d].forced)
    <3>1. dispatch[d].topic \in Topics /\ dispatch[d].forced \in BOOLEAN
      BY <1>i DEF TypeOK, DispatchType
    <3> QED BY <1>5, <2>2, <3>1, <1>2 DEF OpenChecked, history
  <2> QED BY <1>5, <2>1, <2>2 DEF OpenChecked
<1>6. CASE GateCloses(d)
  BY <1>6, <1>3 DEF GateCloses, history
<1>7. CASE Refused(d)
  <2>1. /\ dispatch' = [dispatch EXCEPT ![d] = IdleDispatch] /\ dispatch[d].at \in {"opened", "sent"}
        /\ \/ row' = [row EXCEPT ![dispatch[d].row].status = "failed"] /\ stranded' = stranded
           \/ row' = row /\ stranded' = stranded \cup {dispatch[d].row}
           \/ row' = row /\ stranded' = stranded /\ row[dispatch[d].row].status = "deleted"
    BY <1>7 DEF Refused
  <2> QED BY <2>1, <1>3
<1> QED BY <1>1, <1>4, <1>5, <1>6, <1>7

\* A request on its way, and recorded.
LEMMA TrackPosts ==
  ASSUME TrackInv, NEW d \in Dispatches, Accepted(d) \/ \E q \in Reqs : Send(d, q)
  PROVE  RowsInv' /\ PendingIsTracked'
<1> USE IdsAreNat, TrackFacts
<1>i. TypeOK /\ HeldInv /\ LinkInv /\ OpenInv /\ GradeInv /\ PendingIsTracked
  BY DEF TrackInv, RowsInv
<1>1. ASSUME NEW q \in Reqs, Send(d, q) PROVE RowsInv' /\ PendingIsTracked'
  <2> DEFINE k == KindOf[dispatch[d].topic]
  <2>1. run[q].status = "none" /\ run'[q].status = "posted" /\ run'[q].kind = k /\ \A p \in Reqs : p # q => run'[p] = run[p]
    <3>1. Post(q, k, dispatch[d].topic, None)
      BY <1>1 DEF Send
    <3> QED BY <3>1, <1>i DEF Post, IsFirst, TypeOK
  <2>2. /\ dispatch[d].at = "opened" /\ dispatch'[d].at = "sent" /\ dispatch'[d].req = q
        /\ dispatch'[d].row = dispatch[d].row /\ dispatch'[d].topic = dispatch[d].topic
        /\ \A e \in Dispatches : e # d => dispatch'[e] = dispatch[e]
    BY <1>1, <1>i, SendSends DEF Send
  <2>3. row' = row /\ handler' = handler /\ stranded' = stranded
    BY <1>1 DEF Send, history
  <2>4. LinkInv'
    BY <1>i, <2>1, <2>3, SameLinks
  <2>5. OpenInv'
    <3>1. \A e \in Dispatches : e # d /\ dispatch[e].at = "sent" => dispatch[e].req # q
      BY <1>i, <2>1 DEF HeldInv
    <3>2. \A e \in Dispatches : dispatch'[e].at \in {"opened", "sent"} =>
            row'[dispatch'[e].row].status # "none" /\ row'[dispatch'[e].row].topic = dispatch'[e].topic
      BY <1>i, <2>2, <2>3 DEF OpenInv
    <3>3. ASSUME NEW e \in Dispatches, dispatch'[e].at = "sent"
          PROVE  run'[dispatch'[e].req].kind = KindOf[dispatch'[e].topic]
      <4>1. CASE e = d
        BY <4>1, <2>1, <2>2
      <4>2. CASE e # d
        <5>1. dispatch'[e] = dispatch[e] /\ dispatch[e].req \in Reqs /\ dispatch[e].req # q
          BY <4>2, <3>3, <3>1, <2>2
        <5>2. run'[dispatch[e].req] = run[dispatch[e].req]
          BY <5>1, <2>1
        <5> QED BY <3>3, <5>1, <5>2, <1>i DEF OpenInv
      <4> QED BY <4>1, <4>2
    <3> QED BY <3>2, <3>3 DEF OpenInv
  <2>6. GradeInv'
    <3>1. \A p \in Reqs : handler[p].at # "idle" => p # q
      BY <1>i, <2>1 DEF GradeInv
    <3>2. \A p \in Reqs : handler[p].at = "retrying" => handler[p].next # q
      BY <1>i, <2>1 DEF HeldInv
    <3>3. \A p \in Reqs : handler[p].at # "idle" => run'[p] = run[p]
      BY <2>1, <3>1
    <3>4. \A p \in Reqs : handler[p].at = "retrying" => run'[handler[p].next] = run[handler[p].next]
      BY <2>1, <3>2
    <3> QED BY <1>i, <2>3, <3>3, <3>4 DEF GradeInv
  <2>7. PendingIsTracked'
    <3>1. \A i \in Ids : row[i].req # None => run'[row[i].req] = run[row[i].req]
      BY <2>1
    <3> QED BY <1>i, <2>2, <2>3, <3>1 DEF PendingIsTracked
  <2> QED BY <2>4, <2>5, <2>6, <2>7 DEF RowsInv
<1>2. CASE Accepted(d)
  <2> DEFINE q == dispatch[d].req
             i == dispatch[d].row
  <2>1. q \in Reqs /\ i \in Ids /\ run[q].status = "posted" /\ dispatch[d].at = "sent"
    BY <1>2, <1>i DEF Accepted, HeldInv
  <2>2. run'[q].status = "pending" /\ run'[q].kind = run[q].kind /\ \A p \in Reqs : p # q => run'[p] = run[p]
    BY <1>2, <2>1, <1>i DEF Accepted, TypeOK, RunType
  <2>3. /\ row'[i].req = q /\ row'[i].topic = row[i].topic /\ row'[i].status = row[i].status
        /\ \A j \in Ids : j # i => row'[j] = row[j]
    BY <1>2, <2>1, <1>i DEF Accepted, TypeOK, RowType
  <2>4. dispatch'[d].at = "idle" /\ \A e \in Dispatches : e # d => dispatch'[e] = dispatch[e]
    BY <1>2, <1>i, FirstTyped DEF Accepted, TypeOK
  <2>5. handler' = handler /\ stranded' = stranded
    BY <1>2 DEF Accepted, history
  <2>6. row[i].topic = dispatch[d].topic /\ run[q].kind = KindOf[dispatch[d].topic]
    BY <2>1, <1>i DEF OpenInv
  <2>7. \A j \in Ids : row[j].req # q
    BY <2>1
  <2> HIDE DEF q, i
  <2>8. LinkInv'
    <3>1. ASSUME NEW j \in Ids, row'[j].req # None
          PROVE  /\ run'[row'[j].req].status \in {"pending", "completed", "failed"}
                 /\ run'[row'[j].req].kind = KindOf[row'[j].topic]
      <4>1. CASE j = i
        BY <4>1, <2>2, <2>3, <2>6
      <4>2. CASE j # i
        <5>1. row'[j] = row[j] /\ row[j].req \in Reqs /\ row[j].req # q
          BY <4>2, <3>1, <2>3, <2>7
        <5>2. run'[row[j].req] = run[row[j].req]
          BY <5>1, <2>2
        <5> QED BY <5>1, <5>2, <1>i DEF LinkInv
      <4> QED BY <4>1, <4>2
    <3>2. \A j, m \in Ids : row'[j].req # None /\ row'[j].req = row'[m].req => j = m
      BY <2>3, <2>7, <1>i DEF LinkInv
    <3> QED BY <3>1, <3>2 DEF LinkInv
  <2>9. OpenInv'
    <3>1. \A j \in Ids : row'[j].topic = row[j].topic /\ row'[j].status = row[j].status
      BY <2>3
    <3>2. \A e \in Dispatches : dispatch[e].at = "sent" => run'[dispatch[e].req].kind = run[dispatch[e].req].kind
      BY <2>2
    <3>3. \A e \in Dispatches : dispatch'[e].at \in {"opened", "sent"} => dispatch'[e] = dispatch[e]
      BY <2>4
    <3>4. ASSUME NEW e \in Dispatches, dispatch'[e].at \in {"opened", "sent"}
          PROVE  row'[dispatch'[e].row].status # "none" /\ row'[dispatch'[e].row].topic = dispatch'[e].topic
      <4>1. dispatch'[e] = dispatch[e] /\ dispatch[e].row \in Ids
        BY <3>3, <3>4
      <4>2. row[dispatch[e].row].status # "none" /\ row[dispatch[e].row].topic = dispatch[e].topic
        BY <4>1, <3>4, <1>i DEF OpenInv
      <4> QED BY <4>1, <4>2, <3>1
    <3>5. \A e \in Dispatches : dispatch'[e].at = "sent" => run'[dispatch'[e].req].kind = KindOf[dispatch'[e].topic]
      BY <3>2, <3>3, <1>i DEF OpenInv
    <3> QED BY <3>4, <3>5 DEF OpenInv
  <2>10. GradeInv'
    <3>1. \A p \in Reqs : handler[p].at # "idle" => p # q
      BY <1>i, <2>1 DEF GradeInv, q
    <3>2. \A p \in Reqs : run'[p].kind = run[p].kind
      BY <2>2
    <3>3. \A p \in Reqs : handler'[p].at # "idle" => run'[p].status = "completed"
      BY <1>i, <2>2, <2>5, <3>1 DEF GradeInv
    <3>4. \A p \in Reqs : handler'[p].at = "retrying" => run'[p].kind \in {"usage", run'[handler'[p].next].kind}
      <4>1. \A p \in Reqs : handler[p].at = "retrying" => run[p].kind \in {"usage", run[handler[p].next].kind}
        BY <1>i DEF GradeInv
      <4> QED BY <4>1, <2>5, <3>2
    <3>5. ASSUME NEW p \in Reqs, NEW j \in Ids, handler'[p].at = "storing", row'[j].req = p, row'[j].status = "pending"
          PROVE  handler'[p].row = j
      <4>1. p # q /\ j # i
        BY <3>5, <3>1, <2>3, <2>5
      <4> QED BY <4>1, <3>5, <2>3, <2>5, <1>i DEF GradeInv
    <3> QED BY <3>3, <3>4, <3>5 DEF GradeInv
  <2>11. PendingIsTracked'
    <3>1. ASSUME NEW j \in Ids, j # i, row'[j].status = "pending"
          PROVE  \/ \E e \in Dispatches : dispatch'[e].at \in {"opened", "sent"} /\ dispatch'[e].row = j
                 \/ row'[j].req # None /\ (run'[row'[j].req].status = "pending" \/ handler'[row'[j].req].at # "idle")
                 \/ j \in stranded'
      <4>1. row'[j] = row[j]
        BY <3>1, <2>3
      <4>2. row[j].req # None => run'[row[j].req] = run[row[j].req]
        BY <2>2, <2>7
      <4> QED BY <3>1, <4>1, <4>2, <2>4, <2>5, <1>i DEF PendingIsTracked, i
    <3>2. row'[i].req # None /\ run'[row'[i].req].status = "pending"
      BY <2>1, <2>2, <2>3 DEF q
    <3> QED BY <3>1, <3>2 DEF PendingIsTracked
  <2> QED BY <2>8, <2>9, <2>10, <2>11 DEF RowsInv
<1> QED BY <1>1, <1>2

\* The answer arrives, is graded, is sent back, is stored.
LEMMA TrackAnswers ==
  ASSUME TrackInv, NEW q \in Reqs,
         \/ Receive(q) \/ GradedWell(q) \/ RetryAccepted(q) \/ RetryNotSent(q) \/ StoreLate(q)
         \/ \E next \in Reqs : SendRetry(q, next)
  PROVE  RowsInv' /\ PendingIsTracked'
<1> USE IdsAreNat, TrackFacts
<1>i. TypeOK /\ HeldInv /\ LinkInv /\ OpenInv /\ GradeInv /\ PendingIsTracked
  BY DEF TrackInv, RowsInv
<1>d. dispatch' = dispatch /\ stranded' = stranded
  BY DEF Receive, GradedWell, RetryAccepted, RetryNotSent, StoreLate, SendRetry, history
<1>q. /\ \A i, j \in Ids : row[i].req = q /\ row[j].req = q => i = j
      /\ \A i \in Ids : row[i].req = q => KindOf[row[i].topic] = run[q].kind
  BY <1>i DEF LinkInv
\* Every step of an answer keeps the dispatches' rows and the kinds of their requests.
<1>o. ASSUME \A i \in Ids : row'[i].topic = row[i].topic /\ (row[i].status # "none" => row'[i].status # "none"),
             \A d \in Dispatches : dispatch[d].at = "sent" => run'[dispatch[d].req].kind = run[dispatch[d].req].kind
      PROVE  OpenInv'
  <2>1. ASSUME NEW d \in Dispatches, dispatch[d].at \in {"opened", "sent"}
        PROVE  row'[dispatch[d].row].status # "none" /\ row'[dispatch[d].row].topic = dispatch[d].topic
    <3>1. dispatch[d].row \in Ids
      BY <2>1
    <3>2. row[dispatch[d].row].status # "none" /\ row[dispatch[d].row].topic = dispatch[d].topic
      BY <2>1, <1>i DEF OpenInv
    <3> QED BY <3>1, <3>2, <1>o
  <2>2. \A d \in Dispatches : dispatch[d].at = "sent" => run'[dispatch[d].req].kind = KindOf[dispatch[d].topic]
    BY <1>o, <1>i DEF OpenInv
  <2> QED BY <2>1, <2>2, <1>d DEF OpenInv
<1>1. CASE Receive(q)
  <2>1. /\ run[q].status = "pending" /\ run'[q].status \in {"completed", "failed"}
        /\ \A p \in Reqs : run'[p].kind = run[p].kind /\ (p # q => run'[p] = run[p])
    BY <1>1, <1>i DEF Receive, TypeOK, RunType
  <2>2. handler[q].at = "idle" /\ \A p \in Reqs : p # q => handler'[p] = handler[p]
    BY <1>1, <2>1, <1>i DEF Receive, GradeInv, TypeOK
  <2>3. \A i \in Ids :
           /\ row'[i].req = row[i].req /\ row'[i].topic = row[i].topic
           /\ row'[i].status = row[i].status \/ row'[i].status = "failed"
    <3>1. CASE row' = row
      BY <3>1
    <3>2. CASE row' = Stored(row, OwnersOf(row, q), q, "failed")
      BY <3>2, StoredRows, <1>i DEF TypeOK
    <3> QED BY <1>1, <3>1, <3>2 DEF Receive
  <2>4. \/ handler'[q].at = "grading" /\ run'[q].status = "completed"
        \/ handler'[q].at = "idle" /\ \A i \in Ids : row[i].req = q => row'[i].status # "pending"
    <3>1. CASE agent[q] = "error"
      <4>1. ASSUME NEW i \in Ids, row[i].req = q, row[i].status # "deleted" PROVE row'[i].status = "failed"
        <5>1. OwnersOf(row, q) = {i}
          <6>1. KindOf[row[i].topic] = run[q].kind /\ \A j \in Ids : row[j].req = q => j = i
            BY <4>1, <1>q
          <6> QED BY <4>1, <6>1, OwnerIsRow
        <5>2. row' = Stored(row, OwnersOf(row, q), q, "failed")
          BY <1>1, <3>1 DEF Receive
        <5> QED BY <4>1, <5>1, <5>2, StoredRows, <1>i DEF TypeOK
      <4>2. handler' = handler
        BY <1>1, <3>1 DEF Receive
      <4> QED BY <4>1, <4>2, <2>2, <2>3
    <3>2. CASE agent[q] # "error"
      <4>1. handler'[q].at = "grading"
        <5>1. [IdleHandler EXCEPT !.at = "grading"].at = "grading"
          BY FirstTyped DEF HandlerType
        <5> QED BY <1>1, <3>2, <5>1, <1>i DEF Receive, TypeOK
      <4>2. run'[q].status = "completed"
        BY <1>1, <3>2, <1>i DEF Receive, TypeOK, RunType
      <4> QED BY <4>1, <4>2
    <3> QED BY <3>1, <3>2
  <2>5. LinkInv'
    BY <1>i, <2>1, <2>3, SameLinks
  <2>6. OpenInv'
    BY <1>o, <2>1, <2>3
  <2>7. GradeInv'
    <3>1. \A p \in Reqs : handler'[p].at # "idle" => run'[p].status = "completed"
      BY <1>i, <2>1, <2>2, <2>4 DEF GradeInv
    <3>2. ASSUME NEW p \in Reqs, handler'[p].at = "retrying" PROVE run'[p].kind \in {"usage", run'[handler'[p].next].kind}
      <4>1. p # q
        BY <2>4, <3>2
      <4>2. handler'[p] = handler[p] /\ handler[p].next \in Reqs /\ run[p].kind \in {"usage", run[handler[p].next].kind}
        BY <4>1, <2>2, <3>2, <1>i DEF GradeInv
      <4> QED BY <4>2, <2>1
    <3>3. \A p \in Reqs, i \in Ids :
             handler'[p].at = "storing" /\ row'[i].req = p /\ row'[i].status = "pending" => handler'[p].row = i
      BY <1>i, <2>2, <2>3, <2>4 DEF GradeInv
    <3> QED BY <3>1, <3>2, <3>3 DEF GradeInv
  <2>8. PendingIsTracked'
    <3>1. ASSUME NEW i \in Ids, row'[i].status = "pending"
          PROVE  \/ \E d \in Dispatches : dispatch[d].at \in {"opened", "sent"} /\ dispatch[d].row = i
                 \/ row'[i].req # None /\ (run'[row'[i].req].status = "pending" \/ handler'[row'[i].req].at # "idle")
                 \/ i \in stranded
      <4>1. row[i].status = "pending" /\ row'[i].req = row[i].req
        BY <3>1, <2>3
      <4>2. CASE row[i].req = q
        BY <4>1, <4>2, <3>1, <2>4
      <4>3. CASE row[i].req # q /\ row[i].req # None
        <5>1. row[i].req \in Reqs
          BY <4>3
        <5>2. run'[row[i].req] = run[row[i].req] /\ handler'[row[i].req] = handler[row[i].req]
          BY <4>3, <5>1, <2>1, <2>2
        <5> QED BY <4>1, <5>2, <1>i DEF PendingIsTracked
      <4>4. CASE row[i].req = None
        BY <4>1, <4>4, <1>i DEF PendingIsTracked
      <4> QED BY <4>2, <4>3, <4>4
    <3> QED BY <3>1, <1>d DEF PendingIsTracked
  <2> QED BY <2>5, <2>6, <2>7, <2>8 DEF RowsInv

\* The answer is completed, on the table as it is or with the row following the retry.
<1>2. ASSUME NEW R \in [Ids -> RowType], Complete(q, R), handler[q].at \in {"grading", "retrying"},
             \A i \in Ids : R[i] = row[i] \/ (R[i].req # None /\ run'[R[i].req].status = "pending"),
             \A i \in Ids : R[i].topic = row[i].topic /\ (row[i].status # "none" => R[i].status # "none"),
             \A i \in Ids : R[i].req # None =>
                /\ run'[R[i].req].status \in {"pending", "completed", "failed"}
                /\ run'[R[i].req].kind = KindOf[R[i].topic],
             \A i, j \in Ids : R[i].req # None /\ R[i].req = R[j].req => i = j,
             \A p \in Reqs : run'[p].kind = run[p].kind,
             \A p \in Reqs : run[p].status # "posted" => run'[p] = run[p]
      PROVE  RowsInv' /\ PendingIsTracked'
  <2>1. /\ handler'[q].at \in {"idle", "storing"}
        /\ \A p \in Reqs : p # q => handler'[p] = handler[p]
    BY <1>2, <1>i, CompleteRests
  <2>2. /\ \A i \in Ids :
             /\ row'[i].req = R[i].req /\ row'[i].topic = R[i].topic
             /\ row'[i].status = R[i].status \/ row'[i].status \in {"completed", "failed"}
        /\ \A i \in Ids : row'[i].req = q /\ row'[i].status = "pending" =>
             handler'[q].at = "storing" /\ handler'[q].row = i
    <3>1. /\ \A i, j \in Ids : R[i].req = q /\ R[j].req = q => i = j
          /\ \A i \in Ids : R[i].req = q => KindOf[R[i].topic] = run[q].kind
      BY <1>2
    <3> QED BY <1>2, <3>1, <1>i, CompleteRows
  <2>3. run[q].status = "completed"
    BY <1>2, <1>i DEF GradeInv
  <2>4. LinkInv'
    <3>1. \A i \in Ids : row'[i].req # None =>
             /\ run'[row'[i].req].status \in {"pending", "completed", "failed"}
             /\ run'[row'[i].req].kind = KindOf[row'[i].topic]
      BY <1>2, <2>2
    <3>2. \A i, j \in Ids : row'[i].req # None /\ row'[i].req = row'[j].req => i = j
      BY <1>2, <2>2
    <3> QED BY <3>1, <3>2 DEF LinkInv
  <2>5. OpenInv'
    <3>1. \A i \in Ids : row'[i].topic = row[i].topic /\ (row[i].status # "none" => row'[i].status # "none")
      BY <1>2, <2>2
    <3> QED BY <3>1, <1>2, <1>o
  <2>6. GradeInv'
    <3>1. \A p \in Reqs : handler'[p].at # "idle" => run'[p].status = "completed"
      BY <1>2, <1>i, <2>1, <2>3 DEF GradeInv
    <3>2. ASSUME NEW p \in Reqs, handler'[p].at = "retrying" PROVE run'[p].kind \in {"usage", run'[handler'[p].next].kind}
      <4>1. p # q
        BY <2>1, <3>2
      <4>2. handler'[p] = handler[p] /\ handler[p].next \in Reqs /\ run[p].kind \in {"usage", run[handler[p].next].kind}
        BY <4>1, <2>1, <3>2, <1>i DEF GradeInv
      <4>3. run'[p].kind = run[p].kind /\ run'[handler[p].next].kind = run[handler[p].next].kind
        BY <4>2, <1>2
      <4> QED BY <4>2, <4>3
    <3>3. ASSUME NEW p \in Reqs, NEW i \in Ids, handler'[p].at = "storing", row'[i].req = p, row'[i].status = "pending"
          PROVE  handler'[p].row = i
      <4>1. CASE p = q
        BY <4>1, <3>3, <2>2
      <4>2. CASE p # q
        <5>1. handler'[p] = handler[p] /\ run[p].status = "completed"
          BY <4>2, <3>3, <2>1, <1>i DEF GradeInv
        <5>2. R[i].req = p /\ R[i].status = "pending" /\ run'[p].status = "completed"
          BY <3>3, <2>2, <5>1, <1>2
        <5>3. R[i] = row[i]
          BY <5>2, <1>2
        <5>4. handler[p].at = "storing" /\ row[i].req = p /\ row[i].status = "pending"
          BY <3>3, <5>1, <5>2, <5>3
        <5>5. handler[p].row = i
          BY <5>4, <1>i DEF GradeInv
        <5> QED BY <5>1, <5>5
      <4> QED BY <4>1, <4>2
    <3> QED BY <3>1, <3>2, <3>3 DEF GradeInv
  <2>7. ASSUME NEW i \in Ids, row'[i].status = "pending"
        PROVE  \/ \E d \in Dispatches : dispatch[d].at \in {"opened", "sent"} /\ dispatch[d].row = i
               \/ row'[i].req # None /\ (run'[row'[i].req].status = "pending" \/ handler'[row'[i].req].at # "idle")
               \/ i \in stranded
    <3>1. R[i].status = "pending" /\ row'[i].req = R[i].req
      BY <2>7, <2>2
    <3>2. CASE R[i].req = q
      BY <3>1, <3>2, <2>7, <2>2
    <3>3. CASE R[i] # row[i]
      BY <3>1, <3>3, <1>2
    <3>4. CASE R[i] = row[i] /\ row[i].req # q
      <4>1. row[i].req # None => row[i].req \in Reqs /\ handler'[row[i].req] = handler[row[i].req]
        BY <3>4, <2>1
      <4>2. row[i].req # None /\ run[row[i].req].status = "pending" => run'[row[i].req].status = "pending"
        BY <4>1, <1>2
      <4> QED BY <3>1, <3>4, <4>1, <4>2, <1>i DEF PendingIsTracked
    <3> QED BY <3>2, <3>3, <3>4
  <2>8. PendingIsTracked'
    BY <2>7, <1>d DEF PendingIsTracked
  <2> QED BY <2>4, <2>5, <2>6, <2>8 DEF RowsInv
<1>3. CASE GradedWell(q) \/ RetryNotSent(q)
  <2>1. Complete(q, row) /\ run' = run /\ handler[q].at \in {"grading", "retrying"}
    BY <1>3 DEF GradedWell, RetryNotSent
  <2>2. row \in [Ids -> RowType]
    BY <1>i DEF TypeOK
  <2>3. /\ \A i \in Ids : row[i].req # None =>
              /\ run[row[i].req].status \in {"pending", "completed", "failed"}
              /\ run[row[i].req].kind = KindOf[row[i].topic]
        /\ \A i, j \in Ids : row[i].req # None /\ row[i].req = row[j].req => i = j
    BY <1>i DEF LinkInv
  <2> QED BY <2>1, <2>2, <2>3, <1>2
<1>4. CASE RetryAccepted(q)
  <2> DEFINE n == handler[q].next
             R == FollowRetry(q, n)
  <2>1. /\ handler[q].at = "retrying" /\ n \in Reqs /\ run[n].status = "posted"
        /\ run' = [run EXCEPT ![n].status = "pending"] /\ Complete(q, R)
    BY <1>4, <1>i DEF RetryAccepted, HeldInv
  <2>2. /\ run'[n].status = "pending" /\ \A p \in Reqs : p # n => run'[p] = run[p]
        /\ \A p \in Reqs : run'[p].kind = run[p].kind
    BY <2>1, <1>i DEF TypeOK, RunType
  <2>3. R \in [Ids -> RowType]
    BY <2>1, <1>i, FollowTyped
  <2>4. ASSUME NEW i \in Ids
        PROVE  \/ R[i] = row[i]
               \/ /\ R[i].req = n /\ R[i].status = "pending" /\ R[i].topic = row[i].topic
                  /\ row[i].req = q /\ KindOf[row[i].topic] \in Repointed
    BY <2>1, <1>i, FollowRows
  <2>5. \A i \in Ids : KindOf[row[i].topic] \in Repointed /\ row[i].req = q => run[n].kind = KindOf[row[i].topic]
    <3>1. run[q].kind \in {"usage", run[n].kind}
      BY <2>1, <1>i DEF GradeInv
    <3> QED BY <3>1, <1>q DEF Repointed
  <2> HIDE DEF R, n
  <2>6. \A i \in Ids : R[i] = row[i] \/ (R[i].req # None /\ run'[R[i].req].status = "pending")
    BY <2>1, <2>2, <2>4
  <2>7. \A i \in Ids : R[i].topic = row[i].topic /\ (row[i].status # "none" => R[i].status # "none")
    BY <2>4
  <2>8. ASSUME NEW i \in Ids, R[i].req # None
        PROVE  run'[R[i].req].status \in {"pending", "completed", "failed"} /\ run'[R[i].req].kind = KindOf[R[i].topic]
    <3>1. CASE R[i] = row[i]
      <4>1. row[i].req \in Reqs /\ row[i].req # n
        BY <2>1, <2>8, <3>1
      <4>2. run'[row[i].req] = run[row[i].req]
        BY <4>1, <2>2
      <4> QED BY <2>8, <3>1, <4>2, <1>i DEF LinkInv
    <3>2. CASE R[i] # row[i]
      BY <3>2, <2>1, <2>2, <2>4, <2>5
    <3> QED BY <3>1, <3>2
  <2>9. ASSUME NEW i \in Ids, NEW j \in Ids, R[i].req # None, R[i].req = R[j].req PROVE i = j
    <3>1. row[i].req # n /\ row[j].req # n
      BY <2>1
    <3>2. CASE R[i] = row[i] /\ R[j] = row[j]
      BY <3>2, <2>9, <1>i DEF LinkInv
    <3>3. CASE R[i] # row[i] /\ R[j] # row[j]
      BY <3>3, <2>4, <1>q
    <3> QED BY <3>1, <3>2, <3>3, <2>4, <2>9
  <2>10. \A p \in Reqs : run[p].status # "posted" => run'[p] = run[p]
    BY <2>1, <2>2
  <2> QED BY <2>1, <2>2, <2>3, <2>6, <2>7, <2>8, <2>9, <2>10, <1>2
<1>5. CASE StoreLate(q)
  <2>1. handler[q].at = "storing" /\ handler[q].row \in Ids /\ run' = run
    BY <1>5, <1>i DEF StoreLate, TypeOK
  <2>2. handler'[q].at = "idle" /\ \A p \in Reqs : p # q => handler'[p] = handler[p]
    BY <1>5, <1>i, FirstTyped DEF StoreLate, TypeOK
  <2>3. \A i \in Ids :
           /\ row'[i].req = row[i].req /\ row'[i].topic = row[i].topic
           /\ row'[i].status = IF i \in {handler[q].row} /\ row[i].status # "deleted" THEN "completed" ELSE row[i].status
    <3>1. row' = Stored(row, {handler[q].row}, q, "completed") /\ row \in [Ids -> RowType]
      BY <1>5, <1>i DEF StoreLate, TypeOK
    <3> QED BY <3>1, StoredRows
  <2>4. LinkInv'
    BY <1>i, <2>1, <2>3, SameLinks
  <2>5. OpenInv'
    BY <1>o, <2>1, <2>3
  <2>6. GradeInv'
    BY <1>i, <2>1, <2>2, <2>3 DEF GradeInv
  <2>7. \A i \in Ids : row'[i].status = "pending" => row[i].status = "pending" /\ row[i].req # q
    BY <1>i, <2>1, <2>3 DEF GradeInv
  <2>8. \A i \in Ids : row[i].req # None /\ row[i].req # q => handler'[row[i].req] = handler[row[i].req]
    BY <2>2
  <2>9. PendingIsTracked'
    BY <1>i, <1>d, <2>1, <2>3, <2>7, <2>8 DEF PendingIsTracked
  <2> QED BY <2>4, <2>5, <2>6, <2>9 DEF RowsInv
<1>6. ASSUME NEW next \in Reqs, SendRetry(q, next) PROVE RowsInv' /\ PendingIsTracked'
  <2> DEFINE k == IF run[q].kind = "usage" THEN "observe" ELSE run[q].kind
  <2>1. run[next].status = "none" /\ run'[next].kind = k /\ \A p \in Reqs : p # next => run'[p] = run[p]
    <3>1. Post(next, k, run[q].topic, q)
      BY <1>6 DEF SendRetry
    <3> QED BY <3>1, <1>i DEF Post, IsFirst, TypeOK
  <2>2. /\ handler'[q].at = "retrying" /\ handler'[q].next = next
        /\ \A p \in Reqs : p # q => handler'[p] = handler[p]
    BY <1>6, <1>i, RetrySends
  <2>3. handler[q].at = "grading" /\ row' = row
    BY <1>6 DEF SendRetry
  <2>4. \A p \in Reqs : handler[p].at # "idle" => run[p].status = "completed" /\ p # next
    BY <1>i, <2>1 DEF GradeInv
  <2>5. LinkInv'
    BY <1>i, <2>1, <2>3, SameLinks
  <2>6. OpenInv'
    BY <1>i, <1>o, <2>1, <2>3 DEF HeldInv
  <2>7. GradeInv'
    <3>1. \A p \in Reqs : handler'[p].at # "idle" => run'[p].status = "completed"
      BY <2>1, <2>2, <2>3, <2>4
    <3>2. ASSUME NEW p \in Reqs, handler'[p].at = "retrying" PROVE run'[p].kind \in {"usage", run'[handler'[p].next].kind}
      <4>1. CASE p = q
        BY <4>1, <2>1, <2>2, <2>3, <2>4
      <4>2. CASE p # q
        <5>1. handler'[p] = handler[p] /\ handler[p].next \in Reqs /\ handler[p].next # next
          BY <4>2, <3>2, <2>1, <2>2, <1>i DEF HeldInv
        <5>2. p # next /\ run[p].kind \in {"usage", run[handler[p].next].kind}
          BY <5>1, <3>2, <2>4, <1>i DEF GradeInv
        <5>3. run'[p] = run[p] /\ run'[handler[p].next] = run[handler[p].next]
          BY <5>1, <5>2, <2>1
        <5> QED BY <5>1, <5>2, <5>3
      <4> QED BY <4>1, <4>2
    <3>3. \A p \in Reqs, i \in Ids :
             handler'[p].at = "storing" /\ row'[i].req = p /\ row'[i].status = "pending" => handler'[p].row = i
      BY <1>i, <2>2, <2>3 DEF GradeInv
    <3> QED BY <3>1, <3>2, <3>3 DEF GradeInv
  <2>8. PendingIsTracked'
    <3>1. \A i \in Ids : row[i].req # None =>
             /\ run'[row[i].req] = run[row[i].req]
             /\ handler[row[i].req].at # "idle" => handler'[row[i].req].at # "idle"
      BY <2>1, <2>2
    <3> QED BY <1>i, <1>d, <2>3, <3>1 DEF PendingIsTracked
  <2> QED BY <2>5, <2>6, <2>7, <2>8 DEF RowsInv
<1> QED BY <1>1, <1>3, <1>4, <1>5, <1>6

LEMMA TrackStep == TrackInv /\ [Next]_vars => RowsInv' /\ PendingIsTracked'
<1> SUFFICES ASSUME TrackInv, [Next]_vars PROVE RowsInv' /\ PendingIsTracked'
  OBVIOUS
<1> USE IdsAreNat, TrackFacts
<1>i. TypeOK /\ HeldInv /\ LinkInv /\ OpenInv /\ GradeInv /\ PendingIsTracked
  BY DEF TrackInv, RowsInv
<1>1. ASSUME UNCHANGED <<row, run, dispatch, handler, stranded>> PROVE RowsInv' /\ PendingIsTracked'
  BY <1>1, <1>i DEF RowsInv, LinkInv, OpenInv, GradeInv, PendingIsTracked
<1>2. ASSUME NEW d \in Dispatches,
             \/ \E t \in Topics, force \in BOOLEAN : Check(d, t, force) \/ CheckAndOpen(d, t, force)
             \/ OpenChecked(d) \/ GateCloses(d) \/ Refused(d)
      PROVE  RowsInv' /\ PendingIsTracked'
  <2>1. UNCHANGED <<run, handler>>
    BY <1>2 DEF Check, CheckAndOpen, OpenChecked, GateCloses, Refused
  <2> QED BY <1>2, <2>1, TrackRows
<1>3. ASSUME NEW t \in Topics, DeleteThread(t) PROVE RowsInv' /\ PendingIsTracked'
  <2>1. UNCHANGED <<run, dispatch, handler, stranded>>
    BY <1>3 DEF DeleteThread, history
  <2>2. \A i \in Ids :
           /\ row'[i].req = row[i].req /\ row'[i].topic = row[i].topic
           /\ row'[i].status = row[i].status \/ row'[i].status = "deleted"
    BY <1>3, <1>i DEF DeleteThread, TypeOK, RowType
  <2>3. LinkInv'
    BY <1>i, <2>1, <2>2, SameLinks
  <2>4. OpenInv'
    <3>1. ASSUME NEW d \in Dispatches, dispatch[d].at \in {"opened", "sent"}
          PROVE  row'[dispatch[d].row].status # "none" /\ row'[dispatch[d].row].topic = dispatch[d].topic
      <4>1. dispatch[d].row \in Ids
        BY <3>1
      <4>2. row[dispatch[d].row].status # "none" /\ row[dispatch[d].row].topic = dispatch[d].topic
        BY <3>1, <1>i DEF OpenInv
      <4> QED BY <4>1, <4>2, <2>2
    <3>2. \A d \in Dispatches : dispatch[d].at = "sent" => run[dispatch[d].req].kind = KindOf[dispatch[d].topic]
      BY <1>i DEF OpenInv
    <3> QED BY <3>1, <3>2, <2>1 DEF OpenInv
  <2>5. GradeInv'
    BY <1>i, <2>1, <2>2 DEF GradeInv
  <2>6. PendingIsTracked'
    BY <1>i, <2>1, <2>2 DEF PendingIsTracked
  <2> QED BY <2>3, <2>4, <2>5, <2>6 DEF RowsInv
<1>4. CASE Crash
  <2>1. UNCHANGED <<row, run>> /\ \A d \in Dispatches : dispatch'[d].at = "idle"
    BY <1>4, FirstTyped DEF Crash
  <2>2. \A q \in Reqs : handler'[q].at = "idle"
    BY <1>4, FirstTyped DEF Crash
  <2>3. /\ \A d \in Dispatches : dispatch[d].at \in {"opened", "sent"} => dispatch[d].row \in stranded'
        /\ \A i \in Ids : row[i].req # None /\ handler[row[i].req].at # "idle" => i \in stranded'
        /\ stranded \subseteq stranded'
    BY <1>4 DEF Crash
  <2>4. LinkInv' /\ OpenInv' /\ GradeInv'
    BY <1>i, <2>1, <2>2 DEF LinkInv, OpenInv, GradeInv
  <2>5. PendingIsTracked'
    BY <1>i, <2>1, <2>3 DEF PendingIsTracked
  <2> QED BY <2>4, <2>5 DEF RowsInv
<1>5. CASE UNCHANGED vars
  BY <1>1, <1>5 DEF vars, history
<1>6. ASSUME NEW q \in Reqs, NEW a \in Answers, Answer(q, a) PROVE RowsInv' /\ PendingIsTracked'
  BY <1>1, <1>6 DEF Answer, history
<1> QED BY <1>2, <1>3, <1>4, <1>5, <1>6, TrackPosts, TrackAnswers DEF Next

\* No pending row is abandoned: as long as the process lives and posts that fail are
\* caught, something is under way for each that will store an answer on it or fail it.
THEOREM PendingIsTrackedHolds == Spec => []PendingIsTracked
<1>1. Init => TrackInv
  <2> SUFFICES ASSUME Init PROVE TrackInv
    OBVIOUS
  <2>1. /\ \A d \in Dispatches : dispatch[d].at = "idle"
        /\ \A q \in Reqs : handler[q].at = "idle"
        /\ \A i \in Ids : row[i].req = None /\ row[i].status = "none"
    BY FirstTyped DEF Init, NoRow
  <2>2. HeldInv
    BY <2>1 DEF HeldInv
  <2>3. LinkInv /\ OpenInv /\ GradeInv /\ PendingIsTracked
    BY <2>1 DEF LinkInv, OpenInv, GradeInv, PendingIsTracked
  <2> QED BY <2>2, <2>3, TypeInit DEF TrackInv, RowsInv
<1>2. TrackInv /\ [Next]_vars => TrackInv'
  BY TypeStep, HeldStep, TrackStep DEF TrackInv
<1>3. TrackInv => PendingIsTracked
  BY DEF TrackInv
<1> QED BY <1>1, <1>2, <1>3, PTL DEF Spec

-----------------------------------------------------------------------------
(* Every step by what it does to the rows, the runs and the handlers, for the
   invariants below: each has one case per shape and none opens an action. *)

Holds(f) == f.at \in {"opened", "sent"}

OthersWait(d) == \A e \in Dispatches : e # d => dispatch'[e] = dispatch[e]
OthersGrade(q) == \A p \in Reqs : p # q => handler'[p] = handler[p]
\* A run but for its status.
SameRun(q) == run'[q].kind = run[q].kind /\ run'[q].topic = run[q].topic /\ run'[q].retryOf = run[q].retryOf
OnlyRun(q) == \A p \in Reqs : p # q => run'[p] = run[p]

\* A dispatch without a row: checked, or given up before the insert.
Passes(d) ==
    /\ UNCHANGED <<row, run, handler>>
    /\ ~Holds(dispatch[d]) /\ ~Holds(dispatch'[d]) /\ OthersWait(d)
    /\ dispatch'[d].at = "checked" => KindOf[dispatch'[d].topic] \in ChecksEarly

Opens(d, i) ==
    /\ UNCHANGED <<run, handler>>
    /\ ~Holds(dispatch[d]) /\ OthersWait(d)
    /\ dispatch'[d].at = "opened" /\ dispatch'[d].row = i /\ dispatch'[d].topic = row'[i].topic
    /\ row[i].status = "none" /\ \A j \in Ids : row[j].status = "none" => i <= j
    /\ \A j \in Ids : j # i => row'[j] = row[j]
    /\ row'[i].status = "pending" /\ row'[i].topic \in Topics
    /\ row'[i].req = None /\ row'[i].answer = None
    /\ \/ dispatch[d].at = "checked" /\ dispatch[d].topic = row'[i].topic
       \/ KindOf[row'[i].topic] \in NeverChecks \/ row'[i].forced \/ InTheWay(row'[i].topic) = {}

\* The gate, or a post that failed.
Closes(d) ==
    /\ UNCHANGED <<run, handler>>
    /\ Holds(dispatch[d]) /\ dispatch'[d].at = "idle" /\ OthersWait(d)
    /\ \A i \in Ids :
          \/ row'[i] = row[i]
          \/ /\ i = dispatch[d].row /\ row'[i].status \in {"failed", "not_applicable"}
             /\ row'[i].req = row[i].req /\ row'[i].topic = row[i].topic
             /\ row'[i].answer = row[i].answer /\ row'[i].forced = row[i].forced

Posts(q, k, t, of) ==
    /\ run[q].status = "none" /\ run'[q].status = "posted" /\ OnlyRun(q)
    /\ run'[q].kind = k /\ run'[q].topic = t /\ run'[q].retryOf = of

Sends(d, q) ==
    /\ UNCHANGED <<row, handler>>
    /\ Holds(dispatch[d]) /\ dispatch'[d].at = "sent" /\ dispatch'[d].req = q /\ OthersWait(d)
    /\ dispatch'[d].row = dispatch[d].row /\ dispatch'[d].topic = dispatch[d].topic
    /\ Posts(q, KindOf[dispatch[d].topic], dispatch[d].topic, None)

\* repo2graph's reply: the row i gets the request q.
Records(d, i, q) ==
    /\ handler' = handler
    /\ dispatch[d].at = "sent" /\ dispatch'[d].at = "idle" /\ OthersWait(d)
    /\ i = dispatch[d].row /\ q = dispatch[d].req
    /\ run[q].status = "posted" /\ run'[q].status = "pending" /\ SameRun(q) /\ OnlyRun(q)
    /\ \A j \in Ids : j # i => row'[j] = row[j]
    /\ row'[i].req = q /\ row'[i].status = row[i].status /\ row'[i].topic = row[i].topic
    /\ row'[i].answer = row[i].answer /\ row'[i].forced = row[i].forced

\* The rows S of R get the outcome of q.
Writes(q, R, S) ==
    \A i \in Ids :
        \/ row'[i] = R[i] /\ (i \notin S \/ R[i].status = "deleted")
        \/ /\ i \in S /\ R[i].status # "deleted"
           /\ row'[i].answer = q /\ row'[i].status \in {"completed", "failed"}
           /\ row'[i].req = R[i].req /\ row'[i].topic = R[i].topic /\ row'[i].forced = R[i].forced

Takes(q) ==
    /\ dispatch' = dispatch
    /\ run[q].status = "pending" /\ run'[q].status \in {"completed", "failed"} /\ SameRun(q) /\ OnlyRun(q)
    /\ handler'[q].at # "idle" => handler'[q].at = "grading" \/ handler'[q] = handler[q]
    /\ OthersGrade(q)
    /\ Writes(q, row, {}) \/ (handler' = handler /\ Writes(q, row, OwnersOf(row, q)))

\* complete<Flow> on the rows R.
Settles(q, R) ==
    /\ dispatch' = dispatch /\ handler[q].at \in {"grading", "retrying"} /\ OthersGrade(q)
    /\ \/ handler'[q].at = "idle" /\ Writes(q, R, OwnersOf(R, q))
       \/ handler'[q].at = "idle" /\ OwnersOf(R, q) = {} /\ row' = R
       \/ handler'[q].at = "storing" /\ handler'[q].row \in OwnersOf(R, q) /\ row' = R

Follows(q, n) ==
    /\ handler[q].at = "retrying" /\ n = handler[q].next
    /\ run[n].status = "posted" /\ run'[n].status = "pending" /\ SameRun(n) /\ OnlyRun(n)
    /\ Settles(q, FollowRetry(q, n))

Stores(q) ==
    /\ UNCHANGED <<run, dispatch>>
    /\ handler[q].at = "storing" /\ handler'[q].at = "idle" /\ OthersGrade(q)
    /\ Writes(q, row, {handler[q].row})

SendsBack(q, n) ==
    /\ UNCHANGED <<row, dispatch>>
    /\ handler[q].at = "grading" /\ handler'[q].at = "retrying" /\ handler'[q].next = n /\ OthersGrade(q)
    /\ run[q].retryOf = None
    /\ Posts(n, IF run[q].kind = "usage" THEN "observe" ELSE run[q].kind, run[q].topic, q)

Deletes(t) ==
    /\ UNCHANGED <<run, dispatch, handler>> /\ KindOf[t] = "thread_chat"
    /\ \A i \in Ids :
          \/ row'[i] = row[i]
          \/ /\ row[i].topic = t /\ row[i].status # "none" /\ row'[i].status = "deleted"
             /\ row'[i].req = row[i].req /\ row'[i].topic = row[i].topic
             /\ row'[i].answer = row[i].answer /\ row'[i].forced = row[i].forced

Restarts ==
    /\ UNCHANGED <<row, run>> /\ crashes' # crashes
    /\ \A d \in Dispatches : dispatch'[d].at = "idle"
    /\ \A q \in Reqs : handler'[q].at = "idle"

Rests == UNCHANGED <<row, run, dispatch, handler>>

\* Some shape, of a dispatch, of an answer, of the process.
DispatchShape(d) ==
    \/ Passes(d) \/ Closes(d)
    \/ \E i \in Ids : Opens(d, i)
    \/ \E q \in Reqs : Sends(d, q)
    \/ \E i \in Ids, q \in Reqs : Records(d, i, q)
AnswerShape(q) ==
    \/ Takes(q) \/ (Settles(q, row) /\ run' = run) \/ Stores(q)
    \/ \E n \in Reqs : Follows(q, n) \/ SendsBack(q, n)
Shape ==
    \/ Rests \/ Restarts
    \/ \E d \in Dispatches : DispatchShape(d)
    \/ \E q \in Reqs : AnswerShape(q)
    \/ \E t \in Topics : Deletes(t)

LEMMA OpenShape ==
  ASSUME TypeOK, NEW d \in Dispatches, NEW t \in Topics, NEW force \in BOOLEAN, Open(d, t, force),
         UNCHANGED <<run, handler>>, dispatch[d].at \in {"idle", "checked"},
         \/ dispatch[d].at = "checked" /\ dispatch[d].topic = t
         \/ KindOf[t] \in NeverChecks \/ force \/ InTheWay(t) = {}
  PROVE  \E i \in Ids : Opens(d, i)
<1>1. PICK i \in Ids :
          /\ row[i].status = "none" /\ \A j \in Ids : row[j].status = "none" => i <= j
          /\ row'[i].status = "pending" /\ row'[i].topic = t /\ row'[i].req = None
          /\ row'[i].answer = None /\ row'[i].forced = force
          /\ \A j \in Ids : j # i => row'[j] = row[j]
          /\ dispatch'[d].at = "opened" /\ dispatch'[d].topic = t /\ dispatch'[d].row = i
          /\ \A e \in Dispatches : e # d => dispatch'[e] = dispatch[e]
  BY OpenRows
<1>2. ~Holds(dispatch[d]) /\ OthersWait(d)
  BY <1>1 DEF Holds, OthersWait
<1>3. Opens(d, i)
  BY <1>1, <1>2 DEF Opens
<1> QED BY <1>3

LEMMA DispatchShapes ==
  ASSUME TypeOK, HeldInv, NEW d \in Dispatches,
         \/ \E t \in Topics, force \in BOOLEAN : Check(d, t, force) \/ CheckAndOpen(d, t, force)
         \/ OpenChecked(d) \/ GateCloses(d) \/ Accepted(d) \/ Refused(d)
         \/ \E q \in Reqs : Send(d, q)
  PROVE  DispatchShape(d)
<1> USE IdsAreNat DEF DispatchShape, Holds, OthersWait
<1>a. /\ dispatch[d] \in DispatchType /\ dispatch[d].topic \in Topics /\ dispatch[d].forced \in BOOLEAN
      /\ dispatch[d].at \in {"opened", "sent"} => dispatch[d].row \in Ids
      /\ dispatch[d].at = "sent" => dispatch[d].req \in Reqs
  BY DEF TypeOK, DispatchType
<1>1. ASSUME NEW t \in Topics, NEW force \in BOOLEAN, Check(d, t, force) PROVE Passes(d)
  <2> DEFINE m == [IdleDispatch EXCEPT !.at = "checked"]
             c == [m EXCEPT !.topic = t]
             f == [c EXCEPT !.forced = force]
  <2>1. m \in DispatchType /\ m.at = "checked"
    BY FirstTyped DEF DispatchType
  <2> HIDE DEF m
  <2>2. c \in DispatchType /\ c.at = "checked" /\ c.topic = t
    BY <2>1 DEF DispatchType
  <2> HIDE DEF c
  <2>3. f.at = "checked" /\ f.topic = t
    BY <2>2 DEF DispatchType
  <2> HIDE DEF f
  <2>4. dispatch' = [dispatch EXCEPT ![d] = f] /\ KindOf[t] \in ChecksEarly
    BY <1>1 DEF Check, f, c, m
  <2>5. /\ dispatch'[d].at = "checked" /\ dispatch'[d].topic = t
        /\ \A e \in Dispatches : e # d => dispatch'[e] = dispatch[e]
    BY <2>3, <2>4 DEF TypeOK
  <2> QED BY <1>1, <2>4, <2>5 DEF Check, Passes
<1>3. ASSUME NEW t \in Topics, NEW force \in BOOLEAN, CheckAndOpen(d, t, force) PROVE \E i \in Ids : Opens(d, i)
  BY <1>3, OpenShape DEF CheckAndOpen, MayOpen
<1>4. CASE OpenChecked(d)
  <2>1. CASE dispatch' = [dispatch EXCEPT ![d] = IdleDispatch] /\ UNCHANGED row
    <3>1. dispatch'[d].at = "idle" /\ \A e \in Dispatches : e # d => dispatch'[e] = dispatch[e]
      BY <2>1, FirstTyped DEF TypeOK
    <3>2. Passes(d)
      BY <1>4, <2>1, <3>1 DEF OpenChecked, Passes
    <3> QED BY <3>2
  <2>2. CASE Open(d, dispatch[d].topic, dispatch[d].forced)
    BY <1>4, <1>a, <2>2, OpenShape DEF OpenChecked
  <2> QED BY <1>4, <2>1, <2>2 DEF OpenChecked
<1>5. CASE GateCloses(d) \/ Refused(d)
  <2> DEFINE i == dispatch[d].row
  <2>1. dispatch'[d].at = "idle" /\ \A e \in Dispatches : e # d => dispatch'[e] = dispatch[e]
    BY <1>5, FirstTyped DEF GateCloses, Refused, TypeOK
  <2>2. dispatch[d].at \in {"opened", "sent"} /\ i \in Ids /\ UNCHANGED <<run, handler>>
    BY <1>5, <1>a DEF GateCloses, Refused
  <2>3. \/ row' = row
        \/ \E s \in {"failed", "not_applicable"} : row' = [row EXCEPT ![i].status = s]
    BY <1>5 DEF GateCloses, Refused
  <2> HIDE DEF i
  <2>4. ASSUME NEW j \in Ids
        PROVE  \/ row'[j] = row[j]
               \/ /\ j = i /\ row'[j].status \in {"failed", "not_applicable"}
                  /\ row'[j].req = row[j].req /\ row'[j].topic = row[j].topic
                  /\ row'[j].answer = row[j].answer /\ row'[j].forced = row[j].forced
    <3>1. row \in [Ids -> RowType]
      BY DEF TypeOK
    <3> QED BY <2>2, <2>3, <3>1 DEF RowType
  <2> QED BY <2>1, <2>2, <2>4 DEF Closes, i
<1>6. CASE Accepted(d)
  <2> DEFINE q == dispatch[d].req
             i == dispatch[d].row
  <2>1. q \in Reqs /\ i \in Ids /\ run[q].status = "posted" /\ dispatch[d].at = "sent"
    BY <1>6, <1>a DEF Accepted, HeldInv
  <2>2. handler' = handler /\ run' = [run EXCEPT ![q].status = "pending"] /\ row' = [row EXCEPT ![i].req = q]
    BY <1>6 DEF Accepted
  <2>3. dispatch'[d].at = "idle" /\ \A e \in Dispatches : e # d => dispatch'[e] = dispatch[e]
    BY <1>6, FirstTyped DEF Accepted, TypeOK
  <2>4. i = dispatch[d].row /\ q = dispatch[d].req
    OBVIOUS
  <2> HIDE DEF q, i
  <2>5. run'[q].status = "pending" /\ SameRun(q) /\ OnlyRun(q)
    BY <2>1, <2>2 DEF TypeOK, RunType, SameRun, OnlyRun
  <2>6. /\ \A j \in Ids : j # i => row'[j] = row[j]
        /\ row'[i].req = q /\ row'[i].status = row[i].status /\ row'[i].topic = row[i].topic
        /\ row'[i].answer = row[i].answer /\ row'[i].forced = row[i].forced
    BY <2>1, <2>2 DEF TypeOK, RowType
  <2>7. Records(d, i, q)
    BY <2>1, <2>2, <2>3, <2>4, <2>5, <2>6 DEF Records
  <2> QED BY <2>1, <2>7
<1>7. ASSUME NEW q \in Reqs, Send(d, q) PROVE Sends(d, q)
  <2> DEFINE k == KindOf[dispatch[d].topic]
  <2>1. Post(q, k, dispatch[d].topic, None) /\ UNCHANGED <<row, handler>> /\ dispatch[d].at = "opened"
    BY <1>7 DEF Send
  <2>2. Posts(q, k, dispatch[d].topic, None)
    BY <2>1 DEF Post, Posts, IsFirst, TypeOK, OnlyRun
  <2> QED BY <1>7, <2>1, <2>2, SendSends DEF Sends
<1> QED BY <1>1, <1>3, <1>4, <1>5, <1>6, <1>7

LEMMA WritesRows ==
  ASSUME TypeOK, NEW q \in Reqs, NEW R \in [Ids -> RowType], NEW S, NEW s \in {"completed", "failed"},
         row' = Stored(R, S, q, s)
  PROVE  Writes(q, R, S)
  BY StoredRows DEF Writes

LEMMA CompleteSettles ==
  ASSUME TypeOK, NEW q \in Reqs, NEW R \in [Ids -> RowType], Complete(q, R),
         dispatch' = dispatch, handler[q].at \in {"grading", "retrying"}
  PROVE  Settles(q, R)
<1> DEFINE object == agent[q] # "useless" \/ run[q].kind \notin NeedsObject
           s == IF object THEN "completed" ELSE "failed"
<1>1. OthersGrade(q)
  BY CompleteRests DEF OthersGrade
<1>2. CASE run[q].kind \in StoresLate /\ object
  <2>1. row' = R
    BY <1>2 DEF Complete
  <2>2. CASE OwnersOf(R, q) = {} /\ handler' = [handler EXCEPT ![q] = IdleHandler]
    <3>1. handler'[q].at = "idle"
      BY <2>2, FirstTyped DEF TypeOK
    <3> QED BY <1>1, <2>1, <2>2, <3>1 DEF Settles
  <2>3. ASSUME NEW i \in OwnersOf(R, q), handler' = [handler EXCEPT ![q] = [at |-> "storing", row |-> i, next |-> None]]
        PROVE  Settles(q, R)
    <3>1. handler'[q].at = "storing" /\ handler'[q].row = i
      BY <2>3 DEF TypeOK
    <3> QED BY <1>1, <2>1, <3>1 DEF Settles
  <2> QED BY <1>2, <2>2, <2>3 DEF Complete
<1>3. CASE ~(run[q].kind \in StoresLate /\ object)
  <2>1. row' = Stored(R, OwnersOf(R, q), q, s) /\ handler' = [handler EXCEPT ![q] = IdleHandler]
    BY <1>3 DEF Complete
  <2>2. s \in {"completed", "failed"}
    OBVIOUS
  <2> HIDE DEF s
  <2>3. Writes(q, R, OwnersOf(R, q))
    BY <2>1, <2>2, WritesRows
  <2>4. handler'[q].at = "idle"
    BY <2>1, FirstTyped DEF TypeOK
  <2> QED BY <1>1, <2>3, <2>4 DEF Settles
<1> QED BY <1>2, <1>3

LEMMA AnswerShapes ==
  ASSUME TypeOK, HeldInv, NEW q \in Reqs,
         \/ Receive(q) \/ GradedWell(q) \/ RetryAccepted(q) \/ RetryNotSent(q) \/ StoreLate(q)
         \/ \E next \in Reqs : SendRetry(q, next)
  PROVE  AnswerShape(q)
<1> USE IdsAreNat DEF AnswerShape
<1>t. row \in [Ids -> RowType]
  BY DEF TypeOK
<1>1. CASE Receive(q)
  <2>1. /\ dispatch' = dispatch /\ run[q].status = "pending"
        /\ run'[q].status \in {"completed", "failed"} /\ SameRun(q) /\ OnlyRun(q)
    BY <1>1 DEF Receive, TypeOK, RunType, SameRun, OnlyRun
  <2>2. OthersGrade(q) /\ (handler'[q].at # "idle" => handler'[q].at = "grading" \/ handler'[q] = handler[q])
    BY <1>1, FirstTyped DEF Receive, TypeOK, OthersGrade, IdleHandler
  <2>3. Writes(q, row, {}) \/ (handler' = handler /\ Writes(q, row, OwnersOf(row, q)))
    <3>1. CASE row' = row
      BY <3>1 DEF Writes
    <3>2. CASE handler' = handler /\ row' = Stored(row, OwnersOf(row, q), q, "failed")
      BY <3>2, <1>t, WritesRows
    <3> QED BY <1>1, <3>1, <3>2 DEF Receive
  <2> QED BY <2>1, <2>2, <2>3 DEF Takes
<1>2. CASE GradedWell(q) \/ RetryNotSent(q)
  <2>1. Complete(q, row) /\ run' = run /\ dispatch' = dispatch /\ handler[q].at \in {"grading", "retrying"}
    BY <1>2 DEF GradedWell, RetryNotSent
  <2> QED BY <2>1, <1>t, CompleteSettles
<1>3. CASE RetryAccepted(q)
  <2> DEFINE n == handler[q].next
  <2>1. handler[q].at = "retrying" /\ n \in Reqs /\ run[n].status = "posted"
    BY <1>3 DEF RetryAccepted, HeldInv, TypeOK
  <2>2. run' = [run EXCEPT ![n].status = "pending"] /\ Complete(q, FollowRetry(q, n)) /\ dispatch' = dispatch
    BY <1>3 DEF RetryAccepted
  <2>3. n = handler[q].next
    OBVIOUS
  <2> HIDE DEF n
  <2>4. run'[n].status = "pending" /\ SameRun(n) /\ OnlyRun(n)
    BY <2>1, <2>2 DEF TypeOK, RunType, SameRun, OnlyRun
  <2>5. Settles(q, FollowRetry(q, n))
    BY <2>1, <2>2, FollowTyped, CompleteSettles
  <2>6. Follows(q, n)
    BY <2>1, <2>3, <2>4, <2>5 DEF Follows
  <2> QED BY <2>1, <2>6
<1>4. CASE StoreLate(q)
  <2>1. handler'[q].at = "idle" /\ OthersGrade(q)
    BY <1>4, FirstTyped DEF StoreLate, TypeOK, OthersGrade
  <2>2. Writes(q, row, {handler[q].row})
    BY <1>4, <1>t, WritesRows DEF StoreLate
  <2> QED BY <1>4, <2>1, <2>2 DEF StoreLate, Stores
<1>5. ASSUME NEW n \in Reqs, SendRetry(q, n) PROVE SendsBack(q, n)
  <2> DEFINE k == IF run[q].kind = "usage" THEN "observe" ELSE run[q].kind
  <2>1. Post(n, k, run[q].topic, q) /\ UNCHANGED <<row, dispatch>> /\ handler[q].at = "grading" /\ run[q].retryOf = None
    BY <1>5 DEF SendRetry, Retries
  <2>2. Posts(n, k, run[q].topic, q)
    BY <2>1 DEF Post, Posts, IsFirst, TypeOK, OnlyRun
  <2>3. handler'[q].at = "retrying" /\ handler'[q].next = n /\ OthersGrade(q)
    BY <1>5, RetrySends DEF OthersGrade
  <2> QED BY <2>1, <2>2, <2>3 DEF SendsBack
<1> QED BY <1>1, <1>2, <1>3, <1>4, <1>5

LEMMA StepShapes == TypeOK /\ HeldInv /\ [Next]_vars => Shape
<1> SUFFICES ASSUME TypeOK, HeldInv, [Next]_vars PROVE Shape
  OBVIOUS
<1> USE DEF Shape
<1>1. CASE UNCHANGED vars
  BY <1>1 DEF vars, Rests
<1>2. ASSUME NEW q \in Reqs, NEW a \in Answers, Answer(q, a) PROVE Rests
  BY <1>2 DEF Answer, Rests
<1>3. ASSUME NEW t \in Topics, DeleteThread(t) PROVE Deletes(t)
  <2>1. UNCHANGED <<run, dispatch, handler>> /\ KindOf[t] = "thread_chat"
    BY <1>3 DEF DeleteThread
  <2>2. \A i \in Ids : row[i] \in RowType
    BY DEF TypeOK
  <2>3. \A i \in Ids : row'[i] = IF row[i].topic = t /\ row[i].status # "none"
                                THEN [row[i] EXCEPT !.status = "deleted"] ELSE row[i]
    BY <1>3 DEF DeleteThread
  <2> QED BY <2>1, <2>2, <2>3 DEF Deletes, RowType
<1>4. CASE Crash
  <2>1. crashes' # crashes
    BY <1>4 DEF Crash, TypeOK
  <2> QED BY <1>4, <2>1, FirstTyped DEF Crash, Restarts
<1> QED BY <1>1, <1>2, <1>3, <1>4, DispatchShapes, AnswerShapes DEF Next


-----------------------------------------------------------------------------
(* The wiring: what a row, a dispatch and a run that name each other agree on. *)

WireRows ==
    /\ \A i \in Ids : row[i].status = "none" => row[i] = NoRow
    /\ \A i \in Ids : row[i].status = "deleted" => KindOf[row[i].topic] = "thread_chat"
    /\ \A i \in Ids : row[i].req # None => run[row[i].req].topic = row[i].topic
\* A row is its dispatch's own, and without a request, until the reply is recorded.
WireDispatches ==
    /\ \A d \in Dispatches : Holds(dispatch[d]) => row[dispatch[d].row].req = None
    /\ \A d, e \in Dispatches :
          Holds(dispatch[d]) /\ Holds(dispatch[e]) /\ dispatch[d].row = dispatch[e].row => d = e
    /\ \A d \in Dispatches : dispatch[d].at = "sent" =>
          run[dispatch[d].req].topic = dispatch[d].topic /\ run[dispatch[d].req].retryOf = None
WireRuns ==
    /\ \A q \in Reqs : run[q].status # "none" =>
          run[q].kind = KindOf[run[q].topic] \/ (KindOf[run[q].topic] = "usage" /\ run[q].kind = "observe")
    /\ \A q \in Reqs : handler[q].at = "retrying" =>
          /\ run[q].retryOf = None
          /\ run[handler[q].next].topic = run[q].topic /\ run[handler[q].next].retryOf = q
WireInv == TrackInv /\ WireRows /\ WireDispatches /\ WireRuns

\* A posted run keeps its flow, its subject and what it retries.
LEMMA RunsKept ==
  ASSUME Shape
  PROVE  \A q \in Reqs : run[q].status # "none" => SameRun(q) /\ run'[q].status # "none"
<1> USE DEF SameRun
<1>1. ASSUME NEW d \in Dispatches, DispatchShape(d)
      PROVE  \A q \in Reqs : run[q].status # "none" => SameRun(q) /\ run'[q].status # "none"
  BY <1>1 DEF DispatchShape, Passes, Closes, Opens, Sends, Posts, Records, OnlyRun
<1>2. ASSUME NEW p \in Reqs, AnswerShape(p)
      PROVE  \A q \in Reqs : run[q].status # "none" => SameRun(q) /\ run'[q].status # "none"
  BY <1>2 DEF AnswerShape, Takes, Settles, Follows, Stores, SendsBack, Posts, OnlyRun
<1> QED BY <1>1, <1>2 DEF Shape, Rests, Restarts, Deletes

\* An open row keeps its subject, and whether it was forced.
LEMMA RowsKept ==
  ASSUME TypeOK, Shape
  PROVE  \A i \in Ids : row[i].status # "none" =>
            row'[i].status # "none" /\ row'[i].topic = row[i].topic /\ row'[i].forced = row[i].forced
<1> DEFINE Kept(i) == row[i].status # "none" =>
             row'[i].status # "none" /\ row'[i].topic = row[i].topic /\ row'[i].forced = row[i].forced
<1>1. ASSUME NEW d \in Dispatches, DispatchShape(d) PROVE \A i \in Ids : Kept(i)
  BY <1>1 DEF DispatchShape, Passes, Closes, Opens, Sends, Records
<1>2. ASSUME NEW q \in Reqs, AnswerShape(q) PROVE \A i \in Ids : Kept(i)
  <2>1. ASSUME NEW R, Settles(q, R),
               \A i \in Ids : row[i].status # "none" =>
                  R[i].status # "none" /\ R[i].topic = row[i].topic /\ R[i].forced = row[i].forced
        PROVE  \A i \in Ids : Kept(i)
    BY <2>1 DEF Settles, Writes
  <2>2. ASSUME NEW n \in Reqs, Follows(q, n) PROVE \A i \in Ids : Kept(i)
    <3>1. \A i \in Ids : row[i].status # "none" =>
             /\ FollowRetry(q, n)[i].status # "none" /\ FollowRetry(q, n)[i].topic = row[i].topic
             /\ FollowRetry(q, n)[i].forced = row[i].forced
      BY FollowRows
    <3> QED BY <2>1, <2>2, <3>1 DEF Follows
  <2>3. CASE Settles(q, row)
    BY <2>1, <2>3
  <2>4. CASE Takes(q) \/ Stores(q)
    BY <2>4 DEF Takes, Stores, Writes
  <2>5. ASSUME NEW n \in Reqs, SendsBack(q, n) PROVE \A i \in Ids : Kept(i)
    BY <2>5 DEF SendsBack
  <2> QED BY <1>2, <2>2, <2>3, <2>4, <2>5 DEF AnswerShape
<1>3. ASSUME NEW t \in Topics, Deletes(t) PROVE \A i \in Ids : Kept(i)
  BY <1>3 DEF Deletes
<1>4. CASE Rests \/ Restarts
  BY <1>4 DEF Rests, Restarts
<1> QED BY <1>1, <1>2, <1>3, <1>4 DEF Shape

\* What the invariants below take from the wiring.
LEMMA WireFacts ==
  ASSUME WireInv
  PROVE  /\ TypeOK /\ HeldInv /\ LinkInv /\ OpenInv /\ GradeInv
         /\ \A d \in Dispatches : Holds(dispatch[d]) => dispatch[d].row \in Ids /\ row[dispatch[d].row].status # "none"
         /\ \A d \in Dispatches : Holds(dispatch[d]) => row[dispatch[d].row].topic = dispatch[d].topic
         /\ \A d \in Dispatches : dispatch[d].at = "sent" => dispatch[d].req \in Reqs
         /\ \A q \in Reqs : handler[q].at = "retrying" => handler[q].next \in Reqs
         /\ \A q \in Reqs : handler[q].at = "storing" => handler[q].row \in Ids
         /\ \A i \in Ids : row[i].req # None => row[i].req \in Reqs /\ row[i].status # "none"
         /\ \A i \in Ids : row[i].req # None => run[row[i].req].status \notin {"none", "posted"}
         /\ \A i \in Ids : row[i].answer # None => row[i].answer \in Reqs /\ row[i].status # "none"
<1>1. TypeOK /\ HeldInv /\ LinkInv /\ OpenInv /\ GradeInv /\ WireRows
  BY DEF WireInv, TrackInv, RowsInv
<1>2. NoRow.req = None /\ NoRow.answer = None
  BY DEF NoRow
<1>3. /\ \A i \in Ids : row[i].req # None => row[i].req \in Reqs /\ row[i].status # "none"
      /\ \A i \in Ids : row[i].answer # None => row[i].answer \in Reqs /\ row[i].status # "none"
  BY <1>1, <1>2 DEF TypeOK, RowType, WireRows
<1> QED BY <1>1, <1>3 DEF TypeOK, OpenInv, LinkInv, Holds

LEMMA WireRowsStep == WireInv /\ Shape => WireRows'
<1> SUFFICES ASSUME WireInv, Shape PROVE WireRows'
  OBVIOUS
<1> USE IdsAreNat
<1>i. TypeOK /\ HeldInv /\ OpenInv /\ WireRows /\ WireDispatches /\ WireRuns
  BY WireFacts DEF WireInv
\* It is enough that each row keeps its request, gets one of its subject or has none.
<1>q. ASSUME \A i \in Ids : row'[i].status = "none" => row'[i] = row[i],
             \A i \in Ids : row'[i].status = "deleted" => row'[i] = row[i] \/ KindOf[row'[i].topic] = "thread_chat",
             \A i \in Ids : \/ row'[i].req = row[i].req /\ row'[i].topic = row[i].topic
                            \/ row'[i].req = None
                            \/ row'[i].req \in Reqs /\ run'[row'[i].req].topic = row'[i].topic
      PROVE  WireRows'
  <2>1. ASSUME NEW i \in Ids, row'[i].req # None PROVE run'[row'[i].req].topic = row'[i].topic
    <3>1. CASE row'[i].req = row[i].req /\ row'[i].topic = row[i].topic
      <4>1. row[i].req \in Reqs /\ run[row[i].req].status # "none"
        BY <2>1, <3>1, WireFacts
      <4>2. run'[row[i].req].topic = run[row[i].req].topic
        BY <4>1, RunsKept DEF SameRun
      <4> QED BY <2>1, <3>1, <4>1, <4>2, <1>i DEF WireRows
    <3> QED BY <1>q, <2>1, <3>1
  <2>2. \A i \in Ids : row'[i].status = "none" => row'[i] = NoRow
    BY <1>q, <1>i DEF WireRows
  <2>3. \A i \in Ids : row'[i].status = "deleted" => KindOf[row'[i].topic] = "thread_chat"
    BY <1>q, <1>i DEF WireRows
  <2> QED BY <2>1, <2>2, <2>3 DEF WireRows, NoRow
<1>1. ASSUME NEW d \in Dispatches, DispatchShape(d) PROVE WireRows'
  <2>1. CASE Passes(d) \/ \E q \in Reqs : Sends(d, q)
    <3>1. row' = row
      BY <2>1 DEF Passes, Sends
    <3> QED BY <3>1, <1>q
  <2>2. CASE Closes(d)
    BY <2>2, <1>q DEF Closes
  <2>3. ASSUME NEW i \in Ids, Opens(d, i) PROVE WireRows'
    BY <2>3, <1>q DEF Opens
  <2>4. ASSUME NEW i \in Ids, NEW q \in Reqs, Records(d, i, q) PROVE WireRows'
    <3>1. /\ row'[i].req = q /\ row'[i].topic = row[i].topic /\ row'[i].status = row[i].status
          /\ \A j \in Ids : j # i => row'[j] = row[j]
      BY <2>4 DEF Records
    <3>2. run'[q].topic = row[i].topic /\ row[i].status # "none"
      BY <2>4, <1>i, WireFacts DEF Records, SameRun, WireDispatches, Holds
    <3>3. row[i].status # "deleted" \/ KindOf[row[i].topic] = "thread_chat"
      BY <1>i DEF WireRows
    <3>4. ASSUME NEW j \in Ids
          PROVE  /\ row'[j].status = "none" => row'[j] = row[j]
                 /\ row'[j].status = "deleted" => row'[j] = row[j] \/ KindOf[row'[j].topic] = "thread_chat"
                 /\ \/ row'[j].req = row[j].req /\ row'[j].topic = row[j].topic
                    \/ row'[j].req \in Reqs /\ run'[row'[j].req].topic = row'[j].topic
      <4>1. CASE j = i
        BY <4>1, <3>1, <3>2, <3>3
      <4> QED BY <4>1, <3>1
    <3> QED BY <3>4, <1>q
  <2> QED BY <1>1, <2>1, <2>2, <2>3, <2>4 DEF DispatchShape
<1>2. ASSUME NEW q \in Reqs, AnswerShape(q) PROVE WireRows'
  <2>1. CASE Takes(q) \/ Stores(q)
    <3>1. \A i \in Ids : \/ row'[i] = row[i]
                         \/ /\ row'[i].req = row[i].req /\ row'[i].topic = row[i].topic
                            /\ row'[i].status \in {"completed", "failed"}
      BY <2>1 DEF Takes, Stores, Writes
    <3> QED BY <3>1, <1>q
  <2>2. CASE Settles(q, row)
    <3>1. \A i \in Ids : \/ row'[i] = row[i]
                         \/ /\ row'[i].req = row[i].req /\ row'[i].topic = row[i].topic
                            /\ row'[i].status \in {"completed", "failed"}
      BY <2>2 DEF Settles, Writes
    <3> QED BY <3>1, <1>q
  <2>3. ASSUME NEW n \in Reqs, Follows(q, n) PROVE WireRows'
    <3> DEFINE R == FollowRetry(q, n)
    <3>1. handler[q].at = "retrying" /\ handler[q].next = n /\ SameRun(n)
      BY <2>3 DEF Follows
    <3>2. run'[n].topic = run[q].topic
      BY <3>1, <1>i DEF SameRun, WireRuns
    <3>3. \A i \in Ids : row[i].req = q => run[q].topic = row[i].topic
      BY <1>i DEF WireRows
    <3>4. \A i \in Ids :
             \/ R[i] = row[i]
             \/ /\ R[i].req = n /\ R[i].topic = row[i].topic /\ row[i].req = q
                /\ R[i].status = "pending"
      BY <1>i, FollowRows
    <3> HIDE DEF R
    <3>5. Settles(q, R)
      BY <2>3 DEF Follows, R
    <3>6. \A i \in Ids : \/ row'[i] = R[i]
                         \/ /\ row'[i].req = R[i].req /\ row'[i].topic = R[i].topic
                            /\ row'[i].status \in {"completed", "failed"}
      BY <3>5 DEF Settles, Writes
    <3>7. ASSUME NEW i \in Ids
          PROVE  /\ row'[i].status = "none" => row'[i] = row[i]
                 /\ row'[i].status = "deleted" => row'[i] = row[i]
                 /\ \/ row'[i].req = row[i].req /\ row'[i].topic = row[i].topic
                    \/ row'[i].req \in Reqs /\ run'[row'[i].req].topic = row'[i].topic
      <4>1. CASE R[i] = row[i]
        BY <4>1, <3>6
      <4>2. CASE R[i] # row[i]
        BY <4>2, <3>2, <3>3, <3>4, <3>6
      <4> QED BY <4>1, <4>2
    <3> QED BY <3>7, <1>q
  <2>4. ASSUME NEW n \in Reqs, SendsBack(q, n) PROVE WireRows'
    BY <2>4, <1>q DEF SendsBack
  <2> QED BY <1>2, <2>1, <2>2, <2>3, <2>4 DEF AnswerShape
<1>3. ASSUME NEW t \in Topics, Deletes(t) PROVE WireRows'
  BY <1>3, <1>q DEF Deletes
<1>4. CASE Rests \/ Restarts
  BY <1>4, <1>q DEF Rests, Restarts
<1> QED BY <1>1, <1>2, <1>3, <1>4 DEF Shape

LEMMA WireDispatchesStep == WireInv /\ Shape => WireDispatches'
<1> SUFFICES ASSUME WireInv, Shape PROVE WireDispatches'
  OBVIOUS
<1> USE IdsAreNat
<1>i. TypeOK /\ HeldInv /\ OpenInv /\ GradeInv /\ WireRows /\ WireDispatches /\ WireRuns
  BY WireFacts DEF WireInv
\* A request that was posted keeps its subject.
<1>s. ASSUME NEW d \in Dispatches, dispatch[d].at = "sent"
      PROVE  run'[dispatch[d].req].topic = dispatch[d].topic /\ run'[dispatch[d].req].retryOf = None
  <2>1. dispatch[d].req \in Reqs /\ run[dispatch[d].req].status = "posted"
    BY <1>s, <1>i, WireFacts DEF HeldInv
  <2>2. SameRun(dispatch[d].req)
    BY <2>1, RunsKept
  <2> QED BY <1>s, <2>2, <1>i DEF SameRun, WireDispatches
\* It is enough that dispatches that hold a row go on as they were, on rows without a request.
<1>k. ASSUME \A d \in Dispatches : Holds(dispatch'[d]) => dispatch'[d] = dispatch[d],
             \A d \in Dispatches : Holds(dispatch'[d]) => row'[dispatch[d].row].req = None
      PROVE  WireDispatches'
  <2>1. \A d \in Dispatches : Holds(dispatch'[d]) => row'[dispatch'[d].row].req = None
    BY <1>k
  <2>2. \A d, e \in Dispatches :
           Holds(dispatch'[d]) /\ Holds(dispatch'[e]) /\ dispatch'[d].row = dispatch'[e].row => d = e
    BY <1>k, <1>i DEF WireDispatches
  <2>3. ASSUME NEW d \in Dispatches, dispatch'[d].at = "sent"
        PROVE  run'[dispatch'[d].req].topic = dispatch'[d].topic /\ run'[dispatch'[d].req].retryOf = None
    <3>1. dispatch'[d] = dispatch[d] /\ dispatch[d].at = "sent"
      BY <1>k, <2>3 DEF Holds
    <3> QED BY <3>1, <1>s
  <2> QED BY <2>1, <2>2, <2>3 DEF WireDispatches, Holds
<1>1. ASSUME NEW d \in Dispatches, DispatchShape(d) PROVE WireDispatches'
  <2>1. CASE Passes(d) \/ Closes(d)
    <3>1. \A e \in Dispatches : Holds(dispatch'[e]) => dispatch'[e] = dispatch[e]
      BY <2>1 DEF Passes, Closes, OthersWait, Holds
    <3>2. \A i \in Ids : row'[i].req = row[i].req
      BY <2>1 DEF Passes, Closes
    <3> QED BY <3>1, <3>2, <1>k, <1>i, WireFacts DEF WireDispatches
  <2>2. ASSUME NEW i \in Ids, Opens(d, i) PROVE WireDispatches'
    <3>1. /\ Holds(dispatch'[d]) /\ dispatch'[d].row = i /\ dispatch'[d].at = "opened"
          /\ row[i].status = "none" /\ row'[i].req = None
      BY <2>2 DEF Opens, Holds
    <3>2. ASSUME NEW e \in Dispatches, e # d, Holds(dispatch'[e])
          PROVE  /\ dispatch'[e] = dispatch[e] /\ dispatch[e].row \in Ids /\ dispatch[e].row # i
                 /\ row'[dispatch[e].row].req = None
      <4>1. dispatch'[e] = dispatch[e]
        BY <3>2, <2>2 DEF Opens, OthersWait
      <4>2. dispatch[e].row \in Ids /\ row[dispatch[e].row].status # "none" /\ row[dispatch[e].row].req = None
        BY <3>2, <4>1, <1>i, WireFacts DEF WireDispatches
      <4>3. row'[dispatch[e].row] = row[dispatch[e].row]
        BY <4>2, <3>1, <2>2 DEF Opens
      <4> QED BY <4>1, <4>2, <4>3, <3>1
    <3>3. \A e \in Dispatches : Holds(dispatch'[e]) => row'[dispatch'[e].row].req = None
      BY <3>1, <3>2
    <3>4. ASSUME NEW e \in Dispatches, NEW f \in Dispatches, Holds(dispatch'[e]), Holds(dispatch'[f]),
                 dispatch'[e].row = dispatch'[f].row
          PROVE  e = f
      BY <3>4, <3>1, <3>2, <1>i DEF WireDispatches
    <3>5. ASSUME NEW e \in Dispatches, dispatch'[e].at = "sent"
          PROVE  run'[dispatch'[e].req].topic = dispatch'[e].topic /\ run'[dispatch'[e].req].retryOf = None
      <4>1. e # d /\ Holds(dispatch'[e])
        BY <3>5, <3>1 DEF Holds
      <4>2. dispatch'[e] = dispatch[e]
        BY <4>1, <3>2
      <4> QED BY <3>5, <4>2, <1>s
    <3> QED BY <3>3, <3>4, <3>5 DEF WireDispatches, Holds
  <2>3. ASSUME NEW q \in Reqs, Sends(d, q) PROVE WireDispatches'
    <3>1. /\ Holds(dispatch[d]) /\ dispatch'[d].row = dispatch[d].row /\ row' = row
          /\ dispatch'[d].req = q /\ dispatch'[d].topic = dispatch[d].topic
          /\ run'[q].topic = dispatch[d].topic /\ run'[q].retryOf = None
          /\ \A e \in Dispatches : e # d => dispatch'[e] = dispatch[e]
      BY <2>3 DEF Sends, Posts, OthersWait
    <3>2. \A e \in Dispatches : Holds(dispatch'[e]) => Holds(dispatch[e]) /\ dispatch'[e].row = dispatch[e].row
      BY <3>1
    <3>3. ASSUME NEW e \in Dispatches, dispatch'[e].at = "sent"
          PROVE  run'[dispatch'[e].req].topic = dispatch'[e].topic /\ run'[dispatch'[e].req].retryOf = None
      <4>1. CASE e = d
        BY <4>1, <3>1
      <4>2. CASE e # d
        BY <4>2, <3>1, <3>3, <1>s
      <4> QED BY <4>1, <4>2
    <3> QED BY <3>1, <3>2, <3>3, <1>i DEF WireDispatches, Holds
  <2>4. ASSUME NEW i \in Ids, NEW q \in Reqs, Records(d, i, q) PROVE WireDispatches'
    <3>1. /\ dispatch'[d].at = "idle" /\ Holds(dispatch[d]) /\ dispatch[d].row = i
          /\ \A e \in Dispatches : e # d => dispatch'[e] = dispatch[e]
          /\ \A j \in Ids : j # i => row'[j] = row[j]
      BY <2>4 DEF Records, OthersWait, Holds
    <3>2. ASSUME NEW e \in Dispatches, Holds(dispatch'[e])
          PROVE  dispatch'[e] = dispatch[e] /\ row'[dispatch[e].row].req = None
      <4>1. e # d /\ dispatch'[e] = dispatch[e]
        BY <3>1, <3>2 DEF Holds
      <4>2. dispatch[e].row # i
        BY <4>1, <3>1, <3>2, <1>i DEF WireDispatches
      <4>3. dispatch[e].row \in Ids
        BY <4>1, <3>2, WireFacts
      <4> QED BY <4>1, <4>2, <4>3, <3>1, <3>2, <1>i DEF WireDispatches
    <3> QED BY <3>2, <1>k
  <2> QED BY <1>1, <2>1, <2>2, <2>3, <2>4 DEF DispatchShape
\* The steps of an answer write no request on a row that had none.
<1>2. ASSUME dispatch' = dispatch, \A i \in Ids : row[i].req = None => row'[i].req = None PROVE WireDispatches'
  BY <1>2, <1>k, <1>i, WireFacts DEF WireDispatches
<1>3. ASSUME NEW q \in Reqs, AnswerShape(q) PROVE WireDispatches'
  <2>1. CASE Takes(q) \/ Stores(q)
    BY <2>1, <1>2 DEF Takes, Stores, Writes
  <2>2. ASSUME NEW R, Settles(q, R), \A i \in Ids : row[i].req = None => R[i].req = None PROVE WireDispatches'
    BY <2>2, <1>2 DEF Settles, Writes
  <2>3. ASSUME NEW n \in Reqs, Follows(q, n) PROVE WireDispatches'
    <3>1. \A i \in Ids : row[i].req = None => FollowRetry(q, n)[i].req = None
      BY <1>i, FollowRows
    <3> QED BY <2>2, <2>3, <3>1 DEF Follows
  <2>4. ASSUME NEW n \in Reqs, SendsBack(q, n) PROVE WireDispatches'
    BY <2>4, <1>2 DEF SendsBack
  <2> QED BY <1>3, <2>1, <2>2, <2>3, <2>4 DEF AnswerShape
<1>4. ASSUME NEW t \in Topics, Deletes(t) PROVE WireDispatches'
  BY <1>4, <1>2 DEF Deletes
<1>5. CASE Restarts
  BY <1>5, <1>k DEF Restarts, Holds
<1>6. CASE Rests
  BY <1>6, <1>2 DEF Rests
<1> QED BY <1>1, <1>3, <1>4, <1>5, <1>6 DEF Shape

LEMMA WireRunsStep == WireInv /\ Shape => WireRuns'
<1> SUFFICES ASSUME WireInv, Shape PROVE WireRuns'
  OBVIOUS
<1> USE IdsAreNat
<1>i. TypeOK /\ HeldInv /\ OpenInv /\ GradeInv /\ WireRows /\ WireDispatches /\ WireRuns
  BY WireFacts DEF WireInv
<1> DEFINE Kind(q) == run[q].kind = KindOf[run[q].topic] \/ (KindOf[run[q].topic] = "usage" /\ run[q].kind = "observe")
\* It is enough that a new run is of its subject's flow and a new retry of its run's subject.
<1>k. ASSUME \A q \in Reqs : run[q].status = "none" /\ run'[q].status # "none" => Kind(q)',
             \A q \in Reqs : handler'[q].at = "retrying" =>
                \/ handler'[q] = handler[q]
                \/ /\ run'[q].retryOf = None
                   /\ run'[handler'[q].next].topic = run'[q].topic /\ run'[handler'[q].next].retryOf = q
      PROVE  WireRuns'
  <2>1. ASSUME NEW q \in Reqs, run'[q].status # "none" PROVE Kind(q)'
    <3>1. CASE run[q].status = "none"
      BY <3>1, <2>1, <1>k
    <3>2. CASE run[q].status # "none"
      <4>1. SameRun(q) /\ Kind(q)
        BY <3>2, <1>i, RunsKept DEF WireRuns
      <4> QED BY <4>1 DEF SameRun
    <3> QED BY <3>1, <3>2
  <2>2. ASSUME NEW q \in Reqs, handler[q].at = "retrying", handler'[q] = handler[q]
        PROVE  /\ run'[q].retryOf = None
               /\ run'[handler'[q].next].topic = run'[q].topic /\ run'[handler'[q].next].retryOf = q
    <3>1. handler[q].next \in Reqs /\ run[handler[q].next].status = "posted" /\ run[q].status = "completed"
      BY <2>2, <1>i, WireFacts DEF HeldInv, GradeInv
    <3>2. SameRun(q) /\ SameRun(handler[q].next)
      BY <3>1, RunsKept
    <3> QED BY <2>2, <3>1, <3>2, <1>i DEF SameRun, WireRuns
  <2>3. \A q \in Reqs : handler'[q].at = "retrying" =>
                /\ run'[q].retryOf = None
                /\ run'[handler'[q].next].topic = run'[q].topic /\ run'[handler'[q].next].retryOf = q
    BY <1>k, <2>2
  <2> QED BY <2>1, <2>3 DEF WireRuns
<1>1. ASSUME NEW d \in Dispatches, DispatchShape(d) PROVE WireRuns'
  <2>1. handler' = handler
    BY <1>1 DEF DispatchShape, Passes, Closes, Opens, Sends, Records
  <2>2. CASE run' = run
    BY <2>1, <2>2, <1>k
  <2>3. ASSUME NEW q \in Reqs, Sends(d, q) PROVE WireRuns'
    <3>1. \A p \in Reqs : run[p].status = "none" /\ run'[p].status # "none" => Kind(p)'
      BY <2>3 DEF Sends, Posts, OnlyRun
    <3> QED BY <2>1, <3>1, <1>k
  <2>4. ASSUME NEW i \in Ids, NEW q \in Reqs, Records(d, i, q) PROVE WireRuns'
    <3>1. \A p \in Reqs : run[p].status = "none" => run'[p].status = "none"
      BY <2>4 DEF Records, OnlyRun
    <3> QED BY <2>1, <3>1, <1>k
  <2> QED BY <1>1, <2>2, <2>3, <2>4 DEF DispatchShape, Passes, Closes, Opens
<1>2. ASSUME NEW q \in Reqs, AnswerShape(q) PROVE WireRuns'
  <2>1. CASE ~\E n \in Reqs : SendsBack(q, n)
    <3>1. \A p \in Reqs : run[p].status = "none" => run'[p].status = "none"
      BY <1>2, <2>1 DEF AnswerShape, Takes, Settles, Follows, Stores, OnlyRun
    <3>2. \A p \in Reqs : handler'[p].at = "retrying" => handler'[p] = handler[p]
      BY <1>2, <2>1 DEF AnswerShape, Takes, Settles, Follows, Stores, OthersGrade
    <3> QED BY <3>1, <3>2, <1>k
  <2>2. ASSUME NEW n \in Reqs, SendsBack(q, n) PROVE WireRuns'
    <3>1. handler[q].at = "grading" /\ run[q].status = "completed" /\ run[q].retryOf = None
      BY <2>2, <1>i DEF SendsBack, GradeInv
    <3>2. /\ run'[n].kind = IF run[q].kind = "usage" THEN "observe" ELSE run[q].kind
          /\ run'[n].topic = run[q].topic /\ run'[n].retryOf = q /\ run[n].status = "none"
          /\ \A p \in Reqs : p # n => run'[p] = run[p]
      BY <2>2 DEF SendsBack, Posts, OnlyRun
    <3>3. Kind(q) /\ q # n
      BY <3>1, <3>2, <1>i DEF WireRuns
    <3>4. Kind(n)'
      BY <3>2, <3>3
    <3>5. handler'[q].next = n /\ \A p \in Reqs : p # q => handler'[p] = handler[p]
      BY <2>2 DEF SendsBack, OthersGrade
    <3>6. run'[q] = run[q]
      BY <3>2, <3>3
    <3> HIDE DEF Kind
    <3>7. \A p \in Reqs : run[p].status = "none" /\ run'[p].status # "none" => Kind(p)'
      BY <3>2, <3>4
    <3>8. run'[q].retryOf = None /\ run'[handler'[q].next].topic = run'[q].topic /\ run'[handler'[q].next].retryOf = q
      BY <3>1, <3>2, <3>5, <3>6
    <3> QED BY <3>5, <3>7, <3>8, <1>k
  <2> QED BY <2>1, <2>2
<1>3. CASE Rests \/ Restarts \/ \E t \in Topics : Deletes(t)
  <2>1. run' = run /\ \A q \in Reqs : handler'[q] = handler[q] \/ handler'[q].at # "retrying"
    BY <1>3 DEF Rests, Restarts, Deletes
  <2> QED BY <2>1, <1>k
<1> QED BY <1>1, <1>2, <1>3 DEF Shape

LEMMA WireStep == WireInv /\ [Next]_vars => WireInv' /\ Shape
<1> SUFFICES ASSUME WireInv, [Next]_vars PROVE WireInv' /\ Shape
  OBVIOUS
<1>1. TrackInv /\ TypeOK /\ HeldInv
  BY DEF WireInv, TrackInv
<1>2. Shape
  BY <1>1, StepShapes
<1>3. TrackInv'
  BY <1>1, TypeStep, HeldStep, TrackStep DEF TrackInv
<1> QED BY <1>2, <1>3, WireRowsStep, WireDispatchesStep, WireRunsStep DEF WireInv

-----------------------------------------------------------------------------
(* Answers go to their subject.  A row is written by the request it names, which
   is of its subject, or by one that falls back on it, of a sibling; also when it
   was picked before another wait, for an open row keeps its subject. *)

\* SameSubject, with the runs r.
Own(r, q, t) == r[q].topic = t \/ (KindOf[r[q].topic] = "thread_chat" /\ KindOf[t] = "thread_chat")
AnswerInv ==
    /\ \A i \in Ids : row[i].answer # None =>
          run[row[i].answer].status # "none" /\ Own(run, row[i].answer, row[i].topic)
    /\ \A q \in Reqs : handler[q].at = "storing" =>
          row[handler[q].row].status # "none" /\ Own(run, q, row[handler[q].row].topic)

\* A row an answer is for: the one that names its request, or a pending one of a sibling.
LEMMA OwnersAre ==
  ASSUME NEW R, NEW q \in Reqs, NEW i \in OwnersOf(R, q)
  PROVE  /\ i \in Ids
         /\ \/ R[i].req = q /\ R[i].status # "deleted" /\ KindOf[R[i].topic] = run[q].kind
            \/ /\ R[i].status = "pending" /\ R[i].topic \in Siblings(run[q].topic) /\ run[q].kind \in FallsBack
               /\ \A j \in Ids : R[j].req = q /\ KindOf[R[j].topic] = run[q].kind => R[j].status = "deleted"
  BY DEF OwnersOf

LEMMA OwnersOwn ==
  ASSUME WireInv, NEW q \in Reqs, NEW R,
         R = row \/ \E n \in Reqs : R = FollowRetry(q, n),
         NEW i \in OwnersOf(R, q)
  PROVE  i \in Ids /\ row[i].status # "none" /\ Own(run, q, row[i].topic)
<1>1. R[i].topic = row[i].topic /\ (R[i] = row[i] \/ row[i].req = q) /\ i \in Ids
  <2>1. i \in Ids
    BY OwnersAre
  <2>2. CASE R = row
    BY <2>1, <2>2
  <2>3. ASSUME NEW n \in Reqs, R = FollowRetry(q, n) PROVE R[i].topic = row[i].topic /\ (R[i] = row[i] \/ row[i].req = q)
    BY <2>1, <2>3, FollowRows, WireFacts
  <2> QED BY <2>1, <2>2, <2>3
<1>2. CASE row[i].req = q
  <2>1. row[i].status # "none" /\ run[q].topic = row[i].topic
    BY <1>1, <1>2, WireFacts, IdsAreNat DEF WireInv, WireRows
  <2> QED BY <1>1, <2>1 DEF Own
<1>3. CASE row[i].req # q
  <2>1. row[i].status = "pending" /\ row[i].topic \in Siblings(run[q].topic)
    BY <1>1, <1>3, OwnersAre
  <2> QED BY <1>1, <2>1 DEF Siblings, Own
<1> QED BY <1>2, <1>3

LEMMA AnswerStep == WireInv /\ AnswerInv /\ Shape => AnswerInv'
<1> SUFFICES ASSUME WireInv, AnswerInv, Shape PROVE AnswerInv'
  OBVIOUS
<1> USE IdsAreNat
<1>i. TypeOK /\ GradeInv
  BY WireFacts
<1>a. /\ \A i \in Ids : row[i].answer # None => row[i].answer \in Reqs
      /\ \A q \in Reqs : handler[q].at # "idle" => run[q].status # "none"
  BY <1>i DEF TypeOK, RowType, GradeInv
<1>s. \A q \in Reqs, t \in Topics : run[q].status # "none" /\ Own(run, q, t) => run'[q].status # "none" /\ Own(run', q, t)
  BY RunsKept DEF SameRun, Own
<1>t. ASSUME NEW i \in Ids, row[i].status # "none"
      PROVE  row'[i].status # "none" /\ row'[i].topic = row[i].topic /\ row[i].topic \in Topics
  BY <1>t, <1>i, RowsKept DEF TypeOK, RowType
\* It is enough that a new answer is on a row of its subject, and that a row picked
\* to be written later is.
<1>k. ASSUME \A i \in Ids :
                \/ row'[i].answer = None
                \/ row'[i].answer = row[i].answer
                \/ /\ row'[i].answer \in Reqs /\ run[row'[i].answer].status # "none"
                   /\ row[i].status # "none" /\ Own(run, row'[i].answer, row[i].topic),
             \A q \in Reqs : handler'[q].at = "storing" =>
                \/ handler'[q] = handler[q]
                \/ /\ handler[q].at # "idle" /\ handler'[q].row \in Ids
                   /\ row[handler'[q].row].status # "none" /\ Own(run, q, row[handler'[q].row].topic)
      PROVE  AnswerInv'
  <2>1. ASSUME NEW i \in Ids, row'[i].answer # None
        PROVE  run'[row'[i].answer].status # "none" /\ Own(run', row'[i].answer, row'[i].topic)
    <3>1. CASE row'[i].answer = row[i].answer
      <4>1. row[i].answer \in Reqs /\ run[row[i].answer].status # "none" /\ Own(run, row[i].answer, row[i].topic)
        BY <2>1, <3>1, <1>a DEF AnswerInv
      <4>2. row[i].status # "none"
        BY <2>1, <3>1, WireFacts
      <4>3. run'[row[i].answer].status # "none" /\ Own(run', row[i].answer, row[i].topic)
        BY <4>1, <4>2, <1>s, <1>t DEF Own
      <4> QED BY <3>1, <4>2, <4>3, <1>t DEF Own
    <3>2. CASE row'[i].answer # row[i].answer
      <4>1. /\ row'[i].answer \in Reqs /\ run[row'[i].answer].status # "none"
            /\ row[i].status # "none" /\ Own(run, row'[i].answer, row[i].topic)
        BY <2>1, <3>2, <1>k
      <4>2. SameRun(row'[i].answer) /\ run'[row'[i].answer].status # "none"
        BY <4>1, RunsKept
      <4>3. row'[i].topic = row[i].topic
        BY <4>1, <1>t
      <4> QED BY <4>1, <4>2, <4>3 DEF SameRun, Own
    <3> QED BY <3>1, <3>2
  <2>2. ASSUME NEW q \in Reqs, handler'[q].at = "storing"
        PROVE  row'[handler'[q].row].status # "none" /\ Own(run', q, row'[handler'[q].row].topic)
    <3> DEFINE h == handler'[q].row
    <3>1. h \in Ids /\ row[h].status # "none" /\ Own(run, q, row[h].topic) /\ run[q].status # "none"
      <4>1. CASE handler'[q] = handler[q]
        BY <2>2, <4>1, <1>a, WireFacts DEF AnswerInv
      <4>2. CASE handler'[q] # handler[q]
        BY <2>2, <4>2, <1>k, <1>a
      <4> QED BY <4>1, <4>2
    <3> HIDE DEF h
    <3>2. row'[h].status # "none" /\ row'[h].topic = row[h].topic /\ SameRun(q)
      BY <3>1, <1>t, RunsKept
    <3>3. run'[q].topic = row'[h].topic \/ (KindOf[run'[q].topic] = "thread_chat" /\ KindOf[row'[h].topic] = "thread_chat")
      BY <3>1, <3>2 DEF SameRun, Own
    <3> QED BY <3>2, <3>3 DEF h, Own
  <2>3. \A i \in Ids : row'[i].answer # None =>
           run'[row'[i].answer].status # "none" /\ Own(run', row'[i].answer, row'[i].topic)
    BY <2>1
  <2>4. \A q \in Reqs : handler'[q].at = "storing" =>
           row'[handler'[q].row].status # "none" /\ Own(run', q, row'[handler'[q].row].topic)
    BY <2>2
  <2> QED BY <2>3, <2>4 DEF AnswerInv
<1>1. ASSUME NEW d \in Dispatches, DispatchShape(d) PROVE AnswerInv'
  <2>1. handler' = handler
    BY <1>1 DEF DispatchShape, Passes, Closes, Opens, Sends, Records
  <2>2. \A i \in Ids : row'[i].answer = None \/ row'[i].answer = row[i].answer
    BY <1>1 DEF DispatchShape, Passes, Closes, Opens, Sends, Records
  <2> QED BY <2>1, <2>2, <1>k
<1>2. ASSUME NEW q \in Reqs, AnswerShape(q) PROVE AnswerInv'
  <2>1. CASE Takes(q)
    <3>1. \A i \in OwnersOf(row, q) : row[i].status # "none" /\ Own(run, q, row[i].topic)
      BY OwnersOwn
    <3>2. ASSUME NEW i \in Ids PROVE row'[i].answer = row[i].answer \/ (row'[i].answer = q /\ i \in OwnersOf(row, q))
      BY <2>1 DEF Takes, Writes
    <3>3. run[q].status # "none" /\ \A p \in Reqs : handler'[p].at = "storing" => handler'[p] = handler[p]
      BY <2>1 DEF Takes, OthersGrade
    <3> QED BY <3>1, <3>2, <3>3, <1>k
  <2>2. CASE Stores(q)
    <3>1. handler[q].row \in Ids /\ row[handler[q].row].status # "none" /\ Own(run, q, row[handler[q].row].topic)
          /\ run[q].status # "none"
      BY <2>2, <1>a, WireFacts DEF Stores, AnswerInv
    <3>2. ASSUME NEW i \in Ids PROVE row'[i].answer = row[i].answer \/ (row'[i].answer = q /\ i = handler[q].row)
      BY <2>2 DEF Stores, Writes
    <3>3. \A p \in Reqs : handler'[p].at = "storing" => handler'[p] = handler[p]
      BY <2>2 DEF Stores, OthersGrade
    <3> QED BY <3>1, <3>2, <3>3, <1>k
  <2>3. ASSUME NEW R, Settles(q, R), R = row \/ \E n \in Reqs : R = FollowRetry(q, n)
        PROVE  AnswerInv'
    <3>1. \A i \in OwnersOf(R, q) : i \in Ids /\ row[i].status # "none" /\ Own(run, q, row[i].topic)
      BY <2>3, OwnersOwn
    <3>2. \A i \in Ids : R[i].answer = row[i].answer
      <4>1. ASSUME NEW n \in Reqs, R = FollowRetry(q, n), NEW i \in Ids PROVE R[i].answer = row[i].answer
        BY <4>1, <1>i, FollowRows
      <4> QED BY <2>3, <4>1
    <3>3. ASSUME NEW i \in Ids PROVE row'[i].answer = row[i].answer \/ (row'[i].answer = q /\ i \in OwnersOf(R, q))
      BY <2>3, <3>2 DEF Settles, Writes
    <3>4. handler[q].at # "idle" /\ run[q].status # "none"
      BY <2>3, <1>a DEF Settles
    <3>5. \A p \in Reqs : handler'[p].at = "storing" => handler'[p] = handler[p] \/ (p = q /\ handler'[q].row \in OwnersOf(R, q))
      BY <2>3 DEF Settles, OthersGrade
    <3> QED BY <3>1, <3>3, <3>4, <3>5, <1>k
  <2>4. ASSUME NEW n \in Reqs, Follows(q, n) PROVE AnswerInv'
    BY <2>3, <2>4 DEF Follows
  <2>5. ASSUME NEW n \in Reqs, SendsBack(q, n) PROVE AnswerInv'
    BY <2>5, <1>k DEF SendsBack, OthersGrade
  <2> QED BY <1>2, <2>1, <2>2, <2>3, <2>4, <2>5 DEF AnswerShape
<1>3. CASE Rests \/ Restarts \/ \E t \in Topics : Deletes(t)
  <2>1. /\ \A i \in Ids : row'[i].answer = row[i].answer
        /\ \A q \in Reqs : handler'[q] = handler[q] \/ handler'[q].at = "idle"
    BY <1>3 DEF Rests, Restarts, Deletes
  <2> QED BY <2>1, <1>k
<1> QED BY <1>1, <1>2, <1>3 DEF Shape

LEMMA WireInit == Init => WireInv
<1> SUFFICES ASSUME Init PROVE WireInv
  OBVIOUS
<1>1. /\ \A d \in Dispatches : dispatch[d].at = "idle"
      /\ \A q \in Reqs : handler[q].at = "idle" /\ run[q].status = "none"
      /\ \A i \in Ids : row[i] = NoRow
  BY FirstTyped DEF Init
<1>0. NoRow.req = None /\ NoRow.status = "none" /\ NoRow.answer = None
  BY DEF NoRow
<1>2. \A i \in Ids : row[i].req = None /\ row[i].status = "none" /\ row[i].answer = None
  BY <1>0, <1>1
<1>3. HeldInv
  BY <1>1 DEF HeldInv
<1>4. LinkInv /\ OpenInv /\ GradeInv /\ PendingIsTracked
  BY <1>1, <1>2 DEF LinkInv, OpenInv, GradeInv, PendingIsTracked
<1>5. WireRows /\ WireDispatches /\ WireRuns
  BY <1>1, <1>2 DEF WireRows, WireDispatches, WireRuns, Holds
<1> QED BY <1>3, <1>4, <1>5, TypeInit DEF WireInv, TrackInv, RowsInv

\* An answer that a row records is done with: its run has ended and nobody works on it.
EndedInv ==
    \A i \in Ids : row[i].answer # None =>
        /\ run[row[i].answer].status \in {"completed", "failed"} /\ handler[row[i].answer].at = "idle"
        /\ \A j \in Ids : row[j].answer = row[i].answer => i = j

LEMMA RunsEnded ==
  ASSUME Shape, NEW q \in Reqs, run[q].status \in {"completed", "failed"}
  PROVE  run'[q].status = run[q].status
<1>1. ASSUME NEW d \in Dispatches, DispatchShape(d) PROVE run'[q].status = run[q].status
  BY <1>1 DEF DispatchShape, Passes, Closes, Opens, Sends, Posts, Records, OnlyRun
<1>2. ASSUME NEW p \in Reqs, AnswerShape(p) PROVE run'[q].status = run[q].status
  BY <1>2 DEF AnswerShape, Takes, Settles, Follows, Stores, SendsBack, Posts, OnlyRun
<1> QED BY <1>1, <1>2 DEF Shape, Rests, Restarts, Deletes

\* An answer is for one row.
LEMMA OwnersAreOne ==
  ASSUME NEW R, NEW q \in Reqs, NEW i \in OwnersOf(R, q), NEW j \in OwnersOf(R, q)
  PROVE  i = j
<1> DEFINE mine == {k \in Ids : R[k].status # "deleted" /\ R[k].req = q /\ KindOf[R[k].topic] = run[q].kind}
           late == {k \in Ids : R[k].status = "pending" /\ R[k].topic \in Siblings(run[q].topic)}
<1>1. ASSUME NEW S \in SUBSET Ids, IsNewest(i, S), IsNewest(j, S) PROVE i = j
  BY <1>1, IdsAreNat DEF IsNewest
<1>2. mine \in SUBSET Ids /\ late \in SUBSET Ids
  OBVIOUS
<1>3. (IsNewest(i, mine) /\ IsNewest(j, mine)) \/ (IsNewest(i, late) /\ IsNewest(j, late))
  BY DEF OwnersOf
<1> HIDE DEF mine, late
<1> QED BY <1>1, <1>2, <1>3

LEMMA EndedStep == WireInv /\ EndedInv /\ Shape => EndedInv'
<1> SUFFICES ASSUME WireInv, EndedInv, Shape PROVE EndedInv'
  OBVIOUS
<1> USE IdsAreNat
<1>i. TypeOK /\ GradeInv
  BY WireFacts
<1>a. \A i \in Ids : row[i].answer # None =>
         /\ row[i].answer \in Reqs
         /\ run[row[i].answer].status \in {"completed", "failed"} /\ run'[row[i].answer].status \in {"completed", "failed"}
         /\ handler[row[i].answer].at = "idle"
  BY WireFacts, RunsEnded DEF EndedInv
\* It is enough that no handler wakes up, and that at most one row gets an answer that
\* no row had, of a run that has ended and whose handler has.
<1>k. ASSUME \A i \in Ids : row[i].answer # None => handler'[row[i].answer].at = "idle",
             NEW q \in Reqs, NEW S, \A i, j \in S : i = j,
             \A i \in Ids : \/ row'[i].answer = row[i].answer \/ row'[i].answer = None
                            \/ i \in S /\ row'[i].answer = q,
             \/ \A i \in Ids : row'[i].answer = row[i].answer \/ row'[i].answer = None
             \/ /\ \A i \in Ids : row[i].answer # q
                /\ run'[q].status \in {"completed", "failed"} /\ handler'[q].at = "idle"
      PROVE  EndedInv'
  <2>1. ASSUME NEW i \in Ids, row'[i].answer # None
        PROVE  /\ run'[row'[i].answer].status \in {"completed", "failed"} /\ handler'[row'[i].answer].at = "idle"
               /\ \A j \in Ids : row'[j].answer = row'[i].answer => i = j
    <3>1. CASE \A j \in Ids : row'[j].answer = row[j].answer \/ row'[j].answer = None
      BY <1>a, <1>k, <2>1, <3>1 DEF EndedInv
    <3>2. CASE /\ \A j \in Ids : row[j].answer # q
               /\ run'[q].status \in {"completed", "failed"} /\ handler'[q].at = "idle"
      <4>1. CASE row'[i].answer = row[i].answer
        <5>1. \A j \in Ids : row'[j].answer = row'[i].answer => row[j].answer = row[i].answer
          BY <1>k, <2>1, <3>2, <4>1
        <5> QED BY <1>a, <1>k, <2>1, <4>1, <5>1 DEF EndedInv
      <4>2. CASE row'[i].answer # row[i].answer
        <5>1. row'[i].answer = q /\ i \in S
          BY <1>k, <2>1, <4>2
        <5>2. \A j \in Ids : row'[j].answer = q => j \in S
          BY <1>k, <3>2
        <5> QED BY <1>k, <3>2, <5>1, <5>2
      <4> QED BY <4>1, <4>2
    <3> QED BY <1>k, <3>1, <3>2
  <2> QED BY <2>1 DEF EndedInv
<1>r. ASSUME \A i \in Ids : row[i].answer # None => handler'[row[i].answer].at = "idle",
             \A i \in Ids : row'[i].answer = row[i].answer \/ row'[i].answer = None
      PROVE  EndedInv'
  BY <1>a, <1>r DEF EndedInv
<1>1. ASSUME NEW d \in Dispatches, DispatchShape(d) PROVE EndedInv'
  <2>1. handler' = handler /\ \A i \in Ids : row'[i].answer = row[i].answer \/ row'[i].answer = None
    BY <1>1 DEF DispatchShape, Passes, Closes, Opens, Sends, Records
  <2> QED BY <2>1, <1>a, <1>r
<1>2. ASSUME NEW q \in Reqs, AnswerShape(q) PROVE EndedInv'
  <2>1. CASE Takes(q)
    <3>1. /\ \A i \in Ids : row[i].answer # q
          /\ \A i \in Ids : row[i].answer # None => handler'[row[i].answer].at = "idle"
      BY <2>1, <1>a DEF Takes, OthersGrade
    <3>2. CASE Writes(q, row, {})
      <4>1. \A i \in Ids : row'[i].answer = row[i].answer
        BY <3>2 DEF Writes
      <4> QED BY <3>1, <4>1, <1>r
    <3>3. CASE handler' = handler /\ Writes(q, row, OwnersOf(row, q))
      <4>1. handler'[q].at = "idle" /\ run'[q].status \in {"completed", "failed"}
        BY <2>1, <3>3, <1>i DEF Takes, GradeInv
      <4>2. \A i \in Ids : row'[i].answer = row[i].answer \/ (i \in OwnersOf(row, q) /\ row'[i].answer = q)
        BY <3>3 DEF Writes
      <4>3. \A i, j \in OwnersOf(row, q) : i = j
        BY OwnersAreOne
      <4> QED BY <3>1, <4>1, <4>2, <4>3, <1>k
    <3> QED BY <2>1, <3>2, <3>3 DEF Takes
  <2>2. ASSUME NEW R, NEW S, \A i, j \in S : i = j, \A i \in Ids : R[i].answer = row[i].answer,
               handler[q].at # "idle", handler'[q].at = "idle", OthersGrade(q),
               Writes(q, R, S), run'[q].status \in {"completed", "failed"}
        PROVE  EndedInv'
    <3>1. /\ \A i \in Ids : row[i].answer # q
          /\ \A i \in Ids : row[i].answer # None => handler'[row[i].answer].at = "idle"
      BY <2>2, <1>a DEF OthersGrade
    <3>2. \A i \in Ids : row'[i].answer = row[i].answer \/ (i \in S /\ row'[i].answer = q)
      BY <2>2 DEF Writes
    <3> QED BY <2>2, <3>1, <3>2, <1>k
  <2>3. handler[q].at # "idle" => run'[q].status \in {"completed", "failed"}
    BY <1>i, RunsEnded DEF GradeInv
  <2>4. ASSUME NEW R, Settles(q, R), \A i \in Ids : R[i].answer = row[i].answer PROVE EndedInv'
    <3>1. handler[q].at # "idle" /\ OthersGrade(q)
      BY <2>4 DEF Settles
    <3>2. CASE handler'[q].at = "idle" /\ Writes(q, R, OwnersOf(R, q))
      <4>1. \A i, j \in OwnersOf(R, q) : i = j
        BY OwnersAreOne
      <4> QED BY <2>2, <2>3, <2>4, <3>1, <3>2, <4>1
    <3>3. CASE row' = R
      <4>1. \A i \in Ids : row[i].answer # None => handler'[row[i].answer].at = "idle"
        BY <3>1, <1>a DEF OthersGrade
      <4> QED BY <2>4, <3>3, <4>1, <1>r
    <3> QED BY <2>4, <3>2, <3>3 DEF Settles
  <2>5. ASSUME NEW n \in Reqs, Follows(q, n) PROVE EndedInv'
    <3>1. ASSUME NEW i \in Ids PROVE FollowRetry(q, n)[i].answer = row[i].answer
      BY <1>i, FollowRows
    <3> QED BY <2>4, <2>5, <3>1 DEF Follows
  <2>6. CASE Stores(q)
    <3>1. handler[q].at # "idle" /\ handler'[q].at = "idle" /\ OthersGrade(q) /\ Writes(q, row, {handler[q].row})
      BY <2>6 DEF Stores
    <3> QED BY <2>2, <2>3, <3>1
  <2>7. ASSUME NEW n \in Reqs, SendsBack(q, n) PROVE EndedInv'
    <3>1. row' = row /\ \A i \in Ids : row[i].answer # None => handler'[row[i].answer].at = "idle"
      BY <2>7, <1>a DEF SendsBack, OthersGrade
    <3> QED BY <3>1, <1>r
  <2>8. CASE Settles(q, row)
    BY <2>4, <2>8
  <2> QED BY <1>2, <2>1, <2>5, <2>6, <2>7, <2>8 DEF AnswerShape
<1>3. CASE Rests \/ Restarts \/ \E t \in Topics : Deletes(t)
  <2>1. /\ \A i \in Ids : row'[i].answer = row[i].answer
        /\ \A q \in Reqs : handler'[q] = handler[q] \/ handler'[q].at = "idle"
    BY <1>3 DEF Rests, Restarts, Deletes
  <2> QED BY <2>1, <1>a, <1>r
<1> QED BY <1>1, <1>2, <1>3 DEF Shape

\* No answer is recorded on two rows, or on a row of another subject, whichever rows
\* fall back, however long the handler that picked the row waits; threads, which share
\* one fallback, count as one subject.
THEOREM AnswersOwnSubjectHolds == Spec => []AnswersOwnSubject
<1>1. Init => WireInv /\ AnswerInv /\ EndedInv
  <2> SUFFICES ASSUME Init PROVE AnswerInv /\ EndedInv
    BY WireInit
  <2>1. /\ \A q \in Reqs : handler[q].at = "idle"
        /\ \A i \in Ids : row[i].answer = None
    BY FirstTyped DEF Init, NoRow
  <2> QED BY <2>1 DEF AnswerInv, EndedInv
<1>2. WireInv /\ AnswerInv /\ EndedInv /\ [Next]_vars => (WireInv /\ AnswerInv /\ EndedInv)'
  BY WireStep, AnswerStep, EndedStep
<1>3. AnswerInv /\ EndedInv => AnswersOwnSubject
  BY DEF AnswerInv, EndedInv, AnswersOwnSubject, SameSubject, Own
<1> QED BY <1>1, <1>2, <1>3, PTL DEF Spec

-----------------------------------------------------------------------------
(* A retry's answer lands.  While an answer is awaited or graded, some row names
   its request; the row follows the retry, and a retry is not retried, so its
   handler finds that row, and keeps it when it waits once more to store. *)

Awaited(q) == run[q].status = "pending" \/ handler[q].at \in {"grading", "retrying"}

FollowInv ==
    /\ \A q \in Reqs : Awaited(q) /\ KindOf[run[q].topic] \in Repointed => \E i \in Ids : row[i].req = q
    /\ \A q \in Reqs :
          handler[q].at = "storing" /\ run[q].retryOf # None /\ KindOf[run[q].topic] \in Repointed
          => row[handler[q].row].req = q

\* The row that names a request of a flow that repoints is there, and the only owner.
LEMMA NamedOwns ==
  ASSUME WireInv, NEW q \in Reqs, KindOf[run[q].topic] \in Repointed, NEW i \in Ids, row[i].req = q
  PROVE  OwnersOf(row, q) = {i} /\ row[i].status # "deleted" /\ KindOf[row[i].topic] \in Repointed
<1>1. row[i].req # None /\ run[q].topic = row[i].topic
  BY IdsAreNat DEF WireInv, WireRows
<1>2. row[i].status # "deleted"
  BY <1>1 DEF WireInv, WireRows, Repointed
<1>3. KindOf[row[i].topic] = run[q].kind /\ \A j \in Ids : row[j].req = q => i = j
  BY <1>1, WireFacts DEF LinkInv
<1> QED BY <1>1, <1>2, <1>3, OwnerIsRow

LEMMA FollowStep == WireInv /\ FollowInv /\ Shape => FollowInv'
<1> SUFFICES ASSUME WireInv, FollowInv, Shape PROVE FollowInv'
  OBVIOUS
<1> USE IdsAreNat
<1>i. TypeOK /\ HeldInv /\ GradeInv /\ WireDispatches /\ WireRuns
  BY WireFacts DEF WireInv
<1>a. \A q \in Reqs : (Awaited(q) => run[q].status \in {"pending", "completed"})
                      /\ (handler[q].at # "idle" => run[q].status = "completed")
  BY <1>i DEF Awaited, GradeInv
\* A step that keeps the requests on the rows.
<1>k. ASSUME \A i \in Ids : row[i].req # None => row'[i].req = row[i].req,
             \A q \in Reqs : Awaited(q)' => Awaited(q),
             \A q \in Reqs : handler'[q].at = "storing" =>
                \/ handler'[q] = handler[q]
                \/ /\ Awaited(q) /\ handler'[q].row \in OwnersOf(row, q) /\ row' = row
      PROVE  FollowInv'
  <2>1. ASSUME NEW q \in Reqs, Awaited(q)', KindOf[run'[q].topic] \in Repointed
        PROVE  \E i \in Ids : row'[i].req = q
    <3>1. Awaited(q)
      BY <1>k, <2>1
    <3>2. run'[q].topic = run[q].topic
      BY <3>1, <1>a, RunsKept DEF SameRun
    <3>3. PICK i \in Ids : row[i].req = q
      BY <2>1, <3>1, <3>2 DEF FollowInv
    <3> QED BY <3>3, <1>k
  <2>2. ASSUME NEW q \in Reqs, handler'[q].at = "storing", run'[q].retryOf # None, KindOf[run'[q].topic] \in Repointed
        PROVE  row'[handler'[q].row].req = q
    <3>1. run[q].status # "none"
      BY <1>a, <1>k, <2>2
    <3>2. run[q].retryOf # None /\ KindOf[run[q].topic] \in Repointed
      BY <2>2, <3>1, RunsKept DEF SameRun
    <3>3. CASE handler'[q] = handler[q]
      <4>1. handler[q].row \in Ids /\ row[handler[q].row].req = q
        BY <2>2, <3>2, <3>3, WireFacts DEF FollowInv
      <4> QED BY <3>3, <4>1, <1>k
    <3>4. CASE Awaited(q) /\ handler'[q].row \in OwnersOf(row, q) /\ row' = row
      <4>1. PICK i \in Ids : row[i].req = q
        BY <3>2, <3>4 DEF FollowInv
      <4>2. OwnersOf(row, q) = {i}
        BY <3>2, <4>1, NamedOwns
      <4> QED BY <3>4, <4>1, <4>2
    <3> QED BY <2>2, <3>3, <3>4, <1>k
  <2> QED BY <2>1, <2>2 DEF FollowInv
<1>1. ASSUME NEW d \in Dispatches, DispatchShape(d) PROVE FollowInv'
  <2>1. handler' = handler
    BY <1>1 DEF DispatchShape, Passes, Closes, Opens, Sends, Records
  <2>2. CASE Passes(d) \/ Closes(d)
    <3>1. run' = run /\ \A i \in Ids : row'[i].req = row[i].req
      BY <2>2 DEF Passes, Closes
    <3> QED BY <2>1, <3>1, <1>k DEF Awaited
  <2>3. ASSUME NEW i \in Ids, Opens(d, i) PROVE FollowInv'
    <3>1. run' = run /\ row[i].status = "none" /\ \A j \in Ids : j # i => row'[j] = row[j]
      BY <2>3 DEF Opens
    <3>2. \A j \in Ids : row[j].req # None => row'[j].req = row[j].req
      BY <3>1, WireFacts
    <3> QED BY <2>1, <3>1, <3>2, <1>k DEF Awaited
  <2>4. ASSUME NEW q \in Reqs, Sends(d, q) PROVE FollowInv'
    <3>1. row' = row /\ run'[q].status = "posted" /\ \A p \in Reqs : p # q => run'[p] = run[p]
      BY <2>4 DEF Sends, Posts, OnlyRun
    <3>2. \A p \in Reqs : Awaited(p)' => Awaited(p)
      BY <2>1, <3>1 DEF Awaited
    <3> QED BY <2>1, <3>1, <3>2, <1>k
  <2>5. ASSUME NEW i \in Ids, NEW q \in Reqs, Records(d, i, q) PROVE FollowInv'
    <3>1. /\ row[i].req = None /\ row'[i].req = q /\ \A j \in Ids : j # i => row'[j] = row[j]
          /\ run[q].status = "posted" /\ \A p \in Reqs : p # q => run'[p] = run[p]
      BY <2>5, <1>i DEF Records, OnlyRun, WireDispatches, Holds
    <3>2. \A j \in Ids : row[j].req # None => row'[j].req = row[j].req
      BY <3>1
    <3>3. ASSUME NEW p \in Reqs, Awaited(p)', KindOf[run'[p].topic] \in Repointed
          PROVE  \E j \in Ids : row'[j].req = p
      <4>1. CASE p = q
        BY <3>1, <4>1
      <4>2. CASE p # q
        <5>1. Awaited(p) /\ KindOf[run[p].topic] \in Repointed
          BY <2>1, <3>1, <3>3, <4>2 DEF Awaited
        <5>2. PICK j \in Ids : row[j].req = p
          BY <5>1 DEF FollowInv
        <5> QED BY <3>2, <5>2
      <4> QED BY <4>1, <4>2
    <3>4. ASSUME NEW p \in Reqs, handler'[p].at = "storing", run'[p].retryOf # None, KindOf[run'[p].topic] \in Repointed
          PROVE  row'[handler'[p].row].req = p
      <4>1. handler[p].at = "storing" /\ handler'[p] = handler[p] /\ run[p].status = "completed"
        BY <2>1, <3>4, <1>a
      <4>2. run'[p] = run[p]
        BY <3>1, <4>1
      <4>3. handler[p].row \in Ids /\ row[handler[p].row].req = p
        BY <3>4, <4>1, <4>2, WireFacts DEF FollowInv
      <4> QED BY <3>2, <4>1, <4>3
    <3> QED BY <3>3, <3>4 DEF FollowInv
  <2> QED BY <1>1, <2>2, <2>3, <2>4, <2>5 DEF DispatchShape
<1>2. ASSUME NEW q \in Reqs, AnswerShape(q) PROVE FollowInv'
  <2>1. CASE Takes(q)
    <3>1. \A i \in Ids : row'[i].req = row[i].req
      BY <2>1 DEF Takes, Writes
    <3>2. \A p \in Reqs : Awaited(p)' => Awaited(p)
      BY <2>1 DEF Takes, Awaited, OnlyRun, OthersGrade
    <3>3. \A p \in Reqs : handler'[p].at = "storing" => handler'[p] = handler[p]
      BY <2>1 DEF Takes, OthersGrade
    <3> QED BY <3>1, <3>2, <3>3, <1>k
  <2>2. CASE Settles(q, row) /\ run' = run
    <3>1. \A i \in Ids : row'[i].req = row[i].req
      BY <2>2 DEF Settles, Writes
    <3>2. handler[q].at \in {"grading", "retrying"} /\ \A p \in Reqs : p # q => handler'[p] = handler[p]
      BY <2>2 DEF Settles, OthersGrade
    <3>3. \A p \in Reqs : Awaited(p)' => Awaited(p)
      BY <2>2, <3>2 DEF Awaited
    <3>4. handler'[q].at = "storing" => handler'[q].row \in OwnersOf(row, q) /\ row' = row
      BY <2>2 DEF Settles
    <3>5. \A p \in Reqs : handler'[p].at = "storing" =>
                \/ handler'[p] = handler[p]
                \/ Awaited(p) /\ handler'[p].row \in OwnersOf(row, p) /\ row' = row
      BY <3>2, <3>4 DEF Awaited
    <3> QED BY <3>1, <3>3, <3>5, <1>k
  <2>3. CASE Stores(q)
    <3>1. \A i \in Ids : row'[i].req = row[i].req
      BY <2>3 DEF Stores, Writes
    <3>2. /\ \A p \in Reqs : Awaited(p)' => Awaited(p)
          /\ \A p \in Reqs : handler'[p].at = "storing" => handler'[p] = handler[p]
      BY <2>3 DEF Stores, OthersGrade, Awaited
    <3> QED BY <3>1, <3>2, <1>k
  <2>4. ASSUME NEW n \in Reqs, Follows(q, n) PROVE FollowInv'
    <3> DEFINE R == FollowRetry(q, n)
    <3>1. /\ handler[q].at = "retrying" /\ run[q].status = "completed" /\ run[q].retryOf = None
          /\ run[n].topic = run[q].topic
      BY <2>4, <1>i, <1>a DEF Follows, WireRuns
    <3>2. /\ run[n].status = "posted" /\ run'[n].topic = run[n].topic /\ n # q
          /\ \A p \in Reqs : p # n => run'[p] = run[p]
          /\ \A p \in Reqs : p # q => handler'[p] = handler[p]
          /\ handler'[q].at \in {"idle", "storing"}
      BY <2>4, <3>1 DEF Follows, Settles, SameRun, OnlyRun, OthersGrade
    <3>3. \A i \in Ids : row'[i].req = R[i].req
      BY <2>4 DEF Follows, Settles, Writes
    <3>4. \A i \in Ids : row[i].req # None /\ row[i].req # q => R[i] = row[i]
      BY <1>i, FollowRows
    <3>5. ASSUME NEW i \in Ids, row[i].req = q, KindOf[run[q].topic] \in Repointed PROVE R[i].req = n
      <4>1. row[i].status # "deleted" /\ KindOf[row[i].topic] \in Repointed
        BY <3>5, NamedOwns
      <4> QED BY <3>5, <4>1, <1>i, FollowRows
    <3> HIDE DEF R
    <3>6. ASSUME NEW p \in Reqs, Awaited(p)', KindOf[run'[p].topic] \in Repointed
          PROVE  \E i \in Ids : row'[i].req = p
      <4>1. CASE p = n
        <5>1. Awaited(q) /\ KindOf[run[q].topic] \in Repointed
          BY <3>1, <3>2, <3>6, <4>1 DEF Awaited
        <5>2. PICK i \in Ids : row[i].req = q
          BY <5>1 DEF FollowInv
        <5> QED BY <5>1, <5>2, <3>3, <3>5, <4>1
      <4>2. CASE p # n
        <5>1. p # q
          BY <3>1, <3>2, <3>6, <4>2 DEF Awaited
        <5>2. Awaited(p) /\ KindOf[run[p].topic] \in Repointed
          BY <3>2, <3>6, <4>2, <5>1 DEF Awaited
        <5>3. PICK i \in Ids : row[i].req = p
          BY <5>2 DEF FollowInv
        <5> QED BY <5>1, <5>3, <3>3, <3>4
      <4> QED BY <4>1, <4>2
    <3>7. ASSUME NEW p \in Reqs, handler'[p].at = "storing", run'[p].retryOf # None, KindOf[run'[p].topic] \in Repointed
          PROVE  row'[handler'[p].row].req = p
      <4>1. p # q
        BY <3>1, <3>2, <3>7
      <4>2. handler[p].at = "storing" /\ handler'[p] = handler[p] /\ run[p].status = "completed"
        BY <3>2, <3>7, <4>1, <1>a
      <4>3. run'[p] = run[p]
        BY <3>2, <4>2
      <4>4. handler[p].row \in Ids /\ row[handler[p].row].req = p
        BY <3>7, <4>2, <4>3, WireFacts DEF FollowInv
      <4> QED BY <3>3, <3>4, <4>1, <4>2, <4>4
    <3> QED BY <3>6, <3>7 DEF FollowInv
  <2>5. ASSUME NEW n \in Reqs, SendsBack(q, n) PROVE FollowInv'
    <3>1. /\ row' = row /\ run'[n].status = "posted" /\ \A p \in Reqs : p # n => run'[p] = run[p]
          /\ handler[q].at = "grading" /\ handler'[q].at = "retrying" /\ \A p \in Reqs : p # q => handler'[p] = handler[p]
      BY <2>5 DEF SendsBack, Posts, OnlyRun, OthersGrade
    <3>2. \A p \in Reqs : Awaited(p)' => Awaited(p)
      BY <3>1 DEF Awaited
    <3> QED BY <3>1, <3>2, <1>k
  <2> QED BY <1>2, <2>1, <2>2, <2>3, <2>4, <2>5 DEF AnswerShape
<1>3. CASE Rests \/ Restarts \/ \E t \in Topics : Deletes(t)
  <2>1. /\ run' = run /\ \A i \in Ids : row'[i].req = row[i].req
        /\ \A q \in Reqs : handler'[q] = handler[q] \/ handler'[q].at = "idle"
    BY <1>3 DEF Rests, Restarts, Deletes
  <2>2. \A q \in Reqs : Awaited(q)' => Awaited(q)
    BY <2>1 DEF Awaited
  <2> QED BY <2>1, <2>2, <1>k
<1> QED BY <1>1, <1>2, <1>3 DEF Shape

LEMMA FollowInit == Init => FollowInv
<1> SUFFICES ASSUME Init PROVE FollowInv
  OBVIOUS
<1>1. \A q \in Reqs : handler[q].at = "idle" /\ run[q].status = "none"
  BY FirstTyped DEF Init
<1> QED BY <1>1 DEF FollowInv, Awaited

\* The step that ends a retry's handler writes its row.
LEMMA Lands ==
  ASSUME WireInv, FollowInv, Shape, NEW q \in Reqs,
         run[q].retryOf # None, KindOf[run[q].topic] \in Repointed,
         handler[q].at # "idle", handler'[q].at = "idle", crashes' = crashes
  PROVE  \E i \in Ids : row'[i].req = q /\ row'[i].answer = q
<1> USE IdsAreNat
<1>i. TypeOK /\ GradeInv /\ WireRuns
  BY WireFacts DEF WireInv
<1>1. ASSUME NEW i \in Ids, row[i].req = q, NEW S, i \in S, Writes(q, row, S)
      PROVE  \E j \in Ids : row'[j].req = q /\ row'[j].answer = q
  <2>1. row[i].status # "deleted"
    BY <1>1, NamedOwns
  <2>2. row'[i].req = q /\ row'[i].answer = q
    BY <1>1, <2>1 DEF Writes
  <2> QED BY <2>2
<1>2. CASE Settles(q, row)
  <2>1. Awaited(q)
    BY <1>2 DEF Settles, Awaited
  <2>2. PICK i \in Ids : row[i].req = q
    BY <2>1 DEF FollowInv
  <2>3. OwnersOf(row, q) = {i}
    BY <2>2, NamedOwns
  <2>4. Writes(q, row, {i})
    BY <1>2, <2>3 DEF Settles
  <2> QED BY <2>2, <2>4, <1>1
<1>3. CASE Stores(q)
  <2>1. handler[q].row \in Ids /\ row[handler[q].row].req = q
    BY <1>3, WireFacts DEF Stores, FollowInv
  <2> QED BY <1>3, <2>1, <1>1 DEF Stores
<1>4. ~Takes(q) /\ \A n \in Reqs : ~SendsBack(q, n) /\ ~Follows(q, n)
  BY <1>i DEF Takes, SendsBack, Follows, GradeInv, WireRuns
<1>5. AnswerShape(q)
  <2>1. handler'[q] # handler[q]
    OBVIOUS
  <2>2. \A d \in Dispatches : ~DispatchShape(d)
    BY <2>1 DEF DispatchShape, Passes, Closes, Opens, Sends, Records
  <2>3. \A p \in Reqs : p # q => ~AnswerShape(p)
    BY <2>1 DEF AnswerShape, Takes, Settles, Stores, Follows, SendsBack, OthersGrade
  <2>4. ~Rests /\ ~Restarts /\ \A t \in Topics : ~Deletes(t)
    BY <2>1 DEF Rests, Restarts, Deletes
  <2> QED BY <2>2, <2>3, <2>4 DEF Shape
<1> QED BY <1>2, <1>3, <1>4, <1>5 DEF AnswerShape

\* A row that is pointed at the retry keeps its subject, and whether it was forced.
LEMMA FollowKeeps ==
  ASSUME TypeOK, NEW q \in Reqs, NEW n \in Reqs, NEW i \in Ids
  PROVE  /\ FollowRetry(q, n)[i].topic = row[i].topic /\ FollowRetry(q, n)[i].forced = row[i].forced
         /\ \/ FollowRetry(q, n)[i] = row[i]
            \/ FollowRetry(q, n)[i].status = "pending" /\ row[i].req = q /\ FollowRetry(q, n)[i].req = n
<1>1. CASE FollowRetry(q, n)[i] = row[i]
  BY <1>1
<1>2. CASE FollowRetry(q, n)[i] # row[i]
  BY <1>2, FollowRows
<1> QED BY <1>1, <1>2

\* What it recorded stays: the row is not pending, so no fallback finds it, and it is named
\* by a request that is done with.  Only an answer that picked the row before, by the
\* fallback, can still write it.
LandedInv ==
    /\ \A i \in Ids :
          row[i].req # None /\ row[i].answer = row[i].req /\ run[row[i].req].retryOf # None => row[i].status # "pending"
    /\ \A q \in Reqs :
          handler[q].at = "storing" /\ run[q].kind \notin FallsBack => row[handler[q].row].req = q

LEMMA LandedStep == WireInv /\ EndedInv /\ LandedInv /\ Shape => LandedInv'
<1> SUFFICES ASSUME WireInv, EndedInv, LandedInv, Shape PROVE LandedInv'
  OBVIOUS
<1> USE IdsAreNat
<1>i. TypeOK /\ GradeInv /\ WireDispatches /\ WireRuns
  BY WireFacts DEF WireInv
<1>a. /\ \A i \in Ids : row[i].req # None => row[i].req \in Reqs /\ run[row[i].req].status # "none"
      /\ \A i \in Ids : row[i].answer # None => run[row[i].answer].status \in {"completed", "failed"}
      /\ \A q \in Reqs : handler[q].at = "storing" => handler[q].row \in Ids /\ run[q].status # "none"
  BY WireFacts DEF EndedInv, GradeInv
\* A step that leaves the pending rows' requests and answers, and that picks by name.
<1>k. ASSUME \A i \in Ids : row'[i].status = "pending" =>
                \/ row'[i].req = None \/ row'[i].answer # row'[i].req
                \/ row[i].status = "pending" /\ row'[i].req = row[i].req /\ row'[i].answer = row[i].answer,
             \A i \in Ids, p \in Reqs : row[i].req = p /\ handler[p].at = "storing" => row'[i].req = p,
             \A q \in Reqs : handler'[q].at = "storing" =>
                \/ handler'[q] = handler[q]
                \/ run[q].status # "none" /\ (run[q].kind \notin FallsBack => row'[handler'[q].row].req = q)
      PROVE  LandedInv'
  <2>1. ASSUME NEW i \in Ids, row'[i].req # None, row'[i].answer = row'[i].req, run'[row'[i].req].retryOf # None,
               row'[i].status = "pending"
        PROVE  FALSE
    <3>1. row[i].status = "pending" /\ row'[i].req = row[i].req /\ row'[i].answer = row[i].answer
      BY <1>k, <2>1
    <3>2. run[row[i].req].retryOf # None
      BY <1>a, <2>1, <3>1, RunsKept DEF SameRun
    <3> QED BY <2>1, <3>1, <3>2 DEF LandedInv
  <2>2. ASSUME NEW q \in Reqs, handler'[q].at = "storing", run'[q].kind \notin FallsBack
        PROVE  row'[handler'[q].row].req = q
    <3>1. CASE handler'[q] = handler[q]
      <4>1. handler[q].at = "storing" /\ handler[q].row \in Ids /\ run[q].status # "none"
        BY <1>a, <2>2, <3>1
      <4>2. run[q].kind \notin FallsBack
        BY <2>2, <4>1, RunsKept DEF SameRun
      <4>3. row[handler[q].row].req = q
        BY <4>1, <4>2 DEF LandedInv
      <4> QED BY <1>k, <3>1, <4>1, <4>3
    <3>2. CASE run[q].status # "none" /\ (run[q].kind \notin FallsBack => row'[handler'[q].row].req = q)
      BY <2>2, <3>2, RunsKept DEF SameRun
    <3> QED BY <1>k, <2>2, <3>1, <3>2
  <2> QED BY <2>1, <2>2 DEF LandedInv
<1>1. ASSUME NEW d \in Dispatches, DispatchShape(d) PROVE LandedInv'
  <2>1. handler' = handler
    BY <1>1 DEF DispatchShape, Passes, Closes, Opens, Sends, Records
  <2>2. CASE Passes(d) \/ Closes(d) \/ \E q \in Reqs : Sends(d, q)
    <3>1. \A i \in Ids : /\ row'[i].req = row[i].req
                         /\ row'[i] = row[i] \/ row'[i].status # "pending"
      BY <2>2 DEF Passes, Closes, Sends
    <3> QED BY <2>1, <3>1, <1>k
  <2>3. ASSUME NEW o \in Ids, Opens(d, o) PROVE LandedInv'
    <3>1. row[o].status = "none" /\ row'[o].req = None /\ \A j \in Ids : j # o => row'[j] = row[j]
      BY <2>3 DEF Opens
    <3>2. row[o].req = None
      BY <3>1, WireFacts
    <3> QED BY <2>1, <3>1, <3>2, <1>k
  <2>4. ASSUME NEW o \in Ids, NEW n \in Reqs, Records(d, o, n) PROVE LandedInv'
    <3>1. /\ row'[o].req = n /\ row'[o].answer = row[o].answer /\ run[n].status = "posted"
          /\ \A j \in Ids : j # o => row'[j] = row[j]
      BY <2>4 DEF Records
    <3>2. row[o].req = None
      BY <2>4, <1>i DEF Records, WireDispatches, Holds
    <3>3. row'[o].answer # row'[o].req
      BY <1>a, <3>1
    <3> QED BY <2>1, <3>1, <3>2, <3>3, <1>k
  <2> QED BY <1>1, <2>2, <2>3, <2>4 DEF DispatchShape
<1>2. ASSUME NEW q \in Reqs, AnswerShape(q) PROVE LandedInv'
  <2>1. CASE Takes(q) \/ Stores(q)
    <3>1. \A i \in Ids : /\ row'[i].req = row[i].req
                         /\ row'[i] = row[i] \/ row'[i].status # "pending"
      BY <2>1 DEF Takes, Stores, Writes
    <3>2. \A p \in Reqs : handler'[p].at = "storing" => handler'[p] = handler[p]
      BY <2>1 DEF Takes, Stores, OthersGrade
    <3> QED BY <3>1, <3>2, <1>k
  <2>2. ASSUME NEW n \in Reqs, SendsBack(q, n) PROVE LandedInv'
    <3>1. row' = row /\ \A p \in Reqs : handler'[p].at = "storing" => handler'[p] = handler[p]
      BY <2>2 DEF SendsBack, OthersGrade
    <3> QED BY <3>1, <1>k
  <2>3. ASSUME NEW R, Settles(q, R)
        PROVE  /\ \A i \in Ids : row'[i] = R[i] \/ (row'[i].status # "pending" /\ row'[i].req = R[i].req)
               /\ \A p \in Reqs : handler'[p].at = "storing" =>
                     \/ handler'[p] = handler[p]
                     \/ run[p].status # "none" /\ (run[p].kind \notin FallsBack => row'[handler'[p].row].req = p)
    <3>1. \A i \in Ids : row'[i] = R[i] \/ (row'[i].status # "pending" /\ row'[i].req = R[i].req)
      BY <2>3 DEF Settles, Writes
    <3>2. run[q].status # "none" /\ \A p \in Reqs : p # q => handler'[p] = handler[p]
      BY <2>3, <1>i DEF Settles, OthersGrade, GradeInv
    <3>3. handler'[q].at = "storing" /\ run[q].kind \notin FallsBack => row'[handler'[q].row].req = q
      <4>1. handler'[q].at = "storing" => handler'[q].row \in OwnersOf(R, q) /\ row' = R
        BY <2>3 DEF Settles
      <4> QED BY <4>1, OwnersAre
    <3> QED BY <3>1, <3>2, <3>3
  <2>4. CASE Settles(q, row)
    <3>1. \A i \in Ids : row'[i] = row[i] \/ (row'[i].status # "pending" /\ row'[i].req = row[i].req)
      BY <2>3, <2>4
    <3>2. \A p \in Reqs : handler'[p].at = "storing" =>
                     \/ handler'[p] = handler[p]
                     \/ run[p].status # "none" /\ (run[p].kind \notin FallsBack => row'[handler'[p].row].req = p)
      BY <2>3, <2>4
    <3> QED BY <3>1, <3>2, <1>k
  <2>5. ASSUME NEW n \in Reqs, Follows(q, n) PROVE LandedInv'
    <3> DEFINE R == FollowRetry(q, n)
    <3>1. run[n].status = "posted" /\ handler[q].at = "retrying" /\ Settles(q, R)
      BY <2>5 DEF Follows
    <3>2. ASSUME NEW i \in Ids
          PROVE  R[i] = row[i] \/ (row[i].req = q /\ R[i].req = n /\ R[i].answer = row[i].answer)
      BY <1>i, FollowRows
    <3> HIDE DEF R
    <3>3. \A i \in Ids : row'[i] = R[i] \/ (row'[i].status # "pending" /\ row'[i].req = R[i].req)
      BY <2>3, <3>1
    <3>4. \A p \in Reqs : handler'[p].at = "storing" =>
                     \/ handler'[p] = handler[p]
                     \/ run[p].status # "none" /\ (run[p].kind \notin FallsBack => row'[handler'[p].row].req = p)
      BY <2>3, <3>1
    <3>5. ASSUME NEW i \in Ids, row'[i].status = "pending"
          PROVE  \/ row'[i].answer # row'[i].req
                 \/ row[i].status = "pending" /\ row'[i].req = row[i].req /\ row'[i].answer = row[i].answer
      <4>1. row'[i] = R[i]
        BY <3>3, <3>5
      <4>2. row[i].answer # n
        BY <1>a, <3>1
      <4> QED BY <3>2, <3>5, <4>1, <4>2
    <3>6. \A i \in Ids, p \in Reqs : row[i].req = p /\ handler[p].at = "storing" => row'[i].req = p
      BY <3>1, <3>2, <3>3
    <3> QED BY <3>4, <3>5, <3>6, <1>k
  <2> QED BY <1>2, <2>1, <2>2, <2>4, <2>5 DEF AnswerShape
<1>3. CASE Rests \/ Restarts \/ \E t \in Topics : Deletes(t)
  <2>1. /\ \A i \in Ids : /\ row'[i].req = row[i].req
                          /\ row'[i] = row[i] \/ row'[i].status # "pending"
        /\ \A q \in Reqs : handler'[q] = handler[q] \/ handler'[q].at = "idle"
    BY <1>3 DEF Rests, Restarts, Deletes
  <2> QED BY <2>1, <1>k
<1> QED BY <1>1, <1>2, <1>3 DEF Shape

LEMMA LandedInit == Init => LandedInv /\ EndedInv
<1> SUFFICES ASSUME Init PROVE LandedInv /\ EndedInv
  OBVIOUS
<1>1. /\ \A q \in Reqs : handler[q].at = "idle"
      /\ \A i \in Ids : row[i].req = None /\ row[i].answer = None
  BY FirstTyped DEF Init, NoRow
<1> QED BY <1>1 DEF LandedInv, EndedInv

LEMMA Stays ==
  ASSUME WireInv, EndedInv, LandedInv, Shape, NEW q \in Reqs, NEW i \in Ids,
         run[q].retryOf # None, KindOf[run[q].topic] \in Repointed, row[i].req = q, row[i].answer = q
  PROVE  row'[i] = row[i] \/ HeldByTierCheck(i)
<1> USE IdsAreNat
<1>i. TypeOK /\ GradeInv /\ WireRuns /\ WireDispatches
  BY WireFacts DEF WireInv
<1>1. /\ row[i].status \notin {"none", "pending", "deleted"} /\ KindOf[row[i].topic] \in Repointed
      /\ run[q].status \in {"completed", "failed"} /\ handler[q].at = "idle"
  BY NamedOwns, WireFacts DEF LandedInv, EndedInv
\* Nobody owns it but its request, which is done with.
<1>2. ASSUME NEW p \in Reqs, p # q, NEW R, R[i] = row[i] PROVE i \notin OwnersOf(R, p)
  BY <1>1, <1>2, OwnersAre
<1>3. ASSUME NEW d \in Dispatches, DispatchShape(d) PROVE row'[i] = row[i]
  <2>1. Holds(dispatch[d]) => i # dispatch[d].row
    BY <1>i DEF WireDispatches
  <2> QED BY <1>1, <1>3, <2>1 DEF DispatchShape, Passes, Closes, Opens, Sends, Records, Holds
<1>4. ASSUME NEW p \in Reqs, AnswerShape(p) PROVE row'[i] = row[i] \/ HeldByTierCheck(i)
  <2>1. CASE Takes(p)
    <3>1. p # q
      BY <1>1, <2>1 DEF Takes
    <3> QED BY <1>2, <2>1, <3>1 DEF Takes, Writes
  <2>2. CASE Settles(p, row)
    <3>1. p # q
      BY <1>1, <2>2 DEF Settles
    <3> QED BY <1>2, <2>2, <3>1 DEF Settles, Writes
  <2>3. ASSUME NEW n \in Reqs, Follows(p, n) PROVE row'[i] = row[i]
    <3>1. p # q
      BY <1>1, <2>3 DEF Follows
    <3>2. FollowRetry(p, n)[i] = row[i]
      <4>1. row[i].req # p
        BY <3>1
      <4>2. FollowRetry(p, n)[i] = row[i] \/ row[i].req = p
        BY <1>i, FollowKeeps
      <4> QED BY <4>1, <4>2
    <3>3. i \notin OwnersOf(FollowRetry(p, n), p)
      BY <1>2, <3>1, <3>2
    <3> QED BY <2>3, <3>2, <3>3 DEF Follows, Settles, Writes
  <2>4. CASE Stores(p)
    <3>1. handler[p].at = "storing" /\ p # q
      BY <1>1, <2>4 DEF Stores
    <3>2. CASE handler[p].row # i
      BY <2>4, <3>2 DEF Stores, Writes
    <3>3. CASE handler[p].row = i
      <4>1. run[p].kind \in FallsBack
        BY <3>1, <3>3 DEF LandedInv
      <4> QED BY <3>1, <3>3, <4>1 DEF HeldByTierCheck
    <3> QED BY <3>2, <3>3
  <2>5. ASSUME NEW n \in Reqs, SendsBack(p, n) PROVE row'[i] = row[i]
    BY <2>5 DEF SendsBack
  <2> QED BY <1>4, <2>1, <2>2, <2>3, <2>4, <2>5 DEF AnswerShape
<1>5. CASE Rests \/ Restarts \/ \E t \in Topics : Deletes(t)
  <2>1. KindOf[row[i].topic] # "thread_chat"
    BY <1>1 DEF Repointed
  <2> QED BY <1>5, <2>1 DEF Rests, Restarts, Deletes
<1> QED BY <1>3, <1>4, <1>5 DEF Shape

\* Unless a restart kills it, the handler of a retry's answer leaves it on the row that
\* follows the retry, for every flow whose row does; and there it stays, but for an
\* incident's row that the tier check of another answer holds (completeIncident).
THEOREM RetryAnswerLandsHolds == Spec => RetryAnswerLands
<1> DEFINE LandsInv == WireInv /\ FollowInv /\ EndedInv /\ LandedInv
<1>1. Init => LandsInv
  BY WireInit, FollowInit, LandedInit
<1>2. LandsInv /\ [Next]_vars => LandsInv'
  BY WireStep, FollowStep, EndedStep, LandedStep
<1>3. LandsInv /\ [Next]_vars =>
        [\A q \in Reqs :
          run[q].retryOf # None /\ KindOf[run[q].topic] \in Repointed =>
             /\ handler[q].at # "idle" /\ handler'[q].at = "idle" /\ crashes' = crashes
                   => \E i \in Ids : row'[i].req = q /\ row'[i].answer = q
             /\ \A i \in Ids :
                   row[i].req = q /\ row[i].answer = q => row'[i] = row[i] \/ HeldByTierCheck(i)]_vars
  BY WireStep, Lands, Stays
<1> HIDE DEF LandsInv
<1> QED BY <1>1, <1>2, <1>3, PTL DEF Spec, RetryAnswerLands

-----------------------------------------------------------------------------
(* One unforced row in flight.  A row becomes pending when it is opened, which wants
   none in flight, or when it follows a retry; then it was pending already, for
   nothing writes a row whose request is still awaited but the answer itself.  That
   needs the fallback to find only the row it would have found by name, which a
   forced second investigation breaks, and where the check sees the newest row only,
   that this is the pending one: hence Single. *)

CheckedInv == \A d \in Dispatches : dispatch[d].at = "checked" => KindOf[dispatch[d].topic] \in ChecksEarly

NamedPending(t) ==
    \A i \in Ids, q \in Reqs :
        row[i].topic = t /\ row[i].req = q /\ run[q].retryOf = None /\ Awaited(q) => row[i].status = "pending"
HeldPending(t) ==
    \A d \in Dispatches : Holds(dispatch[d]) /\ dispatch[d].topic = t => row[dispatch[d].row].status = "pending"
\* A row picked to be stored later is its request's own, or follows its retry.
PickedNamed(t) ==
    \A q \in Reqs : handler[q].at = "storing" /\ row[handler[q].row].topic = t =>
        /\ row[handler[q].row].req # None
        /\ row[handler[q].row].req = q \/ run[row[handler[q].row].req].retryOf # None
OnePending(t) ==
    \A i, j \in Ids :
        /\ row[i].status = "pending" /\ row[i].topic = t /\ ~row[i].forced
        /\ row[j].status = "pending" /\ row[j].topic = t /\ ~row[j].forced
        => i = j
\* Where the newest row decides, a pending one is the newest.
NewestPending(t) ==
    KindOf[t] \in LooksAtNewest =>
        \A i, j \in Ids :
            /\ row[i].status = "pending" /\ row[i].topic = t /\ ~row[i].forced
            /\ row[j].status # "none" /\ row[j].topic = t
            => j <= i
SingleInv ==
    \A t \in Topics : Single(t) =>
        NamedPending(t) /\ HeldPending(t) /\ PickedNamed(t) /\ OnePending(t) /\ NewestPending(t)
\* Ids are given out in order.
OrderInv == \A i, j \in Ids : row[i].status # "none" /\ j < i => row[j].status # "none"
FlightInv == WireInv /\ AnswerInv /\ FollowInv /\ CheckedInv /\ OrderInv /\ SingleInv

LEMMA CheckedStep == CheckedInv /\ Shape => CheckedInv'
<1> SUFFICES ASSUME CheckedInv, Shape PROVE CheckedInv'
  OBVIOUS
<1>1. ASSUME NEW d \in Dispatches, DispatchShape(d) PROVE CheckedInv'
  <2>1. \A e \in Dispatches : e # d => dispatch'[e] = dispatch[e]
    BY <1>1 DEF DispatchShape, Passes, Closes, Opens, Sends, Records, OthersWait
  <2>2. dispatch'[d].at = "checked" => KindOf[dispatch'[d].topic] \in ChecksEarly
    BY <1>1 DEF DispatchShape, Passes, Closes, Opens, Sends, Records
  <2> QED BY <2>1, <2>2 DEF CheckedInv
<1>2. ASSUME dispatch' = dispatch PROVE CheckedInv'
  BY <1>2 DEF CheckedInv
<1>3. CASE Restarts
  BY <1>3 DEF CheckedInv, Restarts
<1> QED BY <1>1, <1>2, <1>3 DEF Shape, Rests, Deletes, AnswerShape, Takes, Settles, Stores, Follows, SendsBack

\* A forced row stays forced, so a subject that is Single after a step was before it.
LEMMA SingleBefore ==
  ASSUME WireInv, Shape, NEW t \in Topics, Single(t)'
  PROVE  Single(t)
<1>1. NoRow.forced = FALSE
  BY DEF NoRow
<1>2. ASSUME NEW i \in Ids, row[i].topic = t, row[i].forced PROVE row'[i].topic = t /\ row'[i].forced
  <2>1. row[i].status # "none"
    BY <1>1, <1>2 DEF WireInv, WireRows
  <2> QED BY <1>2, <2>1, RowsKept, WireFacts
<1> QED BY <1>2 DEF Single

LEMMA SingleAfter ==
  ASSUME NEW t \in Topics, Single(t)', KindOf[t] \in LooksAtNewest, NEW i \in Ids, row'[i].topic = t
  PROVE  ~row'[i].forced
  BY DEF Single

\* The subjects that can be Single.
LEMMA SingleKinds ==
  ASSUME NEW t \in Topics, Single(t)
  PROVE  /\ KindOf[t] \in {"incident", "observe", "usage"}
         /\ KindOf[t] = "incident" \/ KindOf[t] \in LooksAtNewest =>
               \A i \in Ids : row[i].topic = t => ~row[i].forced
  BY AgentRunsAssumption DEF AgentRunsAssumption, Single, AllKinds, ChecksEarly, NeverChecks, FallsBack

\* A fallback to a row of a Single subject is an incident's, by a request about it.
LEMMA FallbackOnIncident ==
  ASSUME WireInv, NEW t \in Topics, Single(t), NEW q \in Reqs, run[q].status # "none",
         run[q].kind \in FallsBack, t \in Siblings(run[q].topic)
  PROVE  run[q].topic = t /\ KindOf[t] = "incident"
<1>1. run[q].topic \in Topics /\ (run[q].kind = KindOf[run[q].topic] \/ run[q].kind = "observe")
  BY WireFacts DEF WireInv, WireRuns, TypeOK, RunType
<1>2. run[q].kind = KindOf[run[q].topic]
  BY <1>1 DEF FallsBack
<1>3. KindOf[run[q].topic] # "thread_chat"
  BY SingleKinds DEF Siblings
<1>4. run[q].topic = t
  BY <1>3 DEF Siblings
<1> QED BY <1>2, <1>4, SingleKinds DEF FallsBack

\* While an answer is awaited, the only row of a Single subject it is for names it.
LEMMA OwnerNamesIt ==
  ASSUME WireInv, FollowInv, NEW t \in Topics, Single(t), NEW q \in Reqs, Awaited(q),
         NEW i \in OwnersOf(row, q), row[i].topic = t
  PROVE  i \in Ids /\ row[i].req = q
<1>1. run[q].status # "none"
  BY WireFacts DEF Awaited, GradeInv
<1>2. CASE row[i].req # q
  <2>1. run[q].topic = t /\ KindOf[t] = "incident"
    BY <1>1, <1>2, OwnersAre, FallbackOnIncident
  <2>2. KindOf[run[q].topic] \in Repointed
    BY <2>1 DEF Repointed
  <2>3. PICK j \in Ids : row[j].req = q
    BY <2>2 DEF FollowInv
  <2>4. OwnersOf(row, q) = {j}
    BY <2>2, <2>3, NamedOwns
  <2> QED BY <1>2, <2>3, <2>4
<1> QED BY <1>2, OwnersAre

\* Also when the first answer is completed after its row was pointed at the retry: the
\* fallback then finds that row, the only one pending.
LEMMA FollowerNamesIt ==
  ASSUME WireInv, FollowInv, NEW t \in Topics, Single(t), NamedPending(t), OnePending(t),
         NEW q \in Reqs, NEW n \in Reqs, Follows(q, n),
         NEW i \in OwnersOf(FollowRetry(q, n), q), row[i].topic = t
  PROVE  i \in Ids /\ row[i].req = q
<1> DEFINE R == FollowRetry(q, n)
<1>i. TypeOK /\ GradeInv /\ WireRuns
  BY WireFacts DEF WireInv
<1>1. handler[q].at = "retrying" /\ run[q].retryOf = None /\ run[q].status # "none" /\ Awaited(q) /\ n # q
  BY <1>i DEF Follows, WireRuns, GradeInv, Awaited
<1>2. i \in Ids
  BY OwnersAre
<1>3. /\ R[i].topic = t
      /\ R[i] = row[i] \/ row[i].req = q
  BY <1>2, <1>i, FollowRows
<1>4. ASSUME row[i].req # q PROVE FALSE
  <2>1. R[i] = row[i]
    BY <1>3, <1>4
  <2>2. row[i].status = "pending" /\ row[i].topic \in Siblings(run[q].topic) /\ run[q].kind \in FallsBack
    BY <1>4, <2>1, OwnersAre
  <2>3. run[q].topic = t /\ KindOf[t] = "incident"
    BY <1>1, <2>2, FallbackOnIncident
  <2>4. PICK j \in Ids : row[j].req = q
    BY <1>1, <2>3 DEF FollowInv, Repointed
  <2>5. row[j].topic = t
    BY <2>3, <2>4, IdsAreNat DEF WireInv, WireRows
  <2>6. row[j].status = "pending"
    BY <1>1, <2>4, <2>5 DEF NamedPending
  <2>7. ~row[i].forced /\ ~row[j].forced
    BY <1>2, <2>3, <2>5, SingleKinds
  <2>8. i = j
    BY <1>2, <2>2, <2>5, <2>6, <2>7 DEF OnePending
  <2> QED BY <1>4, <2>4, <2>8
<1> QED BY <1>2, <1>4

\* What every step of the two lemmas below starts from, for one Single subject.
LEMMA FlightFacts ==
  ASSUME FlightInv, NEW t \in Topics, Single(t)
  PROVE  /\ WireInv /\ FollowInv /\ CheckedInv /\ TypeOK /\ HeldInv /\ GradeInv /\ WireDispatches /\ WireRuns
         /\ NamedPending(t) /\ HeldPending(t) /\ PickedNamed(t) /\ OnePending(t) /\ NewestPending(t)
         /\ \A i \in Ids : row[i].status = "none" => row[i].req = None
         /\ \A q \in Reqs : handler[q].at = "storing" =>
               handler[q].row \in Ids /\ row[handler[q].row].status # "none" /\ run[q].status = "completed"
         /\ \A i \in Ids, q \in Reqs : row[i].req = q => run[q].status \notin {"none", "posted"} /\ row[i].status # "none"
  BY WireFacts, IdsAreNat DEF FlightInv, SingleInv, WireInv, AnswerInv, GradeInv

\* The newest row decides, but what it stops at are the rows in flight.
LEMMA ClearWay ==
  ASSUME NEW t \in Topics, Single(t), NewestPending(t), InTheWay(t) = {}
  PROVE  InFlight(t) = {}
<1>1. CASE KindOf[t] \notin LooksAtNewest
  BY <1>1 DEF InTheWay
<1>2. CASE KindOf[t] \in LooksAtNewest
  <2>1. ASSUME NEW i \in InFlight(t) PROVE i \in InTheWay(t)
    <3>1. i \in Ids /\ row[i].status = "pending" /\ row[i].topic = t /\ ~row[i].forced
      BY <1>2, SingleKinds DEF InFlight, RowsOf
    <3>2. \A j \in RowsOf(t) : j <= i
      BY <1>2, <3>1 DEF NewestPending, RowsOf
    <3> QED BY <3>1, <3>2 DEF InTheWay, IsNewest, InFlight
  <2> QED BY <2>1
<1> QED BY <1>1, <1>2

\* A row is opened by a dispatch only.
LEMMA OnlyOpens ==
  ASSUME WireInv, AnswerInv, Shape, \A d \in Dispatches, i \in Ids : ~Opens(d, i)
  PROVE  \A i \in Ids : row[i].status = "none" => row'[i].status = "none"
<1> SUFFICES ASSUME NEW i \in Ids, row[i].status = "none" PROVE row'[i].status = "none"
  OBVIOUS
<1>1. ASSUME NEW d \in Dispatches, DispatchShape(d) PROVE row'[i].status = "none"
  <2>1. Holds(dispatch[d]) => i # dispatch[d].row
    BY WireFacts
  <2> QED BY <1>1, <2>1 DEF DispatchShape, Passes, Closes, Sends, Records, Holds
<1>2. ASSUME NEW q \in Reqs, AnswerShape(q) PROVE row'[i].status = "none"
  <2>1. CASE Takes(q)
    <3>1. i \notin OwnersOf(row, q)
      BY OwnersOwn
    <3> QED BY <2>1, <3>1 DEF Takes, Writes
  <2>2. CASE Settles(q, row)
    <3>1. i \notin OwnersOf(row, q)
      BY OwnersOwn
    <3> QED BY <2>2, <3>1 DEF Settles, Writes
  <2>3. CASE Stores(q)
    <3>1. i # handler[q].row
      BY <2>3 DEF Stores, AnswerInv
    <3> QED BY <2>3, <3>1 DEF Stores, Writes
  <2>4. ASSUME NEW n \in Reqs, Follows(q, n) PROVE row'[i].status = "none"
    <3>1. i \notin OwnersOf(FollowRetry(q, n), q)
      BY <2>4, OwnersOwn
    <3>2. row[i].req # q
      BY IdsAreNat, WireFacts
    <3>3. FollowRetry(q, n)[i] = row[i]
      BY <3>2, WireFacts, FollowRows
    <3> QED BY <2>4, <3>1, <3>3 DEF Follows, Settles, Writes
  <2>5. ASSUME NEW n \in Reqs, SendsBack(q, n) PROVE row'[i].status = "none"
    BY <2>5 DEF SendsBack
  <2> QED BY <1>2, <2>1, <2>2, <2>3, <2>4, <2>5 DEF AnswerShape
<1> QED BY <1>1, <1>2 DEF Shape, Rests, Restarts, Deletes

LEMMA OrderStep == WireInv /\ AnswerInv /\ OrderInv /\ Shape => OrderInv'
<1> SUFFICES ASSUME WireInv, AnswerInv, OrderInv, Shape PROVE OrderInv'
  OBVIOUS
<1>1. \A i \in Ids : row[i].status # "none" => row'[i].status # "none"
  BY WireFacts, RowsKept
<1>2. ASSUME NEW d \in Dispatches, NEW o \in Ids, Opens(d, o) PROVE OrderInv'
  <2>1. \A j \in Ids : j < o => row[j].status # "none"
    <3>1. \A j \in Ids : row[j].status = "none" => o <= j
      BY <1>2 DEF Opens
    <3> QED BY <3>1, IdsAreNat
  <2>2. \A i \in Ids : i # o /\ row'[i].status # "none" => row[i].status # "none"
    BY <1>2 DEF Opens
  <2> QED BY <1>1, <2>1, <2>2 DEF OrderInv
<1>3. CASE \A d \in Dispatches, i \in Ids : ~Opens(d, i)
  BY <1>1, <1>3, OnlyOpens DEF OrderInv
<1> QED BY <1>2, <1>3

\* A row that is opened is the newest of its subject, and it is opened when the newest
\* was not pending; a row is pending again by a retry only if it was before.
LEMMA NewestStep ==
  ASSUME FlightInv, Shape, NEW t \in Topics, Single(t), Single(t)'
  PROVE  NewestPending(t)'
<1> USE IdsAreNat, FlightFacts
<1> SUFFICES ASSUME KindOf[t] \in LooksAtNewest PROVE NewestPending(t)'
  BY DEF NewestPending
<1>o. \A i \in Ids : row[i].status # "none" => row'[i].topic = row[i].topic /\ row'[i].forced = row[i].forced
  BY RowsKept
<1>1. ASSUME NEW d \in Dispatches, NEW o \in Ids, Opens(d, o) PROVE NewestPending(t)'
  <2>1. \A j \in Ids : j # o => row'[j] = row[j]
    BY <1>1 DEF Opens
  <2>2. CASE row'[o].topic # t
    BY <2>1, <2>2 DEF NewestPending
  <2>3. CASE row'[o].topic = t
    <3>1. ~row'[o].forced
      BY <2>3, SingleAfter
    <3>2. InTheWay(t) = {}
      BY <1>1, <2>3, <3>1, SingleKinds DEF Opens, CheckedInv, ChecksEarly, NeverChecks, FlightInv
    <3>3. InFlight(t) = {}
      BY <3>2, ClearWay
    <3>4. \A j \in Ids : row[j].status = "pending" => row[j].topic # t
      BY <3>3 DEF InFlight, RowsOf
    <3>5. \A j \in Ids : j # o /\ row'[j].status # "none" => j <= o
      BY <1>1, <2>1 DEF Opens, FlightInv, OrderInv
    <3>6. o <= o
      OBVIOUS
    <3>7. ASSUME NEW i \in Ids, NEW j \in Ids, row'[i].status = "pending", row'[i].topic = t,
                 row'[j].status # "none", row'[j].topic = t
          PROVE  j <= i
      <4>1. i = o
        BY <2>1, <3>4, <3>7
      <4> QED BY <3>5, <3>6, <3>7, <4>1
    <3> QED BY <3>7 DEF NewestPending
  <2> QED BY <2>2, <2>3
<1>2. CASE \A d \in Dispatches, i \in Ids : ~Opens(d, i)
  <2>1. \A i \in Ids : row'[i].status # "none" => row[i].status # "none"
    BY <1>2, OnlyOpens DEF FlightInv
  <2>2. ASSUME NEW i \in Ids, row'[i].status = "pending", row[i].topic = t PROVE row[i].status = "pending"
    <3>1. CASE \E d \in Dispatches : DispatchShape(d)
      BY <1>2, <2>2, <3>1 DEF DispatchShape, Passes, Closes, Sends, Records
    <3>2. ASSUME NEW q \in Reqs, AnswerShape(q) PROVE row[i].status = "pending"
      <4>1. CASE Takes(q) \/ Settles(q, row) \/ Stores(q)
        BY <2>2, <4>1 DEF Takes, Settles, Stores, Writes
      <4>2. ASSUME NEW n \in Reqs, SendsBack(q, n) PROVE row[i].status = "pending"
        BY <2>2, <4>2 DEF SendsBack
      <4>3. ASSUME NEW n \in Reqs, Follows(q, n) PROVE row[i].status = "pending"
        <5>1. FollowRetry(q, n)[i].status = "pending"
          BY <2>2, <4>3 DEF Follows, Settles, Writes
        <5>2. FollowRetry(q, n)[i] = row[i] \/ row[i].req = q
          <6>1. TypeOK
            OBVIOUS
          <6> QED BY <6>1, FollowKeeps
        <5>3. run[q].retryOf = None /\ Awaited(q)
          BY <4>3 DEF Follows, WireRuns, Awaited
        <5> QED BY <2>2, <5>1, <5>2, <5>3 DEF NamedPending
      <4> QED BY <3>2, <4>1, <4>2, <4>3 DEF AnswerShape
    <3>3. CASE Rests \/ Restarts \/ \E u \in Topics : Deletes(u)
      BY <2>2, <3>3 DEF Rests, Restarts, Deletes
    <3> QED BY <3>1, <3>2, <3>3 DEF Shape
  <2>3. ASSUME NEW i \in Ids, NEW j \in Ids, row'[i].status = "pending", row'[i].topic = t, ~row'[i].forced,
               row'[j].status # "none", row'[j].topic = t
        PROVE  j <= i
    <3>1. row[i].status # "none" /\ row[j].status # "none"
      BY <2>1, <2>3
    <3>2. row[i].topic = t /\ ~row[i].forced /\ row[j].topic = t
      BY <1>o, <2>3, <3>1
    <3>3. row[i].status = "pending"
      BY <2>2, <2>3, <3>2
    <3> QED BY <3>1, <3>2, <3>3 DEF NewestPending
  <2> QED BY <2>3 DEF NewestPending
<1> QED BY <1>1, <1>2

\* A row that was picked is still its request's, or its retry's, while rows keep theirs.
LEMMA PickedKept ==
  ASSUME FlightInv, Shape, NEW t \in Topics, Single(t),
         \A i \in Ids : row[i].req # None =>
            row'[i].req = row[i].req \/ (row'[i].req # None /\ run'[row'[i].req].retryOf # None),
         \A q \in Reqs : handler'[q].at = "storing" =>
            \/ handler'[q] = handler[q]
            \/ /\ handler'[q].row \in Ids /\ row[handler'[q].row].status # "none"
               /\ row[handler'[q].row].topic = t => row[handler'[q].row].req = q
  PROVE  PickedNamed(t)'
<1> USE IdsAreNat, FlightFacts
<1>1. ASSUME NEW q \in Reqs, handler'[q].at = "storing", row'[handler'[q].row].topic = t
      PROVE  /\ row'[handler'[q].row].req # None
             /\ row'[handler'[q].row].req = q \/ run'[row'[handler'[q].row].req].retryOf # None
  <2> DEFINE h == handler'[q].row
  <2>1. h \in Ids /\ row[h].status # "none"
    BY <1>1
  <2>2. row[h].topic = t
    BY <1>1, <2>1, RowsKept
  <2>3. row[h].req # None /\ (row[h].req = q \/ run[row[h].req].retryOf # None)
    BY <1>1, <2>2 DEF PickedNamed
  <2>4. row[h].req \in Reqs /\ run[row[h].req].status # "none"
    BY <2>1, <2>3, WireFacts
  <2>5. run'[row[h].req].retryOf = run[row[h].req].retryOf
    BY <2>4, RunsKept DEF SameRun
  <2> HIDE DEF h
  <2>6. row'[h].req # None /\ (row'[h].req = q \/ run'[row'[h].req].retryOf # None)
    BY <2>1, <2>3, <2>5
  <2> QED BY <2>6 DEF h
<1> QED BY <1>1 DEF PickedNamed

LEMMA FlightDispatch ==
  ASSUME FlightInv, Shape, NEW t \in Topics, Single(t), NEW d \in Dispatches, DispatchShape(d)
  PROVE  NamedPending(t)' /\ HeldPending(t)' /\ PickedNamed(t)' /\ OnePending(t)'
<1> USE IdsAreNat, FlightFacts
<1>h. handler' = handler
  BY DEF DispatchShape, Passes, Closes, Opens, Sends, Records
<1>p. ASSUME \A i \in Ids : row[i].req # None => row'[i].req = row[i].req PROVE PickedNamed(t)'
  BY <1>p, <1>h, PickedKept
<1>1. CASE Passes(d)
  <2>1. /\ row' = row /\ run' = run
        /\ \A e \in Dispatches : Holds(dispatch'[e]) => dispatch'[e] = dispatch[e]
    BY <1>1 DEF Passes, OthersWait
  <2> QED BY <1>h, <1>p, <2>1 DEF NamedPending, HeldPending, OnePending, Awaited
<1>2. CASE Closes(d)
  <2>1. /\ run' = run /\ Holds(dispatch[d]) /\ ~Holds(dispatch'[d])
        /\ \A e \in Dispatches : e # d => dispatch'[e] = dispatch[e]
        /\ \A i \in Ids : /\ row'[i].req = row[i].req /\ row'[i].topic = row[i].topic /\ row'[i].forced = row[i].forced
                          /\ row'[i] = row[i] \/ (i = dispatch[d].row /\ row'[i].status # "pending")
    BY <1>2 DEF Closes, OthersWait, Holds
  <2>2. row[dispatch[d].row].req = None
    BY <2>1 DEF WireDispatches
  <2>3. NamedPending(t)'
    <3>1. ASSUME NEW i \in Ids, NEW q \in Reqs,
                 row'[i].topic = t, row'[i].req = q, run'[q].retryOf = None, Awaited(q)'
          PROVE  row'[i].status = "pending"
      <4>1. row[i].req = q /\ i # dispatch[d].row /\ row'[i] = row[i]
        BY <2>1, <2>2, <3>1
      <4>2. Awaited(q) /\ run[q].retryOf = None
        BY <1>h, <2>1, <3>1 DEF Awaited
      <4> QED BY <3>1, <4>1, <4>2 DEF NamedPending
    <3> QED BY <3>1 DEF NamedPending, Awaited
  <2>4. HeldPending(t)'
    <3>1. ASSUME NEW e \in Dispatches, Holds(dispatch'[e]), dispatch'[e].topic = t
          PROVE  row'[dispatch'[e].row].status = "pending"
      <4>1. e # d /\ dispatch'[e] = dispatch[e]
        BY <2>1, <3>1
      <4>2. dispatch[e].row # dispatch[d].row /\ dispatch[e].row \in Ids
        BY <2>1, <3>1, <4>1, WireFacts DEF WireDispatches
      <4>3. row'[dispatch[e].row] = row[dispatch[e].row]
        BY <2>1, <4>2
      <4> QED BY <3>1, <4>1, <4>3 DEF HeldPending
    <3> QED BY <3>1 DEF HeldPending, Holds
  <2>5. OnePending(t)'
    <3>1. \A i \in Ids : row'[i].status = "pending" => row'[i] = row[i]
      BY <2>1
    <3> QED BY <3>1 DEF OnePending
  <2> QED BY <1>p, <2>1, <2>3, <2>4, <2>5
<1>3. ASSUME NEW o \in Ids, Opens(d, o)
      PROVE  NamedPending(t)' /\ HeldPending(t)' /\ PickedNamed(t)' /\ OnePending(t)'
  <2>1. /\ run' = run /\ row[o].status = "none" /\ row'[o].req = None /\ row'[o].status = "pending"
        /\ dispatch'[d].row = o
        /\ \A e \in Dispatches : e # d => dispatch'[e] = dispatch[e]
        /\ \A i \in Ids : i # o => row'[i] = row[i]
    BY <1>3 DEF Opens, OthersWait
  <2>2. NamedPending(t)'
    <3>1. ASSUME NEW i \in Ids, NEW q \in Reqs,
                 row'[i].topic = t, row'[i].req = q, run'[q].retryOf = None, Awaited(q)'
          PROVE  row'[i].status = "pending"
      <4>1. i # o /\ row'[i] = row[i]
        BY <2>1, <3>1
      <4>2. Awaited(q) /\ run[q].retryOf = None
        BY <1>h, <2>1, <3>1 DEF Awaited
      <4> QED BY <3>1, <4>1, <4>2 DEF NamedPending
    <3> QED BY <3>1 DEF NamedPending, Awaited
  <2>3. HeldPending(t)'
    <3>1. ASSUME NEW e \in Dispatches, Holds(dispatch'[e]), dispatch'[e].topic = t
          PROVE  row'[dispatch'[e].row].status = "pending"
      <4>1. CASE e = d
        BY <2>1, <4>1
      <4>2. CASE e # d
        <5>1. dispatch'[e] = dispatch[e] /\ dispatch[e].row \in Ids /\ row[dispatch[e].row].status # "none"
          BY <2>1, <3>1, <4>2, WireFacts
        <5>2. row'[dispatch[e].row] = row[dispatch[e].row]
          BY <2>1, <5>1
        <5> QED BY <3>1, <5>1, <5>2 DEF HeldPending
      <4> QED BY <4>1, <4>2
    <3> QED BY <3>1 DEF HeldPending, Holds
  <2>4. OnePending(t)'
    <3>1. row'[o].topic = t => row'[o].forced \/ InFlight(t) = {}
      <4>1. row'[o].topic = t => row'[o].forced \/ InTheWay(t) = {}
        BY <1>3, SingleKinds DEF Opens, CheckedInv, ChecksEarly, NeverChecks
      <4> QED BY <4>1, ClearWay
    <3>2. ASSUME NEW i \in Ids, NEW j \in Ids, row'[i].status = "pending", row'[i].topic = t, ~row'[i].forced,
                 row'[j].status = "pending", row'[j].topic = t, ~row'[j].forced
          PROVE  i = j
      <4>1. CASE i = o \/ j = o
        <5>1. InFlight(t) = {}
          BY <3>1, <3>2, <4>1
        <5>2. \A k \in Ids : k # o => row'[k].status # "pending" \/ row'[k].topic # t
          BY <2>1, <5>1 DEF InFlight, RowsOf
        <5> QED BY <3>2, <4>1, <5>2
      <4>2. CASE i # o /\ j # o
        BY <2>1, <3>2, <4>2 DEF OnePending
      <4> QED BY <4>1, <4>2
    <3> QED BY <3>2 DEF OnePending
  <2>5. \A i \in Ids : row[i].req # None => row'[i].req = row[i].req
    BY <2>1
  <2> QED BY <1>p, <2>2, <2>3, <2>4, <2>5
<1>4. ASSUME NEW n \in Reqs, Sends(d, n)
      PROVE  NamedPending(t)' /\ HeldPending(t)' /\ PickedNamed(t)' /\ OnePending(t)'
  <2>1. /\ row' = row /\ run[n].status = "none" /\ \A q \in Reqs : q # n => run'[q] = run[q]
        /\ \A e \in Dispatches : Holds(dispatch'[e]) =>
              Holds(dispatch[e]) /\ dispatch'[e].row = dispatch[e].row /\ dispatch'[e].topic = dispatch[e].topic
    BY <1>4 DEF Sends, Posts, OnlyRun, OthersWait
  <2>2. NamedPending(t)'
    <3>1. \A i \in Ids, q \in Reqs : row'[i].req = q => run'[q] = run[q]
      BY <2>1
    <3> QED BY <1>h, <2>1, <3>1 DEF NamedPending, Awaited
  <2> QED BY <1>p, <2>1, <2>2 DEF HeldPending, OnePending
<1>5. ASSUME NEW o \in Ids, NEW n \in Reqs, Records(d, o, n)
      PROVE  NamedPending(t)' /\ HeldPending(t)' /\ PickedNamed(t)' /\ OnePending(t)'
  <2>1. /\ Holds(dispatch[d]) /\ ~Holds(dispatch'[d]) /\ o = dispatch[d].row /\ run[n].status = "posted"
        /\ \A e \in Dispatches : e # d => dispatch'[e] = dispatch[e]
        /\ \A q \in Reqs : q # n => run'[q] = run[q]
        /\ \A i \in Ids : i # o => row'[i] = row[i]
        /\ \A i \in Ids : row'[i].status = row[i].status /\ row'[i].topic = row[i].topic /\ row'[i].forced = row[i].forced
    BY <1>5 DEF Records, Holds, OthersWait, OnlyRun
  <2>2. row[o].req = None /\ row[o].topic = dispatch[d].topic
    BY <2>1, WireFacts DEF WireDispatches
  <2>3. NamedPending(t)'
    <3>1. ASSUME NEW i \in Ids, NEW q \in Reqs,
                 row'[i].topic = t, row'[i].req = q, run'[q].retryOf = None, Awaited(q)'
          PROVE  row'[i].status = "pending"
      <4>1. CASE i = o
        BY <2>1, <2>2, <3>1, <4>1 DEF HeldPending
      <4>2. CASE i # o
        <5>1. row[i].topic = t /\ row[i].req = q /\ q # n
          BY <2>1, <3>1, <4>2
        <5>2. Awaited(q) /\ run[q].retryOf = None
          BY <1>h, <2>1, <3>1, <5>1 DEF Awaited
        <5> QED BY <2>1, <4>2, <5>1, <5>2 DEF NamedPending
      <4> QED BY <4>1, <4>2
    <3> QED BY <3>1 DEF NamedPending, Awaited
  <2>4. HeldPending(t)'
    <3>1. ASSUME NEW e \in Dispatches, Holds(dispatch'[e]), dispatch'[e].topic = t
          PROVE  row'[dispatch'[e].row].status = "pending"
      <4>1. dispatch'[e] = dispatch[e] /\ dispatch[e].row \in Ids
        BY <2>1, <3>1, WireFacts
      <4>2. Holds(dispatch[e]) /\ dispatch[e].topic = t
        BY <3>1, <4>1
      <4>3. row[dispatch[e].row].status = "pending"
        BY <4>2 DEF HeldPending
      <4>4. row'[dispatch[e].row].status = row[dispatch[e].row].status
        BY <2>1, <4>1
      <4> QED BY <4>1, <4>3, <4>4
    <3> QED BY <3>1 DEF HeldPending, Holds
  <2>5. OnePending(t)'
    BY <2>1 DEF OnePending
  <2>6. \A i \in Ids : row[i].req # None => row'[i].req = row[i].req
    BY <2>1, <2>2
  <2> QED BY <1>p, <2>3, <2>4, <2>5, <2>6
<1> QED BY <1>1, <1>2, <1>3, <1>4, <1>5 DEF DispatchShape

\* A step of an answer on the rows R: it leaves alone what the rows S do not hold.  Of
\* this subject S holds only rows whose request is not awaited any more.
LEMMA FlightAnswer ==
  ASSUME FlightInv, Shape, NEW t \in Topics, Single(t), NEW q \in Reqs, AnswerShape(q)
  PROVE  NamedPending(t)' /\ HeldPending(t)' /\ PickedNamed(t)' /\ OnePending(t)'
<1> USE IdsAreNat, FlightFacts
<1>d. dispatch' = dispatch
  BY DEF AnswerShape, Takes, Settles, Stores, Follows, SendsBack
<1>r. \A p \in Reqs : run[p].status # "none" => run'[p].retryOf = run[p].retryOf
  BY RunsKept DEF SameRun
\* The rows keep their requests; one that is written has an answer nobody waits for,
\* or a retry's.
<1>k. ASSUME NEW R,
             \A i \in Ids :
                /\ R[i].topic = row[i].topic /\ R[i].forced = row[i].forced
                /\ \/ R[i] = row[i]
                   \/ /\ R[i].status = "pending" /\ row[i].req = q /\ Awaited(q) /\ run[q].retryOf = None
                      /\ \A p \in Reqs : R[i].req = p => run'[p].retryOf # None,
             \A i \in Ids :
                /\ row'[i].topic = R[i].topic /\ row'[i].forced = R[i].forced /\ row'[i].req = R[i].req
                /\ \/ row'[i] = R[i]
                   \/ /\ row'[i].status \in {"completed", "failed"}
                      /\ row[i].topic = t =>
                            /\ row[i].req # None
                            /\ (R[i].req = q /\ ~Awaited(q)') \/ run'[R[i].req].retryOf # None,
             \A i \in Ids, p \in Reqs : row[i].req = p /\ Awaited(p)' => Awaited(p)
      PROVE  NamedPending(t)' /\ HeldPending(t)' /\ OnePending(t)'
  <2>1. NamedPending(t)'
    <3>1. ASSUME NEW i \in Ids, NEW p \in Reqs,
                 row'[i].topic = t, row'[i].req = p, run'[p].retryOf = None, Awaited(p)'
          PROVE  row'[i].status = "pending"
      <4>1. R[i].topic = t /\ R[i].req = p /\ row[i].topic = t
        BY <1>k, <3>1
      <4>2. row'[i] = R[i]
        <5>1. ~(R[i].req = q /\ ~Awaited(q)')
          BY <3>1, <4>1 DEF Awaited
        <5> QED BY <1>k, <3>1, <4>1, <5>1
      <4>3. R[i] = row[i]
        BY <1>k, <3>1, <4>1
      <4>4. Awaited(p) /\ run[p].retryOf = None
        BY <1>k, <1>r, <3>1, <4>1, <4>3
      <4> QED BY <4>1, <4>2, <4>3, <4>4 DEF NamedPending
    <3> QED BY <3>1 DEF NamedPending, Awaited
  <2>2. HeldPending(t)'
    <3>1. ASSUME NEW e \in Dispatches, Holds(dispatch[e]), dispatch[e].topic = t
          PROVE  row'[dispatch[e].row].status = "pending"
      <4> DEFINE i == dispatch[e].row
      <4>1. i \in Ids /\ row[i].req = None /\ row[i].topic = t /\ row[i].status = "pending"
        BY <3>1, WireFacts DEF WireDispatches, HeldPending
      <4> HIDE DEF i
      <4>2. row'[i] = R[i] /\ R[i] = row[i]
        BY <1>k, <4>1
      <4> QED BY <4>1, <4>2 DEF i
    <3> QED BY <1>d, <3>1 DEF HeldPending, Holds
  <2>3. OnePending(t)'
    <3>1. ASSUME NEW i \in Ids, row'[i].status = "pending", row'[i].topic = t, ~row'[i].forced
          PROVE  row[i].status = "pending" /\ row[i].topic = t /\ ~row[i].forced
      <4>1. row'[i] = R[i] /\ row[i].topic = t /\ ~row[i].forced
        BY <1>k, <3>1
      <4>2. CASE R[i] = row[i]
        BY <3>1, <4>1, <4>2
      <4>3. CASE R[i] # row[i]
        BY <1>k, <4>1, <4>3 DEF NamedPending
      <4> QED BY <4>1, <4>2, <4>3
    <3> QED BY <3>1 DEF OnePending
  <2> QED BY <2>1, <2>2, <2>3
<1>1. CASE Takes(q)
  <2>1. /\ run[q].status = "pending" /\ run'[q].status # "pending" /\ \A p \in Reqs : p # q => run'[p] = run[p]
        /\ \A p \in Reqs : p # q => handler'[p] = handler[p]
        /\ handler'[q].at # "storing" /\ handler[q].at = "idle" /\ Awaited(q)
    BY <1>1 DEF Takes, OnlyRun, OthersGrade, GradeInv, Awaited
  <2>2. \A p \in Reqs : Awaited(p)' => Awaited(p)
    BY <2>1 DEF Awaited
  <2>3. ASSUME NEW i \in Ids
        PROVE  /\ row'[i].topic = row[i].topic /\ row'[i].forced = row[i].forced /\ row'[i].req = row[i].req
               /\ \/ row'[i] = row[i]
                  \/ /\ row'[i].status \in {"completed", "failed"}
                     /\ row[i].topic = t => row[i].req = q /\ ~Awaited(q)'
    <3>1. CASE Writes(q, row, {})
      BY <3>1 DEF Writes
    <3>2. CASE handler' = handler /\ Writes(q, row, OwnersOf(row, q))
      <4>1. ~Awaited(q)'
        BY <2>1, <3>2 DEF Awaited
      <4>2. i \in OwnersOf(row, q) /\ row[i].topic = t => row[i].req = q
        BY <2>1, OwnerNamesIt
      <4> QED BY <3>2, <4>1, <4>2 DEF Writes
    <3> QED BY <1>1, <3>1, <3>2 DEF Takes
  <2>4. NamedPending(t)' /\ HeldPending(t)' /\ OnePending(t)'
    <3>1. \A i \in Ids :
                /\ row'[i].topic = row[i].topic /\ row'[i].forced = row[i].forced /\ row'[i].req = row[i].req
                /\ \/ row'[i] = row[i]
                   \/ /\ row'[i].status \in {"completed", "failed"}
                      /\ row[i].topic = t =>
                            /\ row[i].req # None
                            /\ (row[i].req = q /\ ~Awaited(q)') \/ run'[row[i].req].retryOf # None
      BY <2>3
    <3> QED BY <2>2, <3>1, <1>k
  <2>5. PickedNamed(t)'
    BY <2>1, <2>3, PickedKept
  <2> QED BY <2>4, <2>5
<1>2. CASE Settles(q, row) /\ run' = run
  <2>1. /\ handler[q].at \in {"grading", "retrying"} /\ handler'[q].at \notin {"grading", "retrying"}
        /\ run[q].status = "completed" /\ \A p \in Reqs : p # q => handler'[p] = handler[p]
    BY <1>2 DEF Settles, OthersGrade, GradeInv
  <2>2. Awaited(q) /\ ~Awaited(q)' /\ \A p \in Reqs : Awaited(p)' => Awaited(p)
    BY <1>2, <2>1 DEF Awaited
  <2>3. \A i \in OwnersOf(row, q) : row[i].topic = t => i \in Ids /\ row[i].req = q
    BY <2>2, OwnerNamesIt
  <2>4. ASSUME NEW i \in Ids
        PROVE  /\ row'[i].topic = row[i].topic /\ row'[i].forced = row[i].forced /\ row'[i].req = row[i].req
               /\ \/ row'[i] = row[i]
                  \/ row'[i].status \in {"completed", "failed"} /\ (row[i].topic = t => row[i].req = q)
    BY <1>2, <2>3 DEF Settles, Writes
  <2>5. NamedPending(t)' /\ HeldPending(t)' /\ OnePending(t)'
    <3>1. \A i \in Ids :
                /\ row'[i].topic = row[i].topic /\ row'[i].forced = row[i].forced /\ row'[i].req = row[i].req
                /\ \/ row'[i] = row[i]
                   \/ /\ row'[i].status \in {"completed", "failed"}
                      /\ row[i].topic = t =>
                            /\ row[i].req # None
                            /\ (row[i].req = q /\ ~Awaited(q)') \/ run'[row[i].req].retryOf # None
      BY <2>2, <2>4
    <3> QED BY <2>2, <3>1, <1>k
  <2>6. PickedNamed(t)'
    <3>1. handler'[q].at = "storing" =>
             handler'[q].row \in OwnersOf(row, q) /\ handler'[q].row \in Ids /\ row[handler'[q].row].status # "none"
      BY <1>2, OwnersOwn DEF Settles
    <3> QED BY <2>1, <2>3, <2>4, <3>1, PickedKept
  <2> QED BY <2>5, <2>6
<1>3. ASSUME NEW n \in Reqs, Follows(q, n)
      PROVE  NamedPending(t)' /\ HeldPending(t)' /\ PickedNamed(t)' /\ OnePending(t)'
  <2> DEFINE R == FollowRetry(q, n)
  <2>i. TypeOK
    OBVIOUS
  <2>1. /\ handler[q].at = "retrying" /\ handler'[q].at \in {"idle", "storing"} /\ \A p \in Reqs : p # q => handler'[p] = handler[p]
        /\ run[q].status = "completed" /\ run[q].retryOf = None /\ Awaited(q)
        /\ run[n].status = "posted" /\ run'[n].retryOf = q /\ \A p \in Reqs : p # n => run'[p] = run[p]
    BY <1>3 DEF Follows, Settles, OthersGrade, GradeInv, WireRuns, Awaited, SameRun, OnlyRun
  <2>2. ~Awaited(q)' /\ \A p \in Reqs : p # n => (Awaited(p)' => Awaited(p))
    BY <2>1 DEF Awaited
  <2>3. \A i \in Ids : row[i].req # n
    BY <2>1, WireFacts
  <2>4. ASSUME NEW i \in Ids
        PROVE  /\ R[i].topic = row[i].topic /\ R[i].forced = row[i].forced
               /\ R[i] = row[i] \/ (R[i].status = "pending" /\ row[i].req = q /\ R[i].req = n)
    BY <2>i, FollowKeeps
  <2>5. \A i \in OwnersOf(R, q) : i \in Ids /\ row[i].status # "none" /\ (row[i].topic = t => row[i].req = q)
    BY <1>3, OwnersOwn, FollowerNamesIt
  <2>6. Settles(q, R)
    BY <1>3 DEF Follows
  <2> HIDE DEF R
  <2>7. ASSUME NEW i \in Ids
        PROVE  /\ row'[i].topic = R[i].topic /\ row'[i].forced = R[i].forced /\ row'[i].req = R[i].req
               /\ \/ row'[i] = R[i]
                  \/ row'[i].status \in {"completed", "failed"} /\ (row[i].topic = t => row[i].req = q)
    BY <2>5, <2>6 DEF Settles, Writes
  <2>8. NamedPending(t)' /\ HeldPending(t)' /\ OnePending(t)'
    <3>1. \A i \in Ids :
                /\ R[i].topic = row[i].topic /\ R[i].forced = row[i].forced
                /\ \/ R[i] = row[i]
                   \/ /\ R[i].status = "pending" /\ row[i].req = q /\ Awaited(q) /\ run[q].retryOf = None
                      /\ \A p \in Reqs : R[i].req = p => run'[p].retryOf # None
      BY <2>1, <2>4
    <3>2. \A i \in Ids :
                /\ row'[i].topic = R[i].topic /\ row'[i].forced = R[i].forced /\ row'[i].req = R[i].req
                /\ \/ row'[i] = R[i]
                   \/ /\ row'[i].status \in {"completed", "failed"}
                      /\ row[i].topic = t =>
                            /\ row[i].req # None
                            /\ (R[i].req = q /\ ~Awaited(q)') \/ run'[R[i].req].retryOf # None
      <4>1. ASSUME NEW i \in Ids, row[i].req = q
            PROVE  row[i].req # None /\ ((R[i].req = q /\ ~Awaited(q)') \/ run'[R[i].req].retryOf # None)
        <5>1. R[i].req = q \/ R[i].req = n
          BY <2>4, <4>1
        <5>2. q # None /\ run'[n].retryOf = q
          BY <2>1
        <5> QED BY <2>2, <4>1, <5>1, <5>2
      <4> QED BY <2>7, <4>1
    <3>3. \A i \in Ids, p \in Reqs : row[i].req = p /\ Awaited(p)' => Awaited(p)
      BY <2>2, <2>3
    <3> QED BY <3>1, <3>2, <3>3, <1>k
  <2>9. PickedNamed(t)'
    <3>1. \A i \in Ids : row'[i].req = row[i].req \/ row'[i].req = n
      BY <2>4, <2>7
    <3>2. handler'[q].at = "storing" => handler'[q].row \in OwnersOf(R, q)
      BY <2>6 DEF Settles
    <3> QED BY <2>1, <2>5, <3>1, <3>2, PickedKept
  <2> QED BY <2>8, <2>9
<1>4. CASE Stores(q)
  <2> DEFINE h == handler[q].row
  <2>1. /\ handler[q].at = "storing" /\ run[q].status = "completed" /\ h \in Ids /\ run' = run
        /\ handler'[q].at = "idle" /\ \A p \in Reqs : p # q => handler'[p] = handler[p]
    BY <1>4 DEF Stores, OthersGrade, GradeInv
  <2>2. ~Awaited(q)' /\ \A p \in Reqs : Awaited(p)' => Awaited(p)
    BY <2>1 DEF Awaited
  <2>3. row[h].topic = t => row[h].req # None /\ (row[h].req = q \/ run[row[h].req].retryOf # None)
    BY <2>1 DEF PickedNamed
  <2>4. ASSUME NEW i \in Ids
        PROVE  /\ row'[i].topic = row[i].topic /\ row'[i].forced = row[i].forced /\ row'[i].req = row[i].req
               /\ row'[i] = row[i] \/ (row'[i].status \in {"completed", "failed"} /\ i = h)
    BY <1>4 DEF Stores, Writes
  <2> HIDE DEF h
  <2>5. NamedPending(t)' /\ HeldPending(t)' /\ OnePending(t)'
    <3>1. \A i \in Ids :
                /\ row'[i].topic = row[i].topic /\ row'[i].forced = row[i].forced /\ row'[i].req = row[i].req
                /\ \/ row'[i] = row[i]
                   \/ /\ row'[i].status \in {"completed", "failed"}
                      /\ row[i].topic = t =>
                            /\ row[i].req # None
                            /\ (row[i].req = q /\ ~Awaited(q)') \/ run'[row[i].req].retryOf # None
      BY <2>1, <2>2, <2>3, <2>4
    <3> QED BY <2>2, <3>1, <1>k
  <2>6. PickedNamed(t)'
    BY <2>1, <2>4, PickedKept
  <2> QED BY <2>5, <2>6
<1>5. ASSUME NEW n \in Reqs, SendsBack(q, n)
      PROVE  NamedPending(t)' /\ HeldPending(t)' /\ PickedNamed(t)' /\ OnePending(t)'
  <2>1. /\ row' = row /\ run[n].status = "none" /\ \A p \in Reqs : p # n => run'[p] = run[p]
        /\ handler[q].at = "grading" /\ handler'[q].at = "retrying" /\ \A p \in Reqs : p # q => handler'[p] = handler[p]
    BY <1>5 DEF SendsBack, Posts, OnlyRun, OthersGrade
  <2>2. \A i \in Ids, p \in Reqs : row[i].req = p /\ Awaited(p)' => Awaited(p)
    <3>1. \A i \in Ids : row[i].req # n
      BY <2>1, WireFacts
    <3> QED BY <2>1, <3>1 DEF Awaited
  <2>3. NamedPending(t)' /\ HeldPending(t)' /\ OnePending(t)'
    BY <2>1, <2>2, <1>k
  <2>4. PickedNamed(t)'
    BY <2>1, PickedKept
  <2> QED BY <2>3, <2>4
<1> QED BY <1>1, <1>2, <1>3, <1>4, <1>5 DEF AnswerShape

LEMMA FlightStep == FlightInv /\ [Next]_vars => FlightInv'
<1> SUFFICES ASSUME FlightInv, [Next]_vars PROVE FlightInv'
  OBVIOUS
<1>1. Shape /\ WireInv' /\ AnswerInv' /\ FollowInv' /\ CheckedInv' /\ OrderInv'
  BY WireStep, AnswerStep, FollowStep, CheckedStep, OrderStep DEF FlightInv
<1>2. ASSUME NEW t \in Topics, Single(t)'
      PROVE  NamedPending(t)' /\ HeldPending(t)' /\ PickedNamed(t)' /\ OnePending(t)'
  <2>1. Single(t)
    BY <1>1, <1>2, SingleBefore DEF FlightInv
  <2> USE FlightFacts
  <2>2. CASE Rests \/ Restarts \/ \E u \in Topics : Deletes(u)
    <3>1. /\ run' = run
          /\ \A d \in Dispatches : Holds(dispatch'[d]) => dispatch'[d] = dispatch[d]
          /\ \A q \in Reqs : handler'[q] = handler[q] \/ handler'[q].at = "idle"
          /\ \A i \in Ids : row'[i].topic = row[i].topic /\ row'[i].req = row[i].req
      BY <2>2 DEF Rests, Restarts, Deletes, Holds
    <3>2. \A i \in Ids : row[i].topic = t => row'[i] = row[i]
      BY <2>1, <2>2, SingleKinds DEF Rests, Restarts, Deletes
    <3>3. \A q \in Reqs : Awaited(q)' => Awaited(q)
      BY <3>1 DEF Awaited
    <3>4. NamedPending(t)'
      BY <2>1, <3>1, <3>2 DEF NamedPending, Awaited
    <3>5. HeldPending(t)'
      <4>1. ASSUME NEW d \in Dispatches, Holds(dispatch'[d]), dispatch'[d].topic = t
            PROVE  row'[dispatch'[d].row].status = "pending"
        <5>1. dispatch[d].row \in Ids /\ row[dispatch[d].row].topic = t /\ dispatch'[d] = dispatch[d]
          BY <2>1, <3>1, <4>1, WireFacts
        <5> QED BY <2>1, <3>2, <4>1, <5>1 DEF HeldPending
      <4> QED BY <4>1 DEF HeldPending, Holds
    <3>6. PickedNamed(t)'
      BY <1>1, <2>1, <3>1, PickedKept
    <3>7. OnePending(t)'
      BY <2>1, <3>1, <3>2 DEF OnePending
    <3> QED BY <3>4, <3>5, <3>6, <3>7
  <2> QED BY <1>1, <2>1, <2>2, FlightDispatch, FlightAnswer DEF Shape
<1>3. \A t \in Topics :
         Single(t)' => NamedPending(t)' /\ HeldPending(t)' /\ PickedNamed(t)' /\ OnePending(t)' /\ NewestPending(t)'
  BY <1>1, <1>2, SingleBefore, NewestStep DEF FlightInv
<1>4. SingleInv'
  BY <1>3 DEF SingleInv
<1> QED BY <1>1, <1>4 DEF FlightInv

LEMMA FlightInit == Init => FlightInv
<1> SUFFICES ASSUME Init PROVE FlightInv
  OBVIOUS
<1>1. /\ \A d \in Dispatches : dispatch[d].at = "idle"
      /\ \A q \in Reqs : handler[q].at = "idle" /\ run[q].status = "none"
      /\ \A i \in Ids : row[i].status = "none" /\ row[i].answer = None
  BY FirstTyped DEF Init, NoRow
<1>2. AnswerInv /\ CheckedInv
  BY <1>1 DEF AnswerInv, CheckedInv
<1>3. SingleInv /\ OrderInv
  BY <1>1 DEF SingleInv, NamedPending, HeldPending, PickedNamed, OnePending, NewestPending, Awaited, Holds, OrderInv
<1> QED BY <1>2, <1>3, WireInit, FollowInit DEF FlightInv

LEMMA AtMostOne ==
  ASSUME NEW t \in Topics, OnePending(t)
  PROVE  Cardinality({i \in InFlight(t) : ~row[i].forced}) <= 1
<1> DEFINE S == {i \in InFlight(t) : ~row[i].forced}
<1>1. \A i, j \in S : i = j
  BY DEF InFlight, RowsOf, OnePending
<1> HIDE DEF S
<1>2. S = {} \/ \E i \in S : S = {i}
  BY <1>1
<1>3. Cardinality(S) = 0 \/ Cardinality(S) = 1
  <2>1. Cardinality({}) = 0
    BY FS_EmptySet
  <2>2. \A i : Cardinality({i}) = 1
    BY FS_Singleton
  <2> QED BY <1>2, <2>1, <2>2
<1>4. Cardinality(S) <= 1
  BY <1>3
<1> QED BY <1>4 DEF S

\* However many dispatches of the subject wait at once, and whenever answers, retries and
\* restarts come: an alert, a day or a box has one row in flight unless one was forced.
THEOREM OneInFlightHolds == Spec => []OneInFlight
<1>1. FlightInv => OneInFlight
  BY AtMostOne DEF FlightInv, SingleInv, OneInFlight
<1> QED BY <1>1, FlightInit, FlightStep, PTL DEF Spec

=============================================================================
