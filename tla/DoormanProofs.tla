---------------------------- MODULE DoormanProofs ----------------------------
(***************************************************************************)
(* For any requests, cap and bound: the doorman's state is well typed, one *)
(* wake is decided at a time, and wake_events tells what happened.         *)
(***************************************************************************)
EXTENDS Doorman, TLAPS

LEMMA Idle == IdleStart \in StartType /\ IdleStart.at = "idle" /\ IdleRequest \in RequestType
              /\ NoWake \in WakeType /\ NewWake("up") \in WakeType /\ NewWake("open") \in WakeType
BY DEF IdleStart, StartType, IdleRequest, RequestType, NoWake, NewWake, WakeType

LEMMA ReadsTyped == Answers \subseteq Reads /\ \A s \in Reads : Ready(s) \in {"ready", "asleep"}
BY DEF Answers, Reads, Ready

-----------------------------------------------------------------------------
(* Types *)

WkTyped == wk \in [Requests -> StartType] /\ deciding \in Requests \cup {None} /\ OneDecides

LEMMA FinishTyped ==
    ASSUME WkTyped, NEW r \in Requests, wk[r].at # "idle", Finish(r)
    PROVE  WkTyped'
BY Idle, DoormanAssumption DEF WkTyped, Finish, OneDecides, DoormanAssumption

\* The wake of r goes on.
LEMMA OnTyped ==
    ASSUME WkTyped, NEW r \in Requests, wk[r].at # "idle", NEW new \in StartType, new.at # "idle",
           wk' = [wk EXCEPT ![r] = new], UNCHANGED deciding
    PROVE  WkTyped'
BY DEF WkTyped, OneDecides

LEMMA WakeTyped == ASSUME WkTyped, NEW r \in Requests, Wake(r) PROVE WkTyped'
<1>1. CASE UNCHANGED <<deciding, wk>>
  BY <1>1 DEF WkTyped, OneDecides
<1>2. CASE deciding = None /\ deciding' = r /\ wk' = [wk EXCEPT ![r].at = "reading"]
  <2> DEFINE new == [wk[r] EXCEPT !.at = "reading"]
  <2>1. new \in StartType /\ new.at = "reading" /\ wk' = [wk EXCEPT ![r] = new]
    BY <1>2 DEF WkTyped, StartType
  <2> HIDE DEF new
  <2> QED BY <1>2, <2>1, DoormanAssumption DEF WkTyped, OneDecides, DoormanAssumption
<1> QED BY <1>1, <1>2 DEF Wake

LEMMA MarkTyped ==
    ASSUME wakes \in WakeType, marked \in Nat, MarkReady
    PROVE  wakes' \in WakeType /\ marked' \in Nat
<1>1. CASE wakes.outcome = "up" /\ ~wakes.ready
  <2>1. wakes' = [wakes EXCEPT !.ready = TRUE] /\ marked' = marked + 1
    BY <1>1 DEF MarkReady
  <2>2. wakes' \in WakeType
    BY <2>1, Zenon DEF WakeType
  <2> QED BY <2>1, <2>2
<1>2. CASE ~(wakes.outcome = "up" /\ ~wakes.ready)
  BY <1>2 DEF MarkReady
<1> QED BY <1>1, <1>2

\* What a handler that knows the state of the box leaves.
LEMMA HandlesTyped ==
    ASSUME TypeOK, NEW r \in Requests, NEW kind \in Kinds, NEW state, Handles(r, kind, state)
    PROVE  /\ req' \in [Requests -> RequestType] /\ WkTyped'
           /\ wakes' \in WakeType /\ marked' \in Nat
<1>0. WkTyped /\ (UNCHANGED <<deciding, wk>> => WkTyped')
  BY DEF TypeOK, WkTyped, OneDecides
<1>1. req' \in [Requests -> RequestType]
  BY Idle DEF Handles, TypeOK, RequestType, IdleRequest
<1>2. WkTyped'
  BY <1>0, WakeTyped DEF Handles
<1>3. wakes' \in WakeType /\ marked' \in Nat
  BY MarkTyped DEF Handles, TypeOK
<1> QED BY <1>1, <1>2, <1>3

LEMMA RequestTyped ==
    ASSUME TypeOK, NEW r \in Requests, RequestStep(r)
    PROVE  TypeOK'
<1>0. WkTyped /\ req[r] \in RequestType
  BY DEF TypeOK, WkTyped
<1>1. CASE Looks(r)
  BY <1>0, <1>1 DEF Looks, TypeOK, OneDecides, aws, rows, RequestType
<1>2. CASE Presses(r)
  <2>1. WkTyped'
    BY <1>0, <1>2, WakeTyped DEF Presses
  <2> QED BY <1>2, <2>1 DEF Presses, TypeOK, WkTyped, aws, rows
<1>3. CASE RequestReads(r)
  <2>1. PICK s \in Answers : req' = [req EXCEPT ![r].saw = Ready(s)]
    BY <1>3 DEF RequestReads
  <2>2. Ready(s) \in {"ready", "asleep"}
    BY <2>1, ReadsTyped
  <2> QED BY <1>0, <1>3, <2>1, <2>2 DEF RequestReads, TypeOK, OneDecides, aws, rows, RequestType
<1>4. ASSUME NEW kind \in Kinds, Knows(r, kind) PROVE TypeOK'
  <2>1. req' \in [Requests -> RequestType] /\ WkTyped' /\ wakes' \in WakeType /\ marked' \in Nat
    BY <1>4, HandlesTyped DEF Knows
  <2>2. cache' \in {"none", "ready", "asleep"}
    BY <1>0, <1>4 DEF Knows, TypeOK, RequestType
  <2> QED BY <1>4, <2>1, <2>2 DEF Knows, TypeOK, WkTyped, aws
<1>5. CASE HoldEnds(r)
  <2>1. wakes' \in WakeType /\ marked' \in Nat
    BY <1>5, MarkTyped DEF HoldEnds, TypeOK
  <2>2. cache' \in {"none", "ready", "asleep"} /\ req' \in [Requests -> RequestType]
    BY <1>0, <1>5, Idle DEF HoldEnds, HoldRead, TypeOK, RequestType
  <2> QED BY <1>5, <2>1, <2>2 DEF HoldEnds, TypeOK, OneDecides, aws
<1>6. CASE HoldGoesOn(r)
  BY <1>0, <1>6 DEF HoldGoesOn, HoldRead, TypeOK, OneDecides, aws, rows, RequestType
<1> QED BY <1>1, <1>2, <1>3, <1>4, <1>5, <1>6 DEF RequestStep

LEMMA WakeStepTyped ==
    ASSUME TypeOK, NEW r \in Requests, WakeStep(r)
    PROVE  TypeOK'
<1>0. WkTyped /\ wk[r] \in StartType /\ wakes \in WakeType
  BY DEF TypeOK, WkTyped
<1>a. ASSUME wakes' = [wakes EXCEPT !.outcome = "error"] \/ wakes' = [wakes EXCEPT !.outcome = "up"]
      PROVE  wakes' \in WakeType
  BY <1>0, <1>a DEF WakeType
<1>1. CASE WakeReads(r)
  <2>1. PICK s \in Answers : wk' = [wk EXCEPT ![r].saw = s]
    BY <1>1 DEF WakeReads
  <2> DEFINE new == [wk[r] EXCEPT !.saw = s]
  <2>2. new \in StartType /\ new.at = "reading" /\ wk' = [wk EXCEPT ![r] = new]
    BY <1>0, <1>1, <2>1, ReadsTyped DEF WakeReads, StartType
  <2> HIDE DEF new
  <2>3. WkTyped'
    BY <1>0, <1>1, <2>2, OnTyped DEF WakeReads
  <2> QED BY <1>1, <2>3 DEF WakeReads, TypeOK, WkTyped, aws, rows
<1>2. CASE WakeReturns(r)
  <2>1. Ready(wk[r].saw) \in {"ready", "asleep"}
    BY DEF Ready
  <2>2. WkTyped' /\ wakes' \in WakeType
    <3>1. CASE wk[r].saw \in {"ready", "up"}
      BY <1>0, <1>2, <3>1, FinishTyped, Idle DEF WakeReturns
    <3>2. CASE wk[r].saw \notin {"ready", "up"}
      <4> DEFINE new == [wk[r] EXCEPT !.at = "with"]
      <4>1. new \in StartType /\ new.at = "with" /\ wk' = [wk EXCEPT ![r] = new]
        BY <1>0, <1>2, <3>2 DEF WakeReturns, StartType
      <4> HIDE DEF new
      <4>2. WkTyped'
        BY <1>0, <1>2, <3>2, <4>1, OnTyped DEF WakeReturns
      <4> QED BY <1>2, <3>2, <4>2, Idle DEF WakeReturns
    <3> QED BY <3>1, <3>2
  <2> QED BY <1>2, <2>1, <2>2 DEF WakeReturns, TypeOK, WkTyped, aws
<1>3. CASE WithOthers(r)
  <2>1. WkTyped' /\ wakes' \in WakeType
    <3>1. CASE wk[r].saw = "stopping"
      BY <1>0, <1>a, <1>3, <3>1, FinishTyped DEF WithOthers
    <3>2. CASE wk[r].saw # "stopping"
      <4> DEFINE new == [wk[r] EXCEPT !.at = "asking"]
      <4>1. new \in StartType /\ new.at = "asking" /\ wk' = [wk EXCEPT ![r] = new]
        BY <1>0, <1>3, <3>2 DEF WithOthers, StartType
      <4> HIDE DEF new
      <4> QED BY <1>0, <1>3, <3>2, <4>1, OnTyped DEF WithOthers
    <3> QED BY <3>1, <3>2
  <2> QED BY <1>3, <2>1 DEF WithOthers, TypeOK, WkTyped, aws, rows
<1>4. CASE Asks(r) \/ Lands(r)
  <2> DEFINE new == [wk[r] EXCEPT !.at = IF wk[r].at = "asking" THEN "starting" ELSE "landed", !.sleep = sleep]
  <2>1. new \in StartType /\ new.at # "idle" /\ wk' = [wk EXCEPT ![r] = new]
    BY <1>0, <1>4 DEF Asks, Lands, StartType, TypeOK
  <2> HIDE DEF new
  <2>2. WkTyped'
    BY <1>0, <1>4, <2>1, OnTyped DEF Asks, Lands
  <2>3. box' \in Boxes
    BY <1>4 DEF Asks, Lands, TypeOK, Boxes, aws
  <2> QED BY <1>4, <2>2, <2>3 DEF Asks, Lands, TypeOK, WkTyped, aws, rows
<1>5. CASE Fails(r)
  <2>1. WkTyped' /\ wakes' \in WakeType
    BY <1>0, <1>a, <1>5, FinishTyped DEF Fails
  <2> QED BY <1>5, <2>1 DEF Fails, TypeOK, WkTyped, aws, rows
<1>6. CASE Starts(r)
  <2>1. WkTyped' /\ wakes' \in WakeType
    BY <1>0, <1>a, <1>6, FinishTyped DEF Starts
  <2>0. started' = [started EXCEPT ![wk[r].sleep] = @ + 1] /\ today' = today + 1 /\ notes' \in {notes, notes + 1}
    BY <1>6 DEF Starts, NoticeOverCap
  <2>2. started' \in [0 .. MaxEvents -> Nat] /\ today' \in Nat /\ notes' \in Nat
    <3> DEFINE n == wk[r].sleep
               one == started[n] + 1
    <3>1. started' = [started EXCEPT ![n] = one]
      BY <2>0
    <3>2. n \in 0 .. MaxEvents => one \in Nat
      BY DEF TypeOK
    <3> HIDE DEF n, one
    <3>3. started' \in [0 .. MaxEvents -> Nat]
      BY <3>1, <3>2 DEF TypeOK
    <3> QED BY <2>0, <3>3 DEF TypeOK
  <2>3. cache' = "none" /\ UNCHANGED <<box, sleep, events, req, marked>>
    BY <1>6 DEF Starts, aws
  <2> QED BY <2>1, <2>2, <2>3 DEF TypeOK, WkTyped
<1> QED BY <1>1, <1>2, <1>3, <1>4, <1>5, <1>6 DEF WakeStep

LEMMA OthersTyped ==
    ASSUME TypeOK, CacheGoes \/ WakeAges \/ NewDay \/ BoxMoves \/ Stops \/ OthersStart \/ Restart
    PROVE  TypeOK'
<1>0. Event => events' \in 0 .. MaxEvents /\ events' = events + 1
  BY DoormanAssumption DEF Event, TypeOK, DoormanAssumption
<1>1. CASE CacheGoes
  BY <1>1 DEF CacheGoes, TypeOK, OneDecides, aws, rows
<1>2. CASE WakeAges
  BY <1>2 DEF WakeAges, TypeOK, OneDecides, aws, rows, WakeType
<1>3. CASE NewDay
  BY <1>3 DEF NewDay, TypeOK, OneDecides, aws, memory
<1>4. CASE BoxMoves
  BY <1>4 DEF BoxMoves, TypeOK, OneDecides, memory, rows, Boxes, Running
<1>5. CASE Stops
  BY <1>0, <1>5 DEF Stops, TypeOK, OneDecides, memory, rows, Boxes
<1>6. CASE OthersStart
  BY <1>0, <1>6 DEF OthersStart, TypeOK, OneDecides, memory, rows, Boxes
<1>7. CASE Restart
  BY <1>0, <1>7, Idle, DoormanAssumption DEF Restart, TypeOK, OneDecides, DoormanAssumption
<1> QED BY <1>1, <1>2, <1>3, <1>4, <1>5, <1>6, <1>7

LEMMA InitTyped == Init => TypeOK
BY Idle, DoormanAssumption DEF Init, TypeOK, OneDecides, DoormanAssumption

LEMMA NextTyped == TypeOK /\ [Next]_vars => TypeOK'
<1> SUFFICES ASSUME TypeOK, [Next]_vars PROVE TypeOK'
  OBVIOUS
<1>1. CASE UNCHANGED vars
  BY <1>1 DEF vars, aws, memory, rows, TypeOK, OneDecides
<1> QED BY <1>1, RequestTyped, WakeStepTyped, OthersTyped DEF Next

\* Every variable keeps its type, and no more than one wake is being decided, by the request in `deciding`.
THEOREM TypeCorrect == Spec => []TypeOK
<1> QED BY InitTyped, NextTyped, PTL DEF Spec

-----------------------------------------------------------------------------
(* The 'started' rows *)

Slept == {n \in 0 .. MaxEvents : started[n] > 0}
Down == box \in {"stopped", "stopping"}

\* What makes it inductive: rows are about past sleeps or about one that is over; a wake that saw the box stopped, in
\* the sleep it read, is later than every row; and once its start has landed that sleep has no row yet.
StartInv ==
    /\ StartedOnceASleep
    /\ \A n \in Slept : n <= sleep /\ (n = sleep => ~Down)
    /\ \A r \in Requests : wk[r].at = "starting" => wk[r].sleep <= sleep /\ \A n \in Slept : n < wk[r].sleep
    /\ \A r \in Requests : wk[r].at = "landed" =>
           wk[r].sleep <= sleep /\ wk[r].sleep \notin Slept /\ (wk[r].sleep = sleep => ~Down)

LEMMA StartKept ==
    ASSUME TypeOK, StartInv, UNCHANGED started,
           (sleep' = sleep /\ (Down' => Down)) \/ sleep' = sleep + 1,
           \A r \in Requests : wk'[r].at \in {"starting", "landed"} => wk'[r] = wk[r]
    PROVE  StartInv'
<1>1. sleep \in Nat /\ \A r \in Requests : wk[r].sleep \in Nat
  BY DEF TypeOK, StartType
<1>2. Slept' = Slept /\ Slept \subseteq Nat
  BY DEF Slept
<1>3. StartedOnceASleep'
  BY DEF StartInv, StartedOnceASleep
<1>4. \A n \in Slept' : n <= sleep' /\ (n = sleep' => ~Down')
  BY <1>1, <1>2 DEF StartInv
<1>5. ASSUME NEW r \in Requests, wk'[r].at \in {"starting", "landed"} PROVE wk'[r] = wk[r] /\ wk[r].sleep \in Nat
  BY <1>1, <1>5
<1>6. ASSUME NEW r \in Requests, wk'[r].at = "starting"
      PROVE  wk'[r].sleep <= sleep' /\ \A n \in Slept' : n < wk'[r].sleep
  BY <1>1, <1>2, <1>5, <1>6 DEF StartInv
<1>7. ASSUME NEW r \in Requests, wk'[r].at = "landed"
      PROVE  wk'[r].sleep <= sleep' /\ wk'[r].sleep \notin Slept' /\ (wk'[r].sleep = sleep' => ~Down')
  BY <1>1, <1>2, <1>5, <1>7 DEF StartInv
<1> QED BY <1>3, <1>4, <1>6, <1>7 DEF StartInv

\* While r decides, the others do not.
LEMMA OthersIdle ==
    ASSUME TypeOK, NEW r \in Requests, wk[r].at # "idle"
    PROVE  \A q \in Requests \ {r} : wk[q].at = "idle"
BY DEF TypeOK, OneDecides

LEMMA StartWake ==
    ASSUME TypeOK, StartInv, NEW r \in Requests, Asks(r) \/ Lands(r) \/ Starts(r)
    PROVE  StartInv'
<1>0. sleep \in 0 .. MaxEvents /\ sleep \in Nat /\ wk[r].sleep \in Nat /\ \A n \in 0 .. MaxEvents : started[n] \in Nat
  BY DoormanAssumption DEF TypeOK, StartType, DoormanAssumption
<1>1. \A q \in Requests \ {r} : wk[q].at = "idle" /\ wk'[q] = wk[q]
  BY OthersIdle DEF Asks, Lands, Starts, Finish, TypeOK
<1>2. CASE Asks(r)
  <2>1. wk'[r].at = "starting" /\ wk'[r].sleep = sleep /\ UNCHANGED <<box, sleep, started>> /\ Down
    BY <1>2 DEF Asks, TypeOK, StartType, aws, rows, Down
  <2>2. Slept' = Slept /\ Down' = Down /\ Slept \subseteq Nat
    BY <2>1 DEF Slept, Down
  <2>3. \A n \in Slept : n < sleep
    BY <1>0, <2>1, <2>2 DEF StartInv
  <2>4. StartedOnceASleep'
    BY <2>1 DEF StartInv, StartedOnceASleep
  <2>5. \A q \in Requests : wk'[q].at # "landed" /\ (wk'[q].at = "starting" => q = r)
    BY <1>1, <2>1
  <2> QED BY <1>0, <2>1, <2>2, <2>3, <2>4, <2>5 DEF StartInv
<1>3. CASE Lands(r)
  <2>1. wk[r].at = "starting" /\ wk'[r].at = "landed" /\ wk'[r].sleep = sleep /\ UNCHANGED <<sleep, started>> /\ ~Down'
    BY <1>3 DEF Lands, TypeOK, StartType, rows, Down
  <2>2. Slept' = Slept /\ Slept \subseteq Nat
    BY <2>1 DEF Slept
  <2>3. \A n \in Slept : n < sleep
    BY <1>0, <2>1, <2>2 DEF StartInv
  <2>4. StartedOnceASleep'
    BY <2>1 DEF StartInv, StartedOnceASleep
  <2>5. \A q \in Requests : wk'[q].at # "starting" /\ (wk'[q].at = "landed" => q = r)
    BY <1>1, <2>1
  <2> QED BY <1>0, <2>1, <2>2, <2>3, <2>4, <2>5 DEF StartInv
<1>4. CASE Starts(r)
  <2> DEFINE m == wk[r].sleep
  <2>1. wk[r].at = "landed" /\ wk'[r].at = "idle" /\ UNCHANGED <<box, sleep>> /\ started' = [started EXCEPT ![m] = @ + 1]
    BY <1>4, Idle DEF Starts, Finish, TypeOK, aws
  <2>2. m <= sleep /\ m \notin Slept /\ (m = sleep => ~Down)
    BY <2>1 DEF StartInv
  <2>3. m \in 0 .. MaxEvents /\ started[m] = 0
    <3>1. m \in 0 .. MaxEvents
      BY <1>0, <2>2, DoormanAssumption DEF DoormanAssumption
    <3> QED BY <1>0, <2>2, <3>1 DEF Slept
  <2>4. started'[m] = 1 /\ \A n \in (0 .. MaxEvents) \ {m} : started'[n] = started[n]
    BY <2>1, <2>3 DEF TypeOK
  <2>5. Slept' = Slept \cup {m} /\ Down' = Down
    BY <2>1, <2>3, <2>4 DEF Slept, Down
  <2>6. StartedOnceASleep'
    BY <2>4 DEF StartInv, StartedOnceASleep
  <2>7. \A q \in Requests : wk'[q].at = "idle"
    BY <1>1, <2>1
  <2>8. \A n \in Slept' : n <= sleep' /\ (n = sleep' => ~Down')
    BY <2>1, <2>2, <2>5 DEF StartInv
  <2> QED BY <2>6, <2>7, <2>8 DEF StartInv
<1> QED BY <1>2, <1>3, <1>4

LEMMA StartStep == TypeOK /\ StartInv /\ [Next]_vars => StartInv'
<1> SUFFICES ASSUME TypeOK, StartInv, [Next]_vars PROVE StartInv'
  OBVIOUS
<1> DEFINE Kept == \A r \in Requests : wk'[r].at \in {"starting", "landed"} => wk'[r] = wk[r]
<1>1. ASSUME UNCHANGED <<box, sleep, started>>, Kept PROVE StartInv'
  BY <1>1, StartKept DEF Down
<1>2. ASSUME NEW r \in Requests, RequestStep(r) PROVE StartInv'
  <2>1. UNCHANGED <<box, sleep, started>>
    BY <1>2 DEF RequestStep, Looks, Presses, RequestReads, Knows, HoldEnds, HoldGoesOn, aws, rows
  <2>2. UNCHANGED wk \/ wk' = [wk EXCEPT ![r].at = "reading"]
    BY <1>2 DEF RequestStep, Looks, Presses, RequestReads, Knows, Handles, Wake, HoldEnds, HoldGoesOn
  <2>3. CASE UNCHANGED wk
    BY <1>1, <2>1, <2>3
  <2>4. CASE wk' = [wk EXCEPT ![r].at = "reading"]
    <3>1. wk'[r].at = "reading" /\ \A q \in Requests \ {r} : wk'[q] = wk[q]
      BY <2>4 DEF TypeOK, StartType
    <3> QED BY <1>1, <2>1, <3>1
  <2> QED BY <2>2, <2>3, <2>4
<1>3. ASSUME NEW r \in Requests, WakeReads(r) \/ WakeReturns(r) \/ WithOthers(r) \/ Fails(r) PROVE StartInv'
  <2>1. UNCHANGED <<box, sleep, started>>
    BY <1>3 DEF WakeReads, WakeReturns, WithOthers, Fails, aws, rows
  <2>2. wk'[r].at \notin {"starting", "landed"} /\ \A q \in Requests \ {r} : wk'[q] = wk[q]
    BY <1>3, Idle DEF WakeReads, WakeReturns, WithOthers, Fails, Finish, TypeOK, StartType
  <2> QED BY <1>1, <2>1, <2>2
<1>4. CASE CacheGoes \/ WakeAges \/ NewDay \/ UNCHANGED vars
  BY <1>1, <1>4 DEF CacheGoes, WakeAges, NewDay, vars, aws, memory, rows
<1>5. CASE BoxMoves \/ Stops \/ OthersStart
  <2>1. UNCHANGED <<wk, started>> /\ ((sleep' = sleep /\ (Down' => Down)) \/ sleep' = sleep + 1)
    BY <1>5 DEF BoxMoves, Stops, OthersStart, memory, rows, Down
  <2> QED BY <2>1, StartKept
<1>6. CASE Restart
  <2>1. Kept
    BY <1>6, Idle DEF Restart
  <2> QED BY <1>1, <1>6, <2>1 DEF Restart
<1> QED BY <1>2, <1>3, <1>4, <1>5, <1>6, StartWake DEF Next, WakeStep

-----------------------------------------------------------------------------
(* The 'ready' rows *)

\* A wake that has its row in wake_events is over for the request that decided it.
MarkInv ==
    /\ marked = IF wakes.ready THEN 1 ELSE 0
    /\ wakes.ready => wakes.outcome = "up"
    /\ \A r \in Requests : wk[r].at \in {"with", "asking", "starting", "landed"} => wakes.outcome = "open"

LEMMA MarkKept ==
    ASSUME TypeOK, MarkInv, UNCHANGED <<wakes, marked>> \/ MarkReady,
           \A r \in Requests : wk'[r].at \in {"with", "asking", "starting", "landed"} => wk[r].at \in {"with", "asking", "starting", "landed"}
    PROVE  MarkInv'
<1>1. CASE UNCHANGED <<wakes, marked>>
  BY <1>1 DEF MarkInv
<1>2. CASE wakes.outcome = "up" /\ ~wakes.ready /\ MarkReady
  <2>1. wakes' = [wakes EXCEPT !.ready = TRUE] /\ marked' = marked + 1
    BY <1>2 DEF MarkReady
  <2>2. wakes'.ready /\ wakes'.outcome = "up"
    BY <1>2, <2>1, Zenon DEF TypeOK, WakeType
  <2>3. marked' = 1
    BY <1>2, <2>1 DEF MarkInv
  <2> QED BY <1>2, <2>2, <2>3 DEF MarkInv
<1> QED BY <1>1, <1>2 DEF MarkReady

LEMMA MarkWake ==
    ASSUME TypeOK, MarkInv, NEW r \in Requests, WakeStep(r)
    PROVE  MarkInv'
<1> DEFINE Late == {"with", "asking", "starting", "landed"}
<1>0. wk[r].at # "idle" /\ \A q \in Requests \ {r} : wk[q].at = "idle" /\ wk'[q] = wk[q]
  <2>1. wk[r].at # "idle"
    BY DEF WakeStep, WakeReads, WakeReturns, WithOthers, Asks, Lands, Fails, Starts
  <2>2. \A q \in Requests \ {r} : wk'[q] = wk[q]
    BY DEF WakeStep, WakeReads, WakeReturns, WithOthers, Asks, Lands, Fails, Starts, Finish, TypeOK
  <2> QED BY <2>1, <2>2, OthersIdle
<1>1. CASE WakeReads(r)
  <2>1. wk'[r].at = "reading" /\ UNCHANGED <<wakes, marked>>
    BY <1>1 DEF WakeReads, TypeOK, StartType, rows
  <2> QED BY <1>0, <2>1, MarkKept
<1>2. CASE WakeReturns(r)
  <2>1. marked' = 0 /\ ~wakes'.ready /\ (wk'[r].at \in Late => wakes'.outcome = "open")
    BY <1>2, Idle DEF WakeReturns, NewWake, Finish, TypeOK
  <2> QED BY <1>0, <2>1 DEF MarkInv
<1>3. CASE wk[r].at \in Late /\ UNCHANGED <<wakes, marked>>
  BY <1>0, <1>3, MarkKept
<1>4. CASE wk[r].at \in Late /\ Finish(r) /\ UNCHANGED marked /\ \E o \in {"up", "error"} : wakes' = [wakes EXCEPT !.outcome = o]
  <2>1. wakes.outcome = "open" /\ ~wakes.ready
    BY <1>4 DEF MarkInv
  <2>2. ~wakes'.ready /\ marked' = 0
    BY <1>4, <2>1 DEF MarkInv, TypeOK, WakeType
  <2>3. wk'[r].at = "idle"
    BY <1>4, Idle DEF Finish, TypeOK
  <2> QED BY <1>0, <2>2, <2>3 DEF MarkInv
<1>5. CASE WithOthers(r)
  BY <1>3, <1>4, <1>5 DEF WithOthers, rows
<1>6. CASE Asks(r) \/ Lands(r)
  BY <1>3, <1>6 DEF Asks, Lands, rows
<1>7. CASE Fails(r) \/ Starts(r)
  BY <1>4, <1>7 DEF Fails, Starts, rows
<1> QED BY <1>1, <1>2, <1>5, <1>6, <1>7 DEF WakeStep

LEMMA MarkStep == TypeOK /\ MarkInv /\ [Next]_vars => MarkInv'
<1> SUFFICES ASSUME TypeOK, MarkInv, [Next]_vars PROVE MarkInv'
  OBVIOUS
<1>1. ASSUME NEW r \in Requests, RequestStep(r) PROVE MarkInv'
  <2>1. UNCHANGED <<wakes, marked>> \/ MarkReady
    BY <1>1 DEF RequestStep, Looks, Presses, RequestReads, Knows, Handles, HoldEnds, HoldGoesOn, rows
  <2>2. UNCHANGED wk \/ wk' = [wk EXCEPT ![r].at = "reading"]
    BY <1>1 DEF RequestStep, Looks, Presses, RequestReads, Knows, Handles, Wake, HoldEnds, HoldGoesOn
  <2>3. CASE UNCHANGED wk
    BY <2>1, <2>3, MarkKept
  <2>4. CASE wk' = [wk EXCEPT ![r].at = "reading"]
    <3>1. wk'[r].at = "reading" /\ \A q \in Requests \ {r} : wk'[q] = wk[q]
      BY <2>4 DEF TypeOK, StartType
    <3> QED BY <2>1, <3>1, MarkKept
  <2> QED BY <2>2, <2>3, <2>4
<1>2. CASE WakeAges
  <2>1. wakes'.ready = wakes.ready /\ wakes'.outcome = wakes.outcome
    BY <1>2 DEF WakeAges, TypeOK, WakeType
  <2> QED BY <1>2, <2>1 DEF WakeAges, MarkInv, rows
<1>3. CASE Restart
  BY <1>3, Idle DEF Restart, MarkInv, NoWake
<1>4. CASE CacheGoes \/ NewDay \/ BoxMoves \/ Stops \/ OthersStart \/ UNCHANGED vars
  BY <1>4, MarkKept DEF CacheGoes, NewDay, BoxMoves, Stops, OthersStart, vars, memory, rows
<1> QED BY <1>1, <1>2, <1>3, <1>4, MarkWake DEF Next

-----------------------------------------------------------------------------
(* The note of the day, and all together *)

LEMMA NoteStep == TypeOK /\ NotedOnce /\ [Next]_vars => NotedOnce'
<1> SUFFICES ASSUME TypeOK, NotedOnce, [Next]_vars PROVE NotedOnce'
  OBVIOUS
<1>1. ASSUME UNCHANGED <<today, notes>> PROVE NotedOnce'
  BY <1>1 DEF NotedOnce
<1>2. ASSUME NEW r \in Requests, Starts(r) PROVE NotedOnce'
  BY <1>2, DoormanAssumption DEF Starts, NoticeOverCap, NotedOnce, TypeOK, DoormanAssumption
<1>3. CASE NewDay
  BY <1>3, DoormanAssumption DEF NewDay, NotedOnce, DoormanAssumption
<1>4. ASSUME NEW r \in Requests, RequestStep(r) PROVE UNCHANGED <<today, notes>>
  BY <1>4 DEF RequestStep, Looks, Presses, RequestReads, Knows, HoldEnds, HoldGoesOn, rows
<1>5. ASSUME NEW r \in Requests, WakeStep(r), ~Starts(r) PROVE UNCHANGED <<today, notes>>
  BY <1>5 DEF WakeStep, WakeReads, WakeReturns, WithOthers, Asks, Lands, Fails, rows
<1>6. CASE CacheGoes \/ WakeAges \/ BoxMoves \/ Stops \/ OthersStart \/ Restart \/ UNCHANGED vars
  BY <1>1, <1>6 DEF CacheGoes, WakeAges, BoxMoves, Stops, OthersStart, Restart, vars, rows
<1> QED BY <1>1, <1>2, <1>3, <1>4, <1>5, <1>6 DEF Next

DoorInv == TypeOK /\ StartInv /\ MarkInv /\ NotedOnce

LEMMA DoorInitial == Init => DoorInv
<1> SUFFICES ASSUME Init PROVE DoorInv
  OBVIOUS
<1>1. Slept = {} /\ \A r \in Requests : wk[r].at = "idle"
  BY Idle DEF Init, Slept
<1>2. StartInv
  BY <1>1 DEF Init, StartInv, StartedOnceASleep
<1>3. MarkInv /\ NotedOnce
  BY <1>1, DoormanAssumption DEF Init, MarkInv, NotedOnce, NoWake, DoormanAssumption
<1> QED BY <1>2, <1>3, InitTyped DEF DoorInv

\* wake_events tells what happened: a 'started' row per sleep of the box at the most, a 'ready' row per wake that came
\* up, a note on the days past the cap; whatever requests, restarts and starts by others come in between.
THEOREM EventsAddUpHolds == Spec => []EventsAddUp
<1>1. DoorInv /\ [Next]_vars => DoorInv'
  BY NextTyped, StartStep, MarkStep, NoteStep DEF DoorInv
<1>2. DoorInv => EventsAddUp
  BY DEF DoorInv, StartInv, MarkInv, EventsAddUp, ReadyFollowsWake
<1> QED BY DoorInitial, <1>1, <1>2, PTL DEF Spec
=============================================================================
