------------------------- MODULE NotificationsProofs -------------------------
(***************************************************************************)
(* For any rows, channels, settings, loads and number of dispatches: the   *)
(* state is well typed, dispatchers post an alert once, and the program    *)
(* implements Delivery.                                                    *)
(***************************************************************************)
EXTENDS Notifications, TLAPS, WellFoundedInduction

RowType == [receipt : Receipts, text : Texts, dated : BOOLEAN]
Rows == [Items -> RowType]
CallTable == [Calls -> CallType]

\* What a new dispatch of the rows I looks like.
Dispatch(by, r, I) == [by |-> by, left |-> {<<i, r[i].text>> : i \in I}, cur |-> {}, try |-> 1]

-----------------------------------------------------------------------------
(* The helpers *)

\* There is a first row as long as rows are left: ids are numbers.
LEMMA FirstIs ==
    ASSUME NEW parts \in SUBSET Parts, parts # {}
    PROVE  First(parts) \in parts
<1> DEFINE ids == {p[1] : p \in parts}
<1>0. Items \subseteq Nat
  BY NotificationsAssumption DEF NotificationsAssumption
<1>1. ids \subseteq Nat /\ ids # {}
  BY <1>0 DEF Parts
<1>2. \E x \in ids : \A y \in ids : ~(<<y, x>> \in OpToRel(<, Nat))
  BY <1>1, NatLessThanWellFounded, WFMin
<1>3. PICK x \in ids : \A y \in ids : ~(<<y, x>> \in OpToRel(<, Nat))
  BY <1>2
<1>4. \A y \in ids : x <= y
  <2> TAKE y \in ids
  <2>1. x \in Nat /\ y \in Nat
    BY <1>1
  <2>2. ~(y < x)
    BY <1>3, <2>1 DEF OpToRel
  <2> QED BY <2>1, <2>2
<1>5. \E p \in parts : \A q \in parts : p[1] <= q[1]
  BY <1>4
<1> QED BY <1>5 DEF First

LEMMA MarkedIs ==
    ASSUME NEW r \in Rows, NEW I, NEW x \in Receipts
    PROVE  /\ Marked(r, I, x) \in Rows
           /\ \A i \in Items : /\ Marked(r, I, x)[i].receipt = (IF i \in I THEN x ELSE r[i].receipt)
                               /\ Marked(r, I, x)[i].text = r[i].text
<1>1. ASSUME NEW i \in Items
      PROVE  /\ [r[i] EXCEPT !.receipt = x] \in RowType
             /\ [r[i] EXCEPT !.receipt = x].receipt = x
             /\ [r[i] EXCEPT !.receipt = x].text = r[i].text
  BY DEF Rows, RowType
<1>2. ASSUME NEW i \in Items
      PROVE  Marked(r, I, x)[i] = IF i \in I THEN [r[i] EXCEPT !.receipt = x] ELSE r[i]
  BY DEF Marked
<1>3. Marked(r, I, x) = [i \in Items |-> Marked(r, I, x)[i]]
  BY DEF Marked
<1>4. Marked(r, I, x) \in Rows
  BY <1>1, <1>2, <1>3 DEF Rows
<1> QED BY <1>1, <1>2, <1>4

LEMMA DispatchTyped ==
    ASSUME NEW by \in By, NEW r \in Rows, NEW I \in SUBSET Items
    PROVE  Dispatch(by, r, I) \in CallType
<1>1. \A i \in I : r[i].text \in Texts
  BY DEF Rows, RowType
<1>2. {<<i, r[i].text>> : i \in I} \in SUBSET Parts
  BY <1>1 DEF Parts
<1> QED BY <1>2 DEF Dispatch, CallType

\* A dispatch begins where none was.
LEMMA StartedIs ==
    ASSUME NEW cl \in CallTable, NEW by \in By, NEW r \in Rows, NEW I \in SUBSET Items,
           \E c \in Calls : cl[c].by = "idle"
    PROVE  \E f \in Calls : cl[f].by = "idle" /\ Started(cl, by, r, I) = [cl EXCEPT ![f] = Dispatch(by, r, I)]
<1> DEFINE f == CHOOSE c \in Calls : cl[c].by = "idle"
<1>1. f \in Calls /\ cl[f].by = "idle"
  OBVIOUS
<1>2. Started(cl, by, r, I) = [cl EXCEPT ![f] = [Idle EXCEPT !.by = by, !.left = {<<i, r[i].text>> : i \in I}]]
  BY DEF Started
<1>3. [Idle EXCEPT !.by = by, !.left = {<<i, r[i].text>> : i \in I}] = Dispatch(by, r, I)
  <2> DEFINE L == {<<i, r[i].text>> : i \in I}
             mid == [Idle EXCEPT !.by = by]
  <2>1. mid = [by |-> by, left |-> {}, cur |-> {}, try |-> 1]
    BY DEF Idle
  <2> HIDE DEF mid, L
  <2>2. [mid EXCEPT !.left = L] = [by |-> by, left |-> L, cur |-> {}, try |-> 1]
    BY <2>1
  <2> QED BY <2>2 DEF Dispatch, mid, L
<1> QED BY <1>1, <1>2, <1>3

-----------------------------------------------------------------------------
(* What a step does to the receipts and to the dispatches *)

Queues == {"event", "only", "scan"}

\* A receipt is left, or is made, or is closed without a post, or a change of an action clears it.
Moves(a, b, i) ==
    \/ b = a
    \/ b \in {"skipped", "held"}
    \/ a = "absent" /\ b = "none"
    \/ ChannelOf[i] = "action" /\ a # "absent" /\ b = "none"
RowsMove == \A i \in Items : Moves(row[i].receipt, row'[i].receipt, i)

\* What an action says changes only when its receipt is cleared.
TextsKeep == \A i \in Of("action") :
    row'[i].text = row[i].text \/ (row[i].receipt # "absent" /\ row'[i].receipt = "none")

\* A dispatch that is none of the alerts, of rows that exist, and of actions as they are now.
NewCall(k) ==
    /\ k.by # "alert" /\ k.by # "idle" /\ k.cur = {}
    /\ \A p \in k.left : row'[p[1]].receipt # "absent" /\ (k.by \in Queues => p[1] \in Queued)
    /\ \A p \in k.left : p[1] \in Of("action") => p[2] = row'[p[1]].text
CallsBegin == \A c \in Calls : call'[c] = call[c] \/ (call[c].by = "idle" /\ NewCall(call'[c]))

LEMMA Typed == TypeOK => row \in Rows /\ call \in CallTable
BY DEF TypeOK, Rows, RowType, CallTable

LEMMA IdleTyped == Idle \in CallType
BY DEF Idle, CallType, By

LEMMA BeginsIs ==
    ASSUME TypeOK, NEW by \in By \ {"idle", "alert"}, NEW r \in Rows, NEW I \in SUBSET Items, Free # {},
           \A i \in I : row'[i].receipt # "absent", by \in Queues => I \subseteq Queued,
           \A i \in I \cap Of("action") : r[i].text = row'[i].text,
           call' = Started(call, by, r, I)
    PROVE  call' \in CallTable /\ CallsBegin
<1>1. \E c \in Calls : call[c].by = "idle"
  BY DEF Free
<1>2. call \in CallTable
  BY Typed
<1>3. PICK f \in Calls : call[f].by = "idle" /\ call' = [call EXCEPT ![f] = Dispatch(by, r, I)]
  BY <1>1, <1>2, StartedIs
<1>4. Dispatch(by, r, I) \in CallType
  BY DispatchTyped
<1>5. call' \in CallTable
  BY <1>2, <1>3, <1>4 DEF CallTable
<1>6. NewCall(Dispatch(by, r, I))
  <2> DEFINE k == Dispatch(by, r, I)
  <2>1. \A p \in k.left : p[1] \in I /\ p[2] = r[p[1]].text
    BY DEF Dispatch
  <2>2. k.by = by /\ k.cur = {}
    BY DEF Dispatch
  <2> HIDE DEF k
  <2>3. \A p \in k.left : p[1] \in Of("action") => p[2] = row'[p[1]].text
    BY <2>1
  <2>4. NewCall(k)
    BY <2>1, <2>2, <2>3 DEF NewCall
  <2> QED BY <2>4 DEF k
<1>7. call'[f] = Dispatch(by, r, I) /\ \A c \in Calls \ {f} : call'[c] = call[c]
  BY <1>2, <1>3 DEF CallTable
<1>8. CallsBegin
  BY <1>3, <1>6, <1>7 DEF CallsBegin
<1> QED BY <1>5, <1>8

LEMMA NoneBegins == ASSUME TypeOK, call' = call PROVE call' \in CallTable /\ CallsBegin
BY Typed DEF CallsBegin

\* The events due are skipped or started together.
LEMMA EventsGoIs ==
    ASSUME NEW r \in Rows, NEW cl \in CallTable, NEW by \in {"event", "only"}, NEW forced \in BOOLEAN,
           NEW I \in SUBSET Items, \E c \in Calls : cl[c].by = "idle", EventsGo(by, forced, r, cl, I)
    PROVE  /\ row' \in Rows
           /\ \A i \in Items : row'[i].receipt \in {r[i].receipt, "skipped"} /\ row'[i].text = r[i].text
           /\ \/ call' = cl
              \/ \E f \in Calls : /\ cl[f].by = "idle"
                                  /\ call' = [cl EXCEPT ![f] = Dispatch(by, r, Waiting(r, I))]
                                  /\ row' = r
<1> DEFINE due == Waiting(r, I)
           rule == EventRule(forced)
<1>1. due \in SUBSET Items
  BY DEF Waiting
<1>2. row' = (IF rule = "skip" THEN Marked(r, due, "skipped") ELSE r)
      /\ call' = (IF rule = "send" /\ due # {} THEN Started(cl, by, r, due) ELSE cl)
  BY DEF EventsGo
<1> HIDE DEF due, rule
<1>3. "skipped" \in Receipts
  BY DEF Receipts
<1>4. row' \in Rows /\ \A i \in Items : row'[i].receipt \in {r[i].receipt, "skipped"} /\ row'[i].text = r[i].text
  BY <1>1, <1>2, <1>3, MarkedIs
<1>5. CASE rule = "send" /\ due # {}
  <2>1. by \in By
    BY DEF By
  <2>2. \E f \in Calls : cl[f].by = "idle" /\ Started(cl, by, r, due) = [cl EXCEPT ![f] = Dispatch(by, r, due)]
    BY <1>1, <2>1, StartedIs
  <2> QED BY <1>2, <1>4, <1>5, <2>2 DEF due
<1>6. CASE ~(rule = "send" /\ due # {})
  BY <1>2, <1>4, <1>6
<1> QED BY <1>5, <1>6

\* Of the reports due the newest is started, the others skipped.
LEMMA ReportsGoIs ==
    ASSUME TypeOK, NEW r \in Rows, Free # {}, ReportsGo(r)
    PROVE  /\ row' \in Rows /\ call' \in CallTable /\ CallsBegin
           /\ \A i \in Items : row'[i].receipt \in {r[i].receipt, "skipped"} /\ row'[i].text = r[i].text
<1> DEFINE due == ReportsDue(r)
           newest == {i \in due : \A j \in due : j <= i}
           muted == Muted
           quiet == "quiet" \in mode
<1>1. /\ row' = (IF muted THEN Marked(r, due, "skipped") ELSE IF quiet THEN r ELSE Marked(r, due \ newest, "skipped"))
      /\ call' = (IF muted \/ quiet THEN call ELSE Started(call, "report", r, newest))
  BY DEF ReportsGo
<1>2. /\ due \in SUBSET Items /\ newest \in SUBSET due /\ \A i \in due : r[i].receipt \in {"none", "failed"}
      /\ due \cap Of("action") = {}
  BY DEF ReportsDue, Of
<1> HIDE DEF due, newest, muted, quiet
<1>3. "skipped" \in Receipts
  BY DEF Receipts
<1>4. row' \in Rows /\ \A i \in Items : row'[i].receipt \in {r[i].receipt, "skipped"} /\ row'[i].text = r[i].text
  BY <1>1, <1>2, <1>3, MarkedIs
<1>5. \A i \in newest : row'[i].receipt # "absent"
  BY <1>2, <1>4
<1>6. CASE muted \/ quiet
  BY <1>1, <1>4, <1>6, NoneBegins
<1>7. CASE ~(muted \/ quiet)
  <2>1. "report" \in By \ {"idle", "alert"} /\ "report" \notin Queues /\ newest \in SUBSET Items
        /\ newest \cap Of("action") = {}
    BY <1>2 DEF By, Queues
  <2>2. call' = Started(call, "report", r, newest)
    BY <1>1, <1>7
  <2>3. call' \in CallTable /\ CallsBegin
    BY <1>5, <2>1, <2>2, BeginsIs
  <2> QED BY <1>4, <2>3
<1> QED BY <1>6, <1>7

\* What the steps of rows and of most dispatchers come to.
Quiet == row' \in Rows /\ RowsMove /\ TextsKeep /\ call' \in CallTable /\ CallsBegin

\* A row that is marked and nothing begun.
LEMMA MarkedQuiet ==
    ASSUME TypeOK, NEW i \in Items, NEW x \in {"none", "skipped"}, row[i].receipt = "absent",
           row' = Marked(row, {i}, x), call' = call
    PROVE  Quiet
<1>1. row \in Rows /\ x \in Receipts
  BY Typed DEF Receipts
<1>2. row' \in Rows /\ \A j \in Items : row'[j].text = row[j].text /\ row'[j].receipt = IF j \in {i} THEN x ELSE row[j].receipt
  BY <1>1, MarkedIs
<1>3. RowsMove /\ TextsKeep
  BY <1>2 DEF RowsMove, Moves, TextsKeep, Of
<1> QED BY <1>2, <1>3, NoneBegins DEF Quiet

LEMMA ExplainQuiet ==
    ASSUME TypeOK, NEW i \in Items, NEW pending \in BOOLEAN, Explain(i, pending)
    PROVE  Quiet
<1>1. row \in Rows /\ "why" \in Texts
  BY Typed DEF Texts
<1>2. row' = [row EXCEPT ![i].text = "why"] /\ row[i].receipt # "absent" /\ i \notin Of("action")
  BY DEF Explain, Of
<1> DEFINE new == [row[i] EXCEPT !.text = "why"]
<1>3. new \in RowType /\ new.receipt = row[i].receipt
  BY <1>1 DEF Rows, RowType
<1>4. row' = [row EXCEPT ![i] = new]
  BY <1>2
<1> HIDE DEF new
<1>5. /\ row' \in Rows /\ \A j \in Items : row'[j].receipt = row[j].receipt
      /\ \A j \in Of("action") : row'[j] = row[j]
  BY <1>1, <1>2, <1>3, <1>4 DEF Rows, Of
<1>6. RowsMove /\ TextsKeep
  BY <1>5 DEF RowsMove, Moves, TextsKeep, Of
<1>7. CASE call' = call
  BY <1>5, <1>6, <1>7, NoneBegins DEF Quiet
<1>8. CASE call' # call
  <2>1. Free # {} /\ call' = Started(call, "reply", row', {i})
    BY <1>8 DEF Explain
  <2>2. "reply" \in By \ {"idle", "alert"} /\ "reply" \notin Queues
    BY DEF By, Queues
  <2>3. (\A j \in {i} : row'[j].receipt # "absent") /\ {i} \cap Of("action") = {}
    BY <1>2, <1>5
  <2>4. call' \in CallTable /\ CallsBegin
    BY <1>5, <2>1, <2>2, <2>3, BeginsIs
  <2> QED BY <1>5, <1>6, <2>4 DEF Quiet
<1> QED BY <1>7, <1>8

LEMMA RevertedQuiet ==
    ASSUME TypeOK, NEW i \in Items, Reverted(i)
    PROVE  Quiet
<1>1. row \in Rows /\ "reverted" \in Texts /\ "none" \in Receipts
  BY Typed DEF Texts, Receipts
<1>2. row' = [row EXCEPT ![i].receipt = "none", ![i].text = "reverted"] /\ ChannelOf[i] = "action"
      /\ row[i].receipt # "absent" /\ call' = call
  BY DEF Reverted
<1> DEFINE mid == [row EXCEPT ![i] = [row[i] EXCEPT !.receipt = "none"]]
           new == [mid[i] EXCEPT !.text = "reverted"]
<1>3. row' = [mid EXCEPT ![i] = new]
  BY <1>2
<1>4. mid \in Rows /\ mid[i].receipt = "none" /\ \A j \in Items \ {i} : mid[j] = row[j]
  <2>1. [row[i] EXCEPT !.receipt = "none"] \in RowType /\ [row[i] EXCEPT !.receipt = "none"].receipt = "none"
    BY <1>1 DEF Rows, RowType
  <2> QED BY <1>1, <2>1 DEF Rows
<1> HIDE DEF mid
<1>5. new \in RowType /\ new.receipt = "none"
  BY <1>1, <1>4 DEF Rows, RowType
<1> HIDE DEF new
<1>6. /\ row' \in Rows /\ \A j \in Items \ {i} : row'[j] = row[j]
      /\ row'[i].receipt = "none"
  BY <1>3, <1>4, <1>5 DEF Rows
<1>7. RowsMove /\ TextsKeep
  BY <1>2, <1>6 DEF RowsMove, Moves, TextsKeep, Of
<1> QED BY <1>2, <1>6, <1>7, NoneBegins DEF Quiet

LEMMA QueueQuiet ==
    ASSUME TypeOK, NEW i \in Items, Queue(i)
    PROVE  Quiet
<1> DEFINE r == Marked(row, {i}, "none")
           forced == i \in Forced
<1>1. row \in Rows /\ call \in CallTable /\ "none" \in Receipts
  BY Typed DEF Receipts
<1>2. r \in Rows /\ \A j \in Items : r[j].text = row[j].text /\ r[j].receipt = IF j \in {i} THEN "none" ELSE row[j].receipt
  BY <1>1, MarkedIs
<1>3. row[i].receipt = "absent" /\ ChannelOf[i] = "event" /\ Free # {} /\ EventsGo("only", forced, r, call, {i})
  BY DEF Queue, Made
<1>4. \E c \in Calls : call[c].by = "idle"
  BY <1>3 DEF Free
<1> HIDE DEF r, forced
<1>5. /\ row' \in Rows
      /\ \A j \in Items : row'[j].receipt \in {r[j].receipt, "skipped"} /\ row'[j].text = r[j].text
      /\ \/ call' = call
         \/ \E f \in Calls : /\ call[f].by = "idle"
                             /\ call' = [call EXCEPT ![f] = Dispatch("only", r, Waiting(r, {i}))]
                             /\ row' = r
  <2>1. (i \in Forced) \in BOOLEAN
    OBVIOUS
  <2>2. forced \in BOOLEAN
    BY <2>1 DEF forced
  <2> QED BY <1>1, <1>2, <1>3, <1>4, <2>2, EventsGoIs
<1>6. RowsMove /\ TextsKeep
  BY <1>2, <1>3, <1>5 DEF RowsMove, Moves, TextsKeep, Of
<1>7. CASE call' = call
  BY <1>5, <1>6, <1>7, NoneBegins DEF Quiet
<1>8. CASE call' # call
  <2>1. PICK f \in Calls : /\ call[f].by = "idle"
                           /\ call' = [call EXCEPT ![f] = Dispatch("only", r, Waiting(r, {i}))]
                           /\ row' = r
    BY <1>5, <1>8
  <2> DEFINE D == Waiting(r, {i})
  <2>2. D \in SUBSET {i}
    BY DEF Waiting
  <2> HIDE DEF D
  <2>3. Dispatch("only", r, D) \in CallType
    BY <1>2, <2>2, DispatchTyped DEF By
  <2>4. NewCall(Dispatch("only", r, D))
    BY <1>2, <1>3, <2>1, <2>2 DEF NewCall, Dispatch, Queued, Of
  <2>5. call' \in CallTable /\ CallsBegin
    BY <1>1, <2>1, <2>3, <2>4 DEF CallTable, CallsBegin, D
  <2> QED BY <1>5, <1>6, <2>5 DEF Quiet
<1> QED BY <1>7, <1>8

LEMMA FindingsQuiet ==
    ASSUME TypeOK, NEW i \in Items, NewFindings(i)
    PROVE  Quiet
<1>0. row[i].receipt = "absent" /\ ChannelOf[i] = "scan" /\ Free # {}
  BY DEF NewFindings, Made
<1>1. CASE "quiet" \in mode
  <2>1. row' = Marked(row, {i}, "skipped") /\ call' = call
    BY <1>1 DEF NewFindings
  <2> QED BY <1>0, <2>1, MarkedQuiet
<1>2. CASE "quiet" \notin mode
  <2>1. row' = Marked(row, {i}, "none") /\ call' = Started(call, "scan", row', {i})
    BY <1>2 DEF NewFindings
  <2>2. row \in Rows /\ "none" \in Receipts
    BY Typed DEF Receipts
  <2>3. row' \in Rows /\ \A j \in Items : row'[j].text = row[j].text /\ row'[j].receipt = IF j \in {i} THEN "none" ELSE row[j].receipt
    BY <2>1, <2>2, MarkedIs
  <2>4. RowsMove /\ TextsKeep
    BY <1>0, <2>3 DEF RowsMove, Moves, TextsKeep, Of
  <2>5. "scan" \in By \ {"idle", "alert"} /\ {i} \subseteq Queued /\ {i} \cap Of("action") = {}
        /\ \A j \in {i} : row'[j].receipt # "absent"
    BY <1>0, <2>3 DEF By, Queued, Of
  <2>6. call' \in CallTable /\ CallsBegin
    BY <1>0, <2>1, <2>3, <2>5, BeginsIs
  <2> QED BY <2>3, <2>4, <2>6 DEF Quiet
<1> QED BY <1>1, <1>2

LEMMA CompleteQuiet ==
    ASSUME TypeOK, NEW i \in Items, CompleteReport(i)
    PROVE  Quiet
<1>0. row[i].receipt = "absent" /\ Free # {} /\ row \in Rows /\ {"none", "held"} \subseteq Receipts
  BY Typed DEF CompleteReport, Made, Receipts
<1>1. ASSUME row' = Marked(row, {i}, "held"), call' = call PROVE Quiet
  <2>1. row' \in Rows /\ \A j \in Items : row'[j].text = row[j].text /\ row'[j].receipt = IF j \in {i} THEN "held" ELSE row[j].receipt
    BY <1>0, <1>1, MarkedIs
  <2>2. RowsMove /\ TextsKeep
    BY <2>1 DEF RowsMove, Moves, TextsKeep, Of
  <2> QED BY <1>1, <2>1, <2>2, NoneBegins DEF Quiet
<1>2. ASSUME ReportsGo(Marked(row, {i}, "none")) PROVE Quiet
  <2> DEFINE r == Marked(row, {i}, "none")
  <2>1. r \in Rows /\ \A j \in Items : r[j].text = row[j].text /\ r[j].receipt = IF j \in {i} THEN "none" ELSE row[j].receipt
    BY <1>0, MarkedIs
  <2>2. ReportsGo(r)
    BY <1>2
  <2> HIDE DEF r
  <2>3. row' \in Rows /\ call' \in CallTable /\ CallsBegin /\ \A j \in Items : row'[j].receipt \in {r[j].receipt, "skipped"} /\ row'[j].text = r[j].text
    BY <1>0, <2>1, <2>2, ReportsGoIs
  <2>4. RowsMove /\ TextsKeep
    BY <1>0, <2>1, <2>3 DEF RowsMove, Moves, TextsKeep, Of
  <2> QED BY <2>3, <2>4 DEF Quiet
<1> QED BY <1>1, <1>2 DEF CompleteReport

LEMMA HandQuiet ==
    ASSUME TypeOK, NEW i \in Items, SendByHand(i)
    PROVE  Quiet
<1>1. /\ row[i].receipt # "absent" /\ Free # {} /\ call' = Started(call, "hand", row, {i}) /\ row' = row
      /\ {i} \cap Of("action") = {}
  BY DEF SendByHand, Of
<1>2. "hand" \in By \ {"idle", "alert"} /\ "hand" \notin Queues /\ row \in Rows /\ row' \in Rows
  BY <1>1, Typed DEF By, Queues
<1>3. call' \in CallTable /\ CallsBegin
  BY <1>1, <1>2, BeginsIs
<1> QED BY <1>1, <1>2, <1>3 DEF Quiet, RowsMove, Moves, TextsKeep, Of

LEMMA DispatchActionsQuiet ==
    ASSUME TypeOK, DispatchActions
    PROVE  Quiet
<1> DEFINE due == Waiting(row, Of("action"))
           muted == Muted
<1>1. /\ Free # {}
      /\ row' = (IF muted THEN Marked(row, due, "skipped") ELSE row)
      /\ call' = (IF muted \/ "quiet" \in mode THEN call ELSE Started(call, "action", row, due))
  BY DEF DispatchActions
<1>2. due \in SUBSET Items /\ \A i \in due : row[i].receipt = "none"
  BY DEF Waiting, Of
<1> HIDE DEF due, muted
<1>3. row \in Rows /\ "skipped" \in Receipts /\ "action" \in By \ {"idle", "alert"} /\ "action" \notin Queues
  BY Typed DEF Receipts, By, Queues
<1>4. row' \in Rows /\ \A i \in Items : row'[i].receipt \in {row[i].receipt, "skipped"} /\ row'[i].text = row[i].text
  BY <1>1, <1>2, <1>3, MarkedIs
<1>5. RowsMove /\ TextsKeep
  BY <1>4 DEF RowsMove, Moves, TextsKeep, Of
<1>6. CASE call' = call
  BY <1>4, <1>5, <1>6, NoneBegins DEF Quiet
<1>7. CASE call' # call
  <2>1. call' = Started(call, "action", row, due)
    BY <1>1, <1>7
  <2>2. \A i \in due : row'[i].receipt # "absent"
    BY <1>2, <1>4
  <2>3. call' \in CallTable /\ CallsBegin
    <3>1. \A i \in due \cap Of("action") : row[i].text = row'[i].text
      BY <1>2, <1>4
    <3> QED BY <1>1, <1>2, <1>3, <2>1, <2>2, <3>1, BeginsIs
  <2> QED BY <1>4, <1>5, <2>3 DEF Quiet
<1> QED BY <1>6, <1>7

LEMMA DispatchReportsQuiet ==
    ASSUME TypeOK, DispatchReports
    PROVE  Quiet
<1>1. row \in Rows /\ Free # {} /\ ReportsGo(row)
  BY Typed DEF DispatchReports
<1>2. row' \in Rows /\ call' \in CallTable /\ CallsBegin /\ \A i \in Items : row'[i].receipt \in {row[i].receipt, "skipped"} /\ row'[i].text = row[i].text
  BY <1>1, ReportsGoIs
<1> QED BY <1>2 DEF Quiet, RowsMove, Moves, TextsKeep, Of

\* Every step of a row, and the sweeps of actions and reports.
LEMMA RowStepQuiet ==
    ASSUME TypeOK, NEW i \in Items, RowStep(i)
    PROVE  Quiet /\ UNCHANGED <<mode, sweeping, restarts, history>>
           /\ acked' \subseteq Of("alert") /\ aged' \subseteq Of("alert")
<1>0. acked \subseteq Of("alert") /\ aged \subseteq Of("alert")
  BY DEF TypeOK
<1>1. ASSUME row' = row, call' = call PROVE Quiet
  BY <1>1, Typed, NoneBegins DEF Quiet, RowsMove, Moves, TextsKeep, Of
<1>2. CASE Raise(i)
  <2>1. PICK x \in {"none", "skipped"} : row' = Marked(row, {i}, x)
    BY <1>2 DEF Raise
  <2>2. row[i].receipt = "absent" /\ call' = call
    BY <1>2 DEF Raise, Made
  <2>3. Quiet
    BY <2>1, <2>2, MarkedQuiet
  <2> QED BY <1>0, <1>2, <2>3 DEF Raise
<1>3. CASE Acknowledge(i) \/ Reopen(i) \/ Ages(i)
  BY <1>0, <1>1, <1>3 DEF Acknowledge, Reopen, Ages, Of
<1>4. CASE Explain(i, TRUE) \/ Explain(i, FALSE)
  BY <1>0, <1>4, ExplainQuiet DEF Explain
<1>5. CASE Queue(i)
  BY <1>0, <1>5, QueueQuiet DEF Queue
<1>6. CASE NewFindings(i)
  BY <1>0, <1>6, FindingsQuiet DEF NewFindings
<1>7. CASE Applied(i)
  <2>1. Quiet
    BY <1>7, MarkedQuiet DEF Applied, Made
  <2> QED BY <1>0, <1>7, <2>1 DEF Applied
<1>8. CASE Reverted(i)
  BY <1>0, <1>8, RevertedQuiet DEF Reverted
<1>9. CASE CompleteReport(i)
  BY <1>0, <1>9, CompleteQuiet DEF CompleteReport
<1>10. CASE SendByHand(i)
  BY <1>0, <1>10, HandQuiet DEF SendByHand
<1> QED BY <1>2, <1>3, <1>4, <1>5, <1>6, <1>7, <1>8, <1>9, <1>10 DEF RowStep

-----------------------------------------------------------------------------
(* The sweep of the alerts, and the dispatches *)

LEMMA SweepIs ==
    ASSUME TypeOK, SweepAlerts
    PROVE  /\ row' \in Rows /\ call' \in CallTable
           /\ \A i \in Items : row'[i].receipt \in {row[i].receipt, "skipped"} /\ row'[i].text = row[i].text
           /\ \E f \in Calls : /\ call[f].by = "idle"
                               /\ call' = [call EXCEPT ![f] = Dispatch("alert", row', Waiting(row', Of("alert")))]
<1> DEFINE old == Waiting(row, aged)
           due == Waiting(row', Of("alert"))
<1>1. /\ Free # {} /\ row' = Marked(row, old, "skipped")
      /\ call' = Started(call, "alert", row', due)
  BY DEF SweepAlerts
<1>2. row \in Rows /\ call \in CallTable /\ "skipped" \in Receipts /\ "alert" \in By
  BY Typed DEF Receipts, By
<1>3. due \in SUBSET Items
  BY DEF Waiting, Of
<1> HIDE DEF old, due
<1>4. row' \in Rows /\ \A i \in Items : row'[i].receipt \in {row[i].receipt, "skipped"} /\ row'[i].text = row[i].text
  BY <1>1, <1>2, MarkedIs
<1>5. \E c \in Calls : call[c].by = "idle"
  BY <1>1 DEF Free
<1>6. PICK f \in Calls : call[f].by = "idle" /\ Started(call, "alert", row', due) = [call EXCEPT ![f] = Dispatch("alert", row', due)]
  BY <1>2, <1>3, <1>4, <1>5, StartedIs
<1>7. Dispatch("alert", row', due) \in CallType
  BY <1>2, <1>3, <1>4, DispatchTyped
<1>8. call' \in CallTable
  BY <1>1, <1>2, <1>6, <1>7 DEF CallTable
<1> QED BY <1>1, <1>4, <1>6, <1>8 DEF due

\* A dispatch's next row.
LEMMA TakeIs ==
    ASSUME TypeOK, NEW c \in Calls, Take(c)
    PROVE  \E p \in call[c].left, cur \in SUBSET Parts, try \in 1 .. 2 :
               /\ p[1] \in Items /\ \A q \in cur : q[1] = p[1] /\ \A r \in cur : r = q
               /\ \A q \in cur : q = p \/ q[2] = row[q[1]].text
               /\ call[c].cur = {}
               /\ call' = [call EXCEPT ![c] = [by |-> call[c].by, left |-> call[c].left \ {p}, cur |-> cur, try |-> try]]
               /\ call' \in CallTable /\ row' \in Rows
               /\ \/ /\ row' = Marked(row, {p[1]}, "skipped") /\ call[c].by = "alert" /\ UNCHANGED history
                  \/ /\ row' = row /\ cur # {} /\ reached' = reached
                     /\ tries' \in {tries, [tries EXCEPT ![p[1]] = @ + 1]} /\ tries' \in [Items -> 0 .. Enough]
                     /\ tries' # tries => call[c].by = "alert" \/ call[c].by \in Queues
<1> DEFINE k == call[c]
           part == First(k.left)
           i == part[1]
           text == IF k.by = "alert" THEN row[i].text ELSE part[2]
<1>1. k \in CallType /\ row \in Rows /\ call \in CallTable
  BY Typed DEF CallTable
<1>2. k.cur = {} /\ k.left # {} /\ k.left \in SUBSET Parts /\ k.try \in 1 .. 2 /\ k.by \in By
  BY <1>1 DEF Take, CallType
<1>3. part \in k.left
  BY <1>2, FirstIs
<1>4. part \in Items \X Texts
  BY <1>2, <1>3 DEF Parts
<1>5. i \in Items /\ text \in Texts
  <2>1. i \in Items /\ part[2] \in Texts
    BY <1>4
  <2> QED BY <1>1, <2>1 DEF Rows, RowType
<1>6. k = [by |-> k.by, left |-> k.left, cur |-> k.cur, try |-> k.try]
  BY <1>1 DEF CallType
<1>7. CASE k.by = "alert" /\ ~Passes(i)
  <2>1. row' = Marked(row, {i}, "skipped") /\ call' = [call EXCEPT ![c].left = @ \ {part}] /\ UNCHANGED history
    BY <1>7 DEF Take
  <2> DEFINE new == [by |-> k.by, left |-> k.left \ {part}, cur |-> {}, try |-> k.try]
  <2> HIDE DEF k, part
  <2>2. [k EXCEPT !.left = @ \ {part}] = new
    BY <1>2, <1>6
  <2>3. call' = [call EXCEPT ![c] = new]
    BY <2>1, <2>2 DEF k
  <2>4. new \in CallType
    BY <1>2 DEF CallType
  <2> HIDE DEF new
  <2>5. call' \in CallTable
    BY <1>1, <2>3, <2>4 DEF CallTable
  <2>6. row' \in Rows
    BY <1>1, <2>1, MarkedIs DEF Receipts
  <2> QED BY <1>2, <1>3, <1>5, <1>7, <2>1, <2>3, <2>5, <2>6 DEF k, new
<1>8. CASE ~(k.by = "alert" /\ ~Passes(i))
  <2>1. /\ call' = [call EXCEPT ![c].left = @ \ {part}, ![c].cur = {<<i, text>>}, ![c].try = 1]
        /\ tries' = IF Counted(k.by) /\ tries[i] < Enough THEN [tries EXCEPT ![i] = @ + 1] ELSE tries
        /\ row' = row /\ reached' = reached
    BY <1>8 DEF Take
  <2> DEFINE new == [by |-> k.by, left |-> k.left \ {part}, cur |-> {<<i, text>>}, try |-> 1]
             m1 == [call EXCEPT ![c] = [k EXCEPT !.left = @ \ {part}]]
             m2 == [m1 EXCEPT ![c] = [m1[c] EXCEPT !.cur = {<<i, text>>}]]
             m3 == [m2 EXCEPT ![c] = [m2[c] EXCEPT !.try = 1]]
  <2>2. call' = m3
    BY <2>1
  <2> HIDE DEF text, part, k
  <2>3. [k EXCEPT !.left = @ \ {part}] = [by |-> k.by, left |-> k.left \ {part}, cur |-> {}, try |-> k.try]
    BY <1>2, <1>6
  <2>4. m1[c] = [by |-> k.by, left |-> k.left \ {part}, cur |-> {}, try |-> k.try] /\ DOMAIN m1 = Calls
        /\ \A d \in Calls \ {c} : m1[d] = call[d]
    BY <1>1, <2>3 DEF CallTable
  <2> HIDE DEF m1
  <2>5. m2[c] = [by |-> k.by, left |-> k.left \ {part}, cur |-> {<<i, text>>}, try |-> k.try] /\ DOMAIN m2 = Calls
        /\ \A d \in Calls \ {c} : m2[d] = call[d]
    <3>1. [m1[c] EXCEPT !.cur = {<<i, text>>}] = [by |-> k.by, left |-> k.left \ {part}, cur |-> {<<i, text>>}, try |-> k.try]
      <4> DEFINE u == {<<i, text>>}
                 l == k.left \ {part}
      <4>1. m1[c] = [by |-> k.by, left |-> l, cur |-> {}, try |-> k.try]
        BY <2>4
      <4> HIDE DEF u, l
      <4>2. [m1[c] EXCEPT !.cur = u] = [by |-> k.by, left |-> l, cur |-> u, try |-> k.try]
        BY <4>1
      <4> QED BY <4>2 DEF u, l
    <3> QED BY <2>4, <3>1
  <2> HIDE DEF m2
  <2>6. m3 = [m2 EXCEPT ![c] = new]
    <3>1. [m2[c] EXCEPT !.try = 1] = new
      <4> DEFINE u == {<<i, text>>}
                 l == k.left \ {part}
      <4>1. m2[c] = [by |-> k.by, left |-> l, cur |-> u, try |-> k.try]
        BY <2>5
      <4> HIDE DEF u, l
      <4>2. [m2[c] EXCEPT !.try = 1] = [by |-> k.by, left |-> l, cur |-> u, try |-> 1]
        BY <4>1
      <4> QED BY <4>2 DEF u, l
    <3> QED BY <3>1
  <2>7. m3 = [call EXCEPT ![c] = new]
    <3> HIDE DEF m3, new
    <3>1. m3 = [d \in Calls |-> IF d = c THEN new ELSE m2[d]]
      BY <2>5, <2>6
    <3>2. [call EXCEPT ![c] = new] = [d \in Calls |-> IF d = c THEN new ELSE call[d]]
      BY <1>1 DEF CallTable
    <3> QED BY <2>5, <3>1, <3>2
  <2>8. <<i, text>> \in Parts /\ {<<i, text>>} \in SUBSET Parts
    BY <1>5 DEF Parts
  <2>9. new \in CallType
    BY <1>2, <2>8 DEF CallType
  <2> HIDE DEF new, m3
  <2>10. call' = [call EXCEPT ![c] = new] /\ call' \in CallTable
    BY <1>1, <2>2, <2>7, <2>9 DEF CallTable
  <2>11. tries' \in {tries, [tries EXCEPT ![i] = @ + 1]} /\ tries' \in [Items -> 0 .. Enough]
    <3>1. tries \in [Items -> 0 .. Enough] /\ Enough \in Nat
      BY NotificationsAssumption DEF TypeOK, Enough, NotificationsAssumption
    <3> QED BY <1>5, <2>1, <3>1
  <2>12. tries' # tries => k.by = "alert" \/ k.by \in Queues
    BY <2>1 DEF Counted, Queues
  <2>13. \A q \in {<<i, text>>} : q[1] = i /\ \A r \in {<<i, text>>} : r = q
    OBVIOUS
  <2>14. \A q \in {<<i, text>>} : q = part \/ q[2] = row[q[1]].text
    <3>1. text = row[i].text \/ text = part[2]
      BY DEF text
    <3>2. part = <<part[1], part[2]>>
      BY <1>4
    <3> QED BY <3>1, <3>2
  <2> QED
    <3> DEFINE cur == {<<i, text>>}
    <3>1. 1 \in 1 .. 2 /\ cur # {}
      OBVIOUS
    <3> HIDE DEF cur
    <3>2. /\ part[1] \in Items /\ (\A q \in cur : q[1] = part[1] /\ \A r \in cur : r = q)
          /\ \A q \in cur : q = part \/ q[2] = row[q[1]].text
      BY <1>5, <2>13, <2>14 DEF cur
    <3>3. call' = [call EXCEPT ![c] = [by |-> call[c].by, left |-> call[c].left \ {part}, cur |-> cur, try |-> 1]]
      BY <2>10 DEF new, k, cur
    <3>4. part \in call[c].left /\ cur \in SUBSET Parts /\ call[c].cur = {}
      BY <1>2, <1>3, <2>8 DEF k, cur
    <3>5. /\ row' = row /\ cur # {} /\ reached' = reached
          /\ tries' \in {tries, [tries EXCEPT ![part[1]] = @ + 1]} /\ tries' \in [Items -> 0 .. Enough]
          /\ tries' # tries => call[c].by = "alert" \/ call[c].by \in Queues
      BY <2>1, <2>11, <2>12, <3>1 DEF k
    <3>6. call' \in CallTable /\ row' \in Rows
      BY <1>1, <2>1, <2>10
    <3> HIDE DEF k
    <3> QED BY <3>1, <3>2, <3>3, <3>4, <3>5, <3>6
<1> QED BY <1>7, <1>8

LEMMA ReceiptIs ==
    ASSUME TypeOK, NEW c \in Calls, NEW i \in Items, NEW ok \in BOOLEAN, Receipt(c, i, ok)
    PROVE  /\ row' \in Rows /\ \A j \in Items \ {i} : row'[j].receipt = row[j].receipt
           /\ row'[i].receipt = IF call[c].by = "reply" THEN row[i].receipt ELSE IF ok THEN "sent" ELSE "failed"
           /\ \A j \in Items : row'[j].text = row[j].text
<1>0. row \in Rows /\ {"sent", "failed"} \subseteq Receipts /\ row[i].dated \in BOOLEAN
  BY Typed DEF Receipts, Rows, RowType
<1>1. CASE call[c].by = "reply"
  <2> DEFINE new == [row[i] EXCEPT !.dated = row[i].dated \/ ok]
  <2>1. row' = [row EXCEPT ![i] = new]
    <3>1. row' = [row EXCEPT ![i].dated = @ \/ ok]
      BY <1>1, Zenon DEF Receipt
    <3> QED BY <3>1
  <2>2. (row[i].dated \/ ok) \in BOOLEAN
    BY <1>0
  <2>3. new \in RowType /\ new.receipt = row[i].receipt /\ new.text = row[i].text
    <3> DEFINE b == row[i].dated \/ ok
    <3> HIDE DEF b
    <3>1. b \in BOOLEAN
      BY <2>2 DEF b
    <3>2. [row[i] EXCEPT !.dated = b] \in RowType /\ [row[i] EXCEPT !.dated = b].receipt = row[i].receipt
          /\ [row[i] EXCEPT !.dated = b].text = row[i].text
      BY <1>0, <3>1 DEF Rows, RowType
    <3> QED BY <3>2 DEF b
  <2> HIDE DEF new
  <2> QED BY <1>0, <1>1, <2>1, <2>3 DEF Rows
<1>2. CASE call[c].by # "reply" /\ ChannelOf[i] = "report"
  <2> DEFINE x == IF ok THEN "sent" ELSE "failed"
             b == row[i].dated \/ ok
             mid == [row EXCEPT ![i] = [row[i] EXCEPT !.dated = b]]
             new == [mid[i] EXCEPT !.receipt = x]
  <2>1. row' = [mid EXCEPT ![i] = new]
    BY <1>2 DEF Receipt
  <2>2. b \in BOOLEAN /\ x \in Receipts
    BY <1>0
  <2> HIDE DEF b, x
  <2>3. mid \in Rows /\ mid[i].text = row[i].text /\ \A j \in Items \ {i} : mid[j] = row[j]
    <3>1. [row[i] EXCEPT !.dated = b] \in RowType /\ [row[i] EXCEPT !.dated = b].text = row[i].text
      BY <1>0, <2>2 DEF Rows, RowType
    <3> QED BY <1>0, <3>1 DEF Rows
  <2> HIDE DEF mid
  <2>4. new \in RowType /\ new.receipt = x /\ new.text = row[i].text
    BY <2>2, <2>3 DEF Rows, RowType
  <2> HIDE DEF new
  <2>5. /\ row' \in Rows /\ row'[i].receipt = x /\ row'[i].text = row[i].text
        /\ \A j \in Items \ {i} : row'[j] = row[j]
    BY <2>1, <2>3, <2>4 DEF Rows
  <2> QED BY <1>2, <2>5 DEF x
<1>3. CASE call[c].by # "reply" /\ ChannelOf[i] # "report"
  <2> DEFINE x == IF ok THEN "sent" ELSE "failed"
  <2>1. row' = Marked(row, {i}, x)
    BY <1>3 DEF Receipt
  <2>2. x \in Receipts
    BY <1>0
  <2> HIDE DEF x
  <2>3. row' \in Rows /\ \A j \in Items : row'[j].text = row[j].text /\ row'[j].receipt = IF j \in {i} THEN x ELSE row[j].receipt
    BY <1>0, <2>1, <2>2, MarkedIs
  <2> QED BY <1>3, <2>3 DEF x
<1> QED BY <1>1, <1>2, <1>3

\* One end of a post: it is tried again, or its receipt is written.
Written(c, p, ok) ==
    /\ call' = [call EXCEPT ![c] = [by |-> call[c].by, left |-> call[c].left, cur |-> {}, try |-> call[c].try]]
    /\ \A j \in Items \ {p[1]} : row'[j].receipt = row[j].receipt
    /\ row'[p[1]].receipt = IF call[c].by = "reply" THEN row[p[1]].receipt ELSE IF ok THEN "sent" ELSE "failed"
    /\ \A j \in Items : row'[j].text = row[j].text
    /\ ok => p \in reached'
Again(c) ==
    /\ call' = [call EXCEPT ![c] = [by |-> call[c].by, left |-> call[c].left, cur |-> call[c].cur, try |-> 2]]
    /\ row' = row

LEMMA AnswerIs ==
    ASSUME TypeOK, NEW c \in Calls, Answers(c) \/ NoAnswer(c)
    PROVE  \E p \in call[c].cur, ok \in BOOLEAN :
               /\ p \in Parts /\ p[1] \in Items /\ reached' \in {reached, reached \cup {p}} /\ tries' = tries
               /\ call' \in CallTable /\ row' \in Rows
               /\ Again(c) \/ Written(c, p, ok)
<1> DEFINE k == call[c]
           done == [by |-> k.by, left |-> k.left, cur |-> {}, try |-> k.try]
           again == [by |-> k.by, left |-> k.left, cur |-> k.cur, try |-> 2]
<1>1. k \in CallType /\ call \in CallTable /\ row \in Rows
  BY Typed DEF CallTable
<1>2. k = [by |-> k.by, left |-> k.left, cur |-> k.cur, try |-> k.try]
  BY <1>1 DEF CallType
<1>3. \A p \in k.cur : p \in Parts /\ p[1] \in Items
  BY <1>1 DEF CallType, Parts
<1>4. [k EXCEPT !.cur = {}] = done /\ [k EXCEPT !.try = 2] = again
  <2> HIDE DEF k
  <2> QED BY <1>2
<1>5. done \in CallType /\ again \in CallType
  BY <1>1 DEF CallType
<1>6. ASSUME call' = [call EXCEPT ![c].cur = {}] PROVE call' = [call EXCEPT ![c] = done] /\ call' \in CallTable
  <2> HIDE DEF done
  <2>1. call' = [call EXCEPT ![c] = done]
    BY <1>4, <1>6
  <2> QED BY <1>1, <1>5, <2>1 DEF CallTable
<1>7. ASSUME call' = [call EXCEPT ![c].try = 2] PROVE call' = [call EXCEPT ![c] = again] /\ call' \in CallTable
  <2> HIDE DEF again
  <2>1. call' = [call EXCEPT ![c] = again]
    BY <1>4, <1>7
  <2> QED BY <1>1, <1>5, <2>1 DEF CallTable
<1>8. CASE Answers(c)
  <2>1. PICK p \in k.cur, ok \in BOOLEAN :
            /\ reached' = IF ok THEN reached \cup {p} ELSE reached
            /\ Receipt(c, p[1], ok) /\ call' = [call EXCEPT ![c].cur = {}] /\ tries' = tries
    BY <1>8 DEF Answers
  <2>2. p \in Parts /\ p[1] \in Items
    BY <1>3, <2>1
  <2>3. Receipt(c, p[1], ok) /\ call' = [call EXCEPT ![c] = done] /\ call' \in CallTable
    BY <1>6, <2>1
  <2>4. /\ row' \in Rows /\ \A j \in Items \ {p[1]} : row'[j].receipt = row[j].receipt
        /\ row'[p[1]].receipt = IF call[c].by = "reply" THEN row[p[1]].receipt ELSE IF ok THEN "sent" ELSE "failed"
        /\ \A j \in Items : row'[j].text = row[j].text
    BY <2>1, <2>2, <2>3, ReceiptIs
  <2>5. Written(c, p, ok)
    BY <2>1, <2>3, <2>4 DEF Written
  <2> QED BY <2>1, <2>2, <2>3, <2>4, <2>5
<1>9. CASE NoAnswer(c)
  <2>1. PICK p \in k.cur :
            /\ reached' \in {reached, reached \cup {p}} /\ tries' = tries
            /\ IF k.try = 1
               THEN call' = [call EXCEPT ![c].try = 2] /\ row' = row
               ELSE call' = [call EXCEPT ![c].cur = {}] /\ Receipt(c, p[1], FALSE)
    BY <1>9 DEF NoAnswer
  <2>2. p \in Parts /\ p[1] \in Items
    BY <1>3, <2>1
  <2>3. CASE k.try = 1
    <3>1. Again(c) /\ call' \in CallTable /\ row' \in Rows
      BY <1>1, <1>7, <2>1, <2>3 DEF Again
    <3> QED BY <2>1, <2>2, <3>1
  <2>4. CASE k.try # 1
    <3>1. Receipt(c, p[1], FALSE) /\ call' = [call EXCEPT ![c] = done] /\ call' \in CallTable
      BY <1>6, <2>1, <2>4
    <3>2. /\ row' \in Rows /\ \A j \in Items \ {p[1]} : row'[j].receipt = row[j].receipt
          /\ row'[p[1]].receipt = IF call[c].by = "reply" THEN row[p[1]].receipt ELSE IF FALSE THEN "sent" ELSE "failed"
          /\ \A j \in Items : row'[j].text = row[j].text
      BY <2>1, <2>2, <3>1, ReceiptIs
    <3>3. Written(c, p, FALSE)
      BY <3>1, <3>2 DEF Written
    <3> QED BY <2>1, <2>2, <3>1, <3>2, <3>3
  <2> QED BY <2>3, <2>4
<1> QED BY <1>8, <1>9

\* A dispatch that is through; the sweep of the alerts starts that of the events.
LEMMA EndsIs ==
    ASSUME TypeOK, NEW c \in Calls, Ends(c)
    PROVE  /\ call[c].left = {} /\ call[c].cur = {}
           /\ row' \in Rows /\ \A i \in Items : row'[i].receipt \in {row[i].receipt, "skipped"} /\ row'[i].text = row[i].text
           /\ call' \in CallTable
           /\ call'[c] = Idle \/ NewCall(call'[c])
           /\ \A d \in Calls \ {c} : call'[d] = call[d] \/ (call[d].by = "idle" /\ NewCall(call'[d]))
           /\ sweeping' \subseteq {"alert", "event"} /\ sweeping \ {call[c].by} \subseteq sweeping'
           /\ UNCHANGED <<acked, aged, mode, restarts, history>>
<1> DEFINE idle == [call EXCEPT ![c] = Idle]
<1>1. row \in Rows /\ call \in CallTable
  BY Typed
<1>2. idle \in CallTable /\ idle[c] = Idle /\ Idle.by = "idle" /\ \A d \in Calls \ {c} : idle[d] = call[d]
  BY <1>1, IdleTyped DEF CallTable, Idle
<1>3. call[c].left = {} /\ call[c].cur = {} /\ UNCHANGED <<acked, aged, mode, restarts, history>>
  BY DEF Ends
<1>4. sweeping' \subseteq {"alert", "event"} /\ sweeping \ {call[c].by} \subseteq sweeping'
  BY DEF Ends, TypeOK
<1>5. CASE call[c].by = "alert" /\ "event" \notin sweeping
  <2>1. EventsGo("event", FALSE, row, idle, Queued)
    BY <1>5 DEF Ends
  <2>2. \E d \in Calls : idle[d].by = "idle"
    BY <1>2
  <2>3. Queued \in SUBSET Items
    BY DEF Queued, Of
  <2> HIDE DEF idle
  <2>4. /\ row' \in Rows
        /\ \A i \in Items : row'[i].receipt \in {row[i].receipt, "skipped"} /\ row'[i].text = row[i].text
        /\ \/ call' = idle
           \/ \E f \in Calls : /\ idle[f].by = "idle"
                               /\ call' = [idle EXCEPT ![f] = Dispatch("event", row, Waiting(row, Queued))]
                               /\ row' = row
    BY <1>1, <1>2, <2>1, <2>2, <2>3, EventsGoIs
  <2>5. CASE call' = idle
    BY <1>2, <1>3, <1>4, <2>4, <2>5
  <2>6. CASE call' # idle
    <3>1. PICK f \in Calls : /\ idle[f].by = "idle"
                             /\ call' = [idle EXCEPT ![f] = Dispatch("event", row, Waiting(row, Queued))]
                             /\ row' = row
      BY <2>4, <2>6
    <3> DEFINE D == Waiting(row, Queued)
    <3>2. D \in SUBSET Queued /\ \A i \in D : row[i].receipt = "none"
      BY DEF Waiting
    <3> HIDE DEF D
    <3>3. Dispatch("event", row, D) \in CallType
      BY <1>1, <2>3, <3>2, DispatchTyped DEF By
    <3>4. NewCall(Dispatch("event", row, D))
      BY <3>1, <3>2 DEF NewCall, Dispatch
    <3>5. call' \in CallTable /\ call'[f] = Dispatch("event", row, D) /\ \A d \in Calls \ {f} : call'[d] = idle[d]
      BY <1>2, <3>1, <3>3 DEF CallTable, D
    <3> QED BY <1>2, <1>3, <1>4, <2>4, <3>1, <3>4, <3>5
  <2> QED BY <2>5, <2>6
<1>6. CASE ~(call[c].by = "alert" /\ "event" \notin sweeping)
  <2>1. row' = row /\ call' = idle
    BY <1>6 DEF Ends
  <2> QED BY <1>1, <1>2, <1>3, <1>4, <2>1
<1> QED BY <1>5, <1>6

LEMMA RestartCalls == Restart => call' \in CallTable /\ call' = [c \in Calls |-> Idle]
BY IdleTyped DEF Restart, CallTable

-----------------------------------------------------------------------------
(* Types *)

LEMMA Retyped ==
    ASSUME row' \in Rows, call' \in CallTable, mode' \in Modes, sweeping' \subseteq {"alert", "event"},
           acked' \subseteq Of("alert"), aged' \subseteq Of("alert"), restarts' \in 0 .. MaxRestarts,
           reached' \subseteq Parts, tries' \in [Items -> 0 .. Enough]
    PROVE  TypeOK'
BY DEF TypeOK, Rows, RowType, CallTable

LEMMA InitTyped == Init => TypeOK
<1> SUFFICES ASSUME Init PROVE TypeOK
  OBVIOUS
<1>1. MaxRestarts \in Nat /\ 0 \in 0 .. MaxRestarts /\ 0 \in 0 .. Enough
  BY NotificationsAssumption DEF NotificationsAssumption, Enough
<1>2. row \in [Items -> [receipt : Receipts, text : Texts, dated : BOOLEAN]]
  BY DEF Init, Receipts, Texts
<1>3. call \in [Calls -> CallType]
  BY IdleTyped DEF Init
<1> QED BY <1>1, <1>2, <1>3 DEF Init, TypeOK

LEMMA CallStepTyped ==
    ASSUME TypeOK, NEW c \in Calls, CallStep(c)
    PROVE  TypeOK'
<1>0. /\ mode \in Modes /\ sweeping \subseteq {"alert", "event"} /\ acked \subseteq Of("alert")
      /\ aged \subseteq Of("alert") /\ restarts \in 0 .. MaxRestarts /\ reached \subseteq Parts
      /\ tries \in [Items -> 0 .. Enough]
  BY DEF TypeOK
<1>1. CASE Take(c)
  <2>1. UNCHANGED <<acked, aged, mode, sweeping, restarts>>
    BY <1>1 DEF Take
  <2>2. call' \in CallTable /\ row' \in Rows /\ reached' = reached /\ tries' \in [Items -> 0 .. Enough]
    BY <1>0, <1>1, TakeIs DEF history
  <2> QED BY <1>0, <2>1, <2>2, Retyped
<1>2. CASE Answers(c) \/ NoAnswer(c)
  <2>1. UNCHANGED <<acked, aged, mode, sweeping, restarts, tries>>
    BY <1>2 DEF Answers, NoAnswer
  <2>2. call' \in CallTable /\ row' \in Rows /\ reached' \subseteq Parts
    BY <1>0, <1>2, AnswerIs
  <2> QED BY <1>0, <2>1, <2>2, Retyped
<1>3. CASE Ends(c)
  BY <1>0, <1>3, EndsIs, Retyped DEF history
<1> QED BY <1>1, <1>2, <1>3 DEF CallStep

LEMMA NextTyped == TypeOK /\ [Next]_vars => TypeOK'
<1> SUFFICES ASSUME TypeOK, [Next]_vars PROVE TypeOK'
  OBVIOUS
<1>0. /\ mode \in Modes /\ sweeping \subseteq {"alert", "event"} /\ acked \subseteq Of("alert")
      /\ aged \subseteq Of("alert") /\ restarts \in 0 .. MaxRestarts /\ reached \subseteq Parts
      /\ tries \in [Items -> 0 .. Enough] /\ row \in Rows /\ call \in CallTable
  BY Typed DEF TypeOK
<1>1. ASSUME NEW i \in Items, RowStep(i) PROVE TypeOK'
  BY <1>0, <1>1, RowStepQuiet, Retyped DEF Quiet, history
<1>2. ASSUME NEW c \in Calls, CallStep(c) PROVE TypeOK'
  BY <1>2, CallStepTyped
<1>3. CASE SweepAlerts
  <2>1. UNCHANGED <<acked, aged, mode, restarts, history>> /\ sweeping' = sweeping \cup {"alert"}
    BY <1>3 DEF SweepAlerts
  <2>2. row' \in Rows /\ call' \in CallTable
    BY <1>3, SweepIs
  <2> QED BY <1>0, <2>1, <2>2, Retyped DEF history
<1>4. CASE DispatchActions
  BY <1>0, <1>4, DispatchActionsQuiet, Retyped DEF Quiet, DispatchActions, history
<1>5. CASE DispatchReports
  BY <1>0, <1>5, DispatchReportsQuiet, Retyped DEF Quiet, DispatchReports, history
<1>6. CASE Restart
  <2>1. restarts' \in 0 .. MaxRestarts
    BY <1>0, <1>6, NotificationsAssumption DEF Restart, NotificationsAssumption
  <2> QED BY <1>0, <1>6, <2>1, RestartCalls, Retyped DEF Restart, history
<1>7. CASE ModeChanges
  BY <1>0, <1>7, Retyped DEF ModeChanges, history
<1>8. CASE UNCHANGED vars
  BY <1>0, <1>8, Retyped DEF vars
<1> QED BY <1>1, <1>2, <1>3, <1>4, <1>5, <1>6, <1>7, <1>8 DEF Next

\* Every variable keeps its type.
THEOREM TypeCorrect == Spec => []TypeOK
<1> QED BY InitTyped, NextTyped, PTL DEF Spec

-----------------------------------------------------------------------------
(* An alert is posted once *)

\* The argument: there is one sweep of the alerts at a time, for it holds the flag; it read each row once; what it
\* still has to post was not posted since the last restart; and a row without a receipt that was posted is the one
\* being posted now.
OneSweep == \A c, d \in Calls : call[c].by = "alert" /\ call[d].by = "alert" => c = d
Flagged == \A c \in Calls : call[c].by = "alert" => "alert" \in sweeping
QueuesApart == \A c \in Calls : call[c].by \in Queues => \A p \in call[c].left \cup call[c].cur : p[1] \in Queued
ReadOnce(k) ==
    /\ \A p, q \in k.left : p[1] = q[1] => p = q
    /\ \A p, q \in k.cur : p = q
    /\ \A p \in k.cur, q \in k.left : p[1] # q[1]
EachOnce == \A c \in Calls : call[c].by = "alert" => ReadOnce(call[c])
ToDo == \A c \in Calls : call[c].by = "alert" =>
            \A p \in call[c].left : p[1] \in Of("alert") /\ tries[p[1]] <= restarts
NotYet == \A i \in Of("alert") : row[i].receipt \in {"absent", "none"} =>
              \/ tries[i] <= restarts
              \/ \E c \in Calls : call[c].by = "alert" /\ \E p \in call[c].cur : p[1] = i

SweepInv == OneSweep /\ Flagged /\ QueuesApart /\ EachOnce /\ ToDo /\ NotYet /\ OncePerAlert

LEMMA SweepInitial == Init => SweepInv
<1> SUFFICES ASSUME Init PROVE SweepInv
  OBVIOUS
<1>1. \A c \in Calls : call[c].by = "idle"
  BY DEF Init, Idle
<1>2. restarts = 0 /\ \A i \in Items : tries[i] = 0
  BY DEF Init
<1> QED BY <1>1, <1>2 DEF SweepInv, OneSweep, Flagged, QueuesApart, EachOnce, ToDo, NotYet, OncePerAlert, Queues, Of

\* A step of anyone but the sweep.
LEMMA OthersKeep ==
    ASSUME TypeOK, SweepInv, restarts' = restarts,
           \A c \in Calls : \/ call'[c] = call[c]
                            \/ /\ call[c].by # "alert" /\ call'[c].by # "alert"
                               /\ call'[c].by \in Queues => \A p \in call'[c].left \cup call'[c].cur : p[1] \in Queued,
           \A i \in Of("alert") : /\ tries'[i] = tries[i]
                                  /\ row'[i].receipt \in {"absent", "none"} => row[i].receipt \in {"absent", "none"},
           "alert" \in sweeping => "alert" \in sweeping'
    PROVE  SweepInv'
<1> USE DEF SweepInv
<1>1. \A c \in Calls : call[c].by = "alert" \/ call'[c].by = "alert" => call'[c] = call[c]
  OBVIOUS
<1>2. OneSweep' /\ Flagged'
  BY <1>1 DEF OneSweep, Flagged
<1>3. QueuesApart'
  BY DEF QueuesApart
<1>4. EachOnce'
  BY <1>1 DEF EachOnce, ReadOnce
<1>5. \A i \in Of("alert") : tries'[i] = tries[i]
  OBVIOUS
<1>6. ToDo'
  <2> SUFFICES ASSUME NEW c \in Calls, call'[c].by = "alert", NEW p \in call'[c].left
               PROVE  p[1] \in Of("alert") /\ tries'[p[1]] <= restarts'
    BY DEF ToDo, Of
  <2>1. call'[c] = call[c]
    BY <1>1
  <2>2. p[1] \in Of("alert") /\ tries[p[1]] <= restarts
    BY <2>1 DEF ToDo
  <2> QED BY <1>5, <2>2
<1>7. NotYet'
  <2> SUFFICES ASSUME NEW i \in Of("alert"), row'[i].receipt \in {"absent", "none"}, ~(tries'[i] <= restarts')
               PROVE  \E c \in Calls : call'[c].by = "alert" /\ \E p \in call'[c].cur : p[1] = i
    BY DEF NotYet, Of
  <2>1. row[i].receipt \in {"absent", "none"}
    OBVIOUS
  <2>2. ~(tries[i] <= restarts)
    BY <1>5
  <2>3. PICK c \in Calls : call[c].by = "alert" /\ \E p \in call[c].cur : p[1] = i
    BY <2>1, <2>2 DEF NotYet
  <2> QED BY <1>1, <2>3
<1>8. OncePerAlert'
  <2> SUFFICES ASSUME NEW i \in Of("alert") PROVE tries'[i] <= 1 + restarts'
    BY DEF OncePerAlert, Of
  <2> QED BY <1>5 DEF OncePerAlert
<1> QED BY <1>2, <1>3, <1>4, <1>6, <1>7, <1>8

LEMMA QuietKeeps ==
    ASSUME TypeOK, SweepInv, Quiet, UNCHANGED <<restarts, tries>>, sweeping' = sweeping
    PROVE  SweepInv'
<1>1. \A c \in Calls : \/ call'[c] = call[c]
                       \/ /\ call[c].by # "alert" /\ call'[c].by # "alert"
                          /\ call'[c].by \in Queues => \A p \in call'[c].left \cup call'[c].cur : p[1] \in Queued
  BY DEF Quiet, CallsBegin, NewCall
<1>2. \A i \in Of("alert") : row'[i].receipt \in {"absent", "none"} => row[i].receipt \in {"absent", "none"}
  BY DEF Quiet, RowsMove, Moves, TextsKeep, Of, Of
<1> QED BY <1>1, <1>2, OthersKeep

LEMMA SweepAlertsKeeps ==
    ASSUME TypeOK, SweepInv, SweepAlerts
    PROVE  SweepInv'
<1> USE DEF SweepInv
<1> DEFINE due == Waiting(row', Of("alert"))
           new == Dispatch("alert", row', due)
<1>1. "alert" \notin sweeping /\ "alert" \in sweeping' /\ UNCHANGED <<restarts, tries>>
  BY DEF SweepAlerts, history
<1>2. \A c \in Calls : call[c].by # "alert"
  BY <1>1 DEF Flagged
<1>3. PICK f \in Calls : call' = [call EXCEPT ![f] = new]
  BY SweepIs
<1>4. call'[f] = new /\ \A c \in Calls \ {f} : call'[c] = call[c]
  BY <1>3, Typed DEF CallTable
<1>5. \A i \in Items : row'[i].receipt \in {row[i].receipt, "skipped"} /\ row'[i].text = row[i].text
  BY SweepIs
<1>6. new.by = "alert" /\ new.cur = {} /\ new.left = {<<i, row'[i].text>> : i \in due}
  BY DEF Dispatch
<1>7. \A i \in due : i \in Of("alert") /\ row'[i].receipt = "none"
  BY DEF Waiting
<1> HIDE DEF new, due
<1>8. \A i \in Of("alert") : row'[i].receipt \in {"absent", "none"} => tries[i] <= restarts
  BY <1>2, <1>5 DEF NotYet, Of
<1>9. OneSweep' /\ Flagged'
  BY <1>1, <1>2, <1>4 DEF OneSweep, Flagged
<1>10. QueuesApart'
  BY <1>4, <1>6 DEF QueuesApart, Queues
<1>11. EachOnce'
  BY <1>2, <1>4, <1>6 DEF EachOnce, ReadOnce
<1>12. ToDo'
  BY <1>1, <1>2, <1>4, <1>6, <1>7, <1>8 DEF ToDo
<1>13. NotYet' /\ OncePerAlert'
  BY <1>1, <1>8 DEF NotYet, OncePerAlert
<1> QED BY <1>9, <1>10, <1>11, <1>12, <1>13

\* What a step of the sweep itself leaves to show.
LEMMA SweepSteps ==
    ASSUME TypeOK, SweepInv, NEW c \in Calls, call[c].by = "alert", restarts' = restarts, sweeping' = sweeping,
           call'[c].by = "alert", \A d \in Calls \ {c} : call'[d] = call[d],
           ReadOnce(call'[c]),
           \A p \in call'[c].left : p[1] \in Of("alert") /\ tries'[p[1]] <= restarts,
           \A i \in Of("alert") :
               row'[i].receipt \in {"absent", "none"} => tries'[i] <= restarts \/ \E p \in call'[c].cur : p[1] = i,
           \A i \in Of("alert") : tries'[i] <= 1 + restarts
    PROVE  SweepInv'
<1> USE DEF SweepInv
<1>1. \A d \in Calls : call[d].by = "alert" => d = c
  BY DEF OneSweep
<1>2. \A d \in Calls : call'[d].by = "alert" => d = c
  BY <1>1
<1>3. OneSweep' /\ Flagged' /\ EachOnce' /\ ToDo'
  BY <1>2 DEF OneSweep, Flagged, EachOnce, ToDo
<1>4. QueuesApart'
  <2>1. \A d \in Calls : call'[d].by \in Queues => d # c
    BY DEF Queues
  <2> QED BY <2>1 DEF QueuesApart
<1>5. NotYet'
  BY DEF NotYet
<1>6. OncePerAlert'
  BY DEF OncePerAlert
<1> QED BY <1>3, <1>4, <1>5, <1>6

LEMMA Counts ==
    ASSUME TypeOK PROVE restarts \in Nat /\ tries \in [Items -> Nat] /\ Of("alert") \subseteq Items
BY NotificationsAssumption DEF TypeOK, Enough, Of, NotificationsAssumption

LEMMA TakeKeeps ==
    ASSUME TypeOK, SweepInv, NEW c \in Calls, Take(c)
    PROVE  SweepInv'
<1> USE DEF SweepInv
<1>1. PICK p \in call[c].left, cur \in SUBSET Parts, try \in 1 .. 2 :
          /\ p[1] \in Items /\ \A q \in cur : q[1] = p[1] /\ \A r \in cur : r = q
          /\ call[c].cur = {}
          /\ call' = [call EXCEPT ![c] = [by |-> call[c].by, left |-> call[c].left \ {p}, cur |-> cur, try |-> try]]
          /\ call' \in CallTable /\ row' \in Rows
          /\ \/ /\ row' = Marked(row, {p[1]}, "skipped") /\ call[c].by = "alert" /\ UNCHANGED history
             \/ /\ row' = row /\ cur # {} /\ reached' = reached
                /\ tries' \in {tries, [tries EXCEPT ![p[1]] = @ + 1]} /\ tries' \in [Items -> 0 .. Enough]
                /\ tries' # tries => call[c].by = "alert" \/ call[c].by \in Queues
  BY TakeIs
<1>2. restarts' = restarts /\ sweeping' = sweeping
  BY DEF Take
<1>3. /\ call'[c].by = call[c].by /\ call'[c].left = call[c].left \ {p} /\ call'[c].cur = cur
      /\ \A d \in Calls \ {c} : call'[d] = call[d]
  BY <1>1, Typed DEF CallTable
<1>4. \A i \in Items : row'[i].receipt \in {row[i].receipt, "skipped"} /\ row'[i].text = row[i].text
  BY <1>1, Typed, MarkedIs DEF Receipts
<1>5. \A i \in Items \ {p[1]} : tries'[i] = tries[i]
  BY <1>1, Counts DEF history
<1>6. CASE call[c].by = "alert"
  <2>1. \A d \in Calls : call[d].by = "alert" => d = c
    BY <1>6 DEF OneSweep
  <2>2. \A i \in Of("alert") : row[i].receipt \in {"absent", "none"} => tries[i] <= restarts
    BY <1>1, <2>1 DEF NotYet
  <2>3. ReadOnce(call[c]) /\ (\A q \in call[c].left : p[1] = q[1] => p = q)
    BY <1>1, <1>6 DEF EachOnce, ReadOnce
  <2>4. ReadOnce(call'[c])
    <3>1. \A q \in cur : q[1] = p[1] /\ \A r \in cur : r = q
      BY <1>1
    <3> QED BY <1>3, <2>3, <3>1 DEF ReadOnce
  <2>5. \A q \in call[c].left : q[1] \in Of("alert") /\ tries[q[1]] <= restarts
    BY <1>6 DEF ToDo
  <2>6. \A q \in call'[c].left : q[1] \in Of("alert") /\ tries'[q[1]] <= restarts
    <3> TAKE q \in call'[c].left
    <3>1. q \in call[c].left /\ q[1] # p[1]
      BY <1>3, <2>3
    <3>2. q[1] \in Items \ {p[1]}
      BY <2>5, <3>1, Counts
    <3> QED BY <1>5, <2>5, <3>1, <3>2
  <2>7. tries'[p[1]] <= 1 + restarts
    <3>1. tries[p[1]] <= restarts /\ tries[p[1]] \in Nat /\ restarts \in Nat
      BY <1>1, <2>5, Counts
    <3>2. tries'[p[1]] \in {tries[p[1]], tries[p[1]] + 1}
      BY <1>1, Counts DEF history
    <3> QED BY <3>1, <3>2
  <2>8. \A i \in Of("alert") : tries'[i] <= 1 + restarts
    <3> TAKE i \in Of("alert")
    <3>1. CASE i = p[1]
      BY <2>7, <3>1
    <3>2. CASE i # p[1]
      BY <1>5, <3>2, Counts DEF OncePerAlert
    <3> QED BY <3>1, <3>2
  <2>9. \A i \in Of("alert") :
            row'[i].receipt \in {"absent", "none"} => tries'[i] <= restarts \/ \E q \in call'[c].cur : q[1] = i
    <3> SUFFICES ASSUME NEW i \in Of("alert"), row'[i].receipt \in {"absent", "none"}
                 PROVE  tries'[i] <= restarts \/ \E q \in call'[c].cur : q[1] = i
      OBVIOUS
    <3>0. i \in Items
      BY Counts
    <3>1. row[i].receipt \in {"absent", "none"}
      BY <1>4, <3>0
    <3>2. tries[i] <= restarts
      BY <2>2, <3>1
    <3>3. CASE i # p[1]
      BY <1>5, <3>0, <3>2, <3>3
    <3>4. CASE i = p[1] /\ cur # {}
      BY <1>1, <1>3, <3>4
    <3>5. CASE i = p[1] /\ cur = {}
      BY <1>1, <3>2, <3>5 DEF history
    <3> QED BY <3>3, <3>4, <3>5
  <2> QED BY <1>2, <1>3, <1>6, <2>4, <2>6, <2>8, <2>9, SweepSteps
<1>7. CASE call[c].by # "alert"
  <2>1. tries' = tries \/ p[1] \in Queued
    BY <1>1, <1>7 DEF QueuesApart
  <2>2. \A i \in Of("alert") : tries'[i] = tries[i]
    BY <1>5, <2>1, Counts DEF Queued, Of
  <2>3. call[c].by \in Queues => \A q \in call'[c].left \cup call'[c].cur : q[1] \in Queued
    <3> SUFFICES ASSUME call[c].by \in Queues, NEW q \in call'[c].left \cup call'[c].cur PROVE q[1] \in Queued
      OBVIOUS
    <3>1. \A x \in call[c].left : x[1] \in Queued
      BY DEF QueuesApart
    <3> QED BY <1>1, <1>3, <3>1
  <2>4. row' = row
    BY <1>1, <1>7
  <2>5. \A d \in Calls : \/ call'[d] = call[d]
                         \/ /\ call[d].by # "alert" /\ call'[d].by # "alert"
                            /\ call'[d].by \in Queues => \A q \in call'[d].left \cup call'[d].cur : q[1] \in Queued
    BY <1>3, <1>7, <2>3
  <2> QED BY <1>2, <2>2, <2>4, <2>5, OthersKeep
<1> QED BY <1>6, <1>7

LEMMA AnswerKeeps ==
    ASSUME TypeOK, SweepInv, NEW c \in Calls, Answers(c) \/ NoAnswer(c)
    PROVE  SweepInv'
<1> USE DEF SweepInv
<1>1. PICK p \in call[c].cur, ok \in BOOLEAN :
          /\ p[1] \in Items /\ reached' \in {reached, reached \cup {p}} /\ tries' = tries
          /\ call' \in CallTable /\ row' \in Rows
          /\ Again(c) \/ Written(c, p, ok)
  BY AnswerIs
<1>2. restarts' = restarts /\ sweeping' = sweeping
  BY DEF Answers, NoAnswer
<1>3. /\ call'[c].by = call[c].by /\ call'[c].left = call[c].left /\ call'[c].cur \subseteq call[c].cur
      /\ \A d \in Calls \ {c} : call'[d] = call[d]
  BY <1>1, Typed DEF CallTable, Again, Written
<1>4. ASSUME NEW i \in Items, row'[i].receipt \in {"absent", "none"} PROVE row'[i].receipt = row[i].receipt
  BY <1>1, <1>4 DEF Again, Written
<1>5. CASE call[c].by = "alert"
  <2>1. ReadOnce(call[c])
    BY <1>5 DEF EachOnce
  <2>2. ReadOnce(call'[c])
    BY <1>3, <2>1 DEF ReadOnce
  <2>3. \A q \in call'[c].left : q[1] \in Of("alert") /\ tries'[q[1]] <= restarts
    BY <1>1, <1>3, <1>5 DEF ToDo
  <2>4. \A i \in Of("alert") : tries'[i] <= 1 + restarts
    BY <1>1 DEF OncePerAlert
  <2>5. \A i \in Of("alert") :
            row'[i].receipt \in {"absent", "none"} => tries'[i] <= restarts \/ \E q \in call'[c].cur : q[1] = i
    <3> SUFFICES ASSUME NEW i \in Of("alert"), row'[i].receipt \in {"absent", "none"}, ~(tries'[i] <= restarts)
                 PROVE  \E q \in call'[c].cur : q[1] = i
      OBVIOUS
    <3>1. row'[i].receipt = row[i].receipt
      BY <1>4, Counts
    <3>2. PICK d \in Calls : call[d].by = "alert" /\ \E q \in call[d].cur : q[1] = i
      BY <1>1, <3>1 DEF NotYet
    <3>3. d = c
      BY <1>5, <3>2 DEF OneSweep
    <3>4. CASE Again(c)
      BY <1>1, <3>2, <3>3, <3>4, Typed DEF Again, CallTable
    <3>5. CASE Written(c, p, ok)
      <4>1. i = p[1]
        BY <2>1, <3>2, <3>3 DEF ReadOnce
      <4>2. row'[i].receipt \in {"sent", "failed"}
        BY <1>5, <3>5, <4>1 DEF Written
      <4> QED BY <4>2
    <3> QED BY <1>1, <3>4, <3>5
  <2>6. call'[c].by = "alert"
    BY <1>3, <1>5
  <2> QED BY <1>2, <1>3, <1>5, <2>2, <2>3, <2>4, <2>5, <2>6, SweepSteps
<1>6. CASE call[c].by # "alert"
  <2>1. \A d \in Calls : \/ call'[d] = call[d]
                         \/ /\ call[d].by # "alert" /\ call'[d].by # "alert"
                            /\ call'[d].by \in Queues => \A q \in call'[d].left \cup call'[d].cur : q[1] \in Queued
    BY <1>3, <1>6 DEF QueuesApart
  <2>2. \A i \in Of("alert") : /\ tries'[i] = tries[i]
                               /\ row'[i].receipt \in {"absent", "none"} => row[i].receipt \in {"absent", "none"}
    BY <1>1, <1>4, Counts
  <2> QED BY <1>2, <2>1, <2>2, OthersKeep
<1> QED BY <1>5, <1>6

LEMMA EndsKeeps ==
    ASSUME TypeOK, SweepInv, NEW c \in Calls, Ends(c)
    PROVE  SweepInv'
<1> USE DEF SweepInv
<1>1. /\ call[c].left = {} /\ call[c].cur = {}
      /\ \A i \in Items : row'[i].receipt \in {row[i].receipt, "skipped"} /\ row'[i].text = row[i].text
      /\ call'[c] = Idle \/ NewCall(call'[c])
      /\ \A d \in Calls \ {c} : call'[d] = call[d] \/ (call[d].by = "idle" /\ NewCall(call'[d]))
      /\ sweeping \ {call[c].by} \subseteq sweeping'
      /\ restarts' = restarts /\ tries' = tries
  BY EndsIs DEF history
<1>2. \A i \in Of("alert") : row'[i].receipt \in {"absent", "none"} => row[i].receipt \in {"absent", "none"}
  BY <1>1, Counts
<1>3. call'[c].by # "alert" /\ (call'[c].by \in Queues => \A p \in call'[c].left \cup call'[c].cur : p[1] \in Queued)
  BY <1>1 DEF Idle, NewCall, Queues
<1>4. \A d \in Calls \ {c} : \/ call'[d] = call[d]
                             \/ /\ call[d].by # "alert" /\ call'[d].by # "alert"
                                /\ call'[d].by \in Queues => \A p \in call'[d].left \cup call'[d].cur : p[1] \in Queued
  BY <1>1 DEF NewCall
<1>5. CASE call[c].by = "alert"
  <2>1. \A d \in Calls \ {c} : call[d].by # "alert"
    BY <1>5 DEF OneSweep
  <2>2. \A d \in Calls : call'[d].by # "alert"
    BY <1>3, <1>4, <2>1
  <2>3. \A i \in Of("alert") : row[i].receipt \in {"absent", "none"} => tries[i] <= restarts
    BY <1>1, <2>1 DEF NotYet
  <2>4. OneSweep' /\ Flagged' /\ EachOnce' /\ ToDo'
    BY <2>2 DEF OneSweep, Flagged, EachOnce, ToDo
  <2>5. QueuesApart'
    BY <1>3, <1>4 DEF QueuesApart
  <2>6. NotYet' /\ OncePerAlert'
    BY <1>1, <1>2, <2>3 DEF NotYet, OncePerAlert
  <2> QED BY <2>4, <2>5, <2>6
<1>6. CASE call[c].by # "alert"
  <2>1. \A d \in Calls : \/ call'[d] = call[d]
                         \/ /\ call[d].by # "alert" /\ call'[d].by # "alert"
                            /\ call'[d].by \in Queues => \A p \in call'[d].left \cup call'[d].cur : p[1] \in Queued
    BY <1>3, <1>4, <1>6
  <2>2. \A i \in Of("alert") : /\ tries'[i] = tries[i]
                               /\ row'[i].receipt \in {"absent", "none"} => row[i].receipt \in {"absent", "none"}
    BY <1>1, <1>2
  <2>3. "alert" \in sweeping => "alert" \in sweeping'
    BY <1>1, <1>6
  <2> QED BY <1>1, <2>1, <2>2, <2>3, OthersKeep
<1> QED BY <1>5, <1>6

LEMMA RestartKeeps ==
    ASSUME TypeOK, SweepInv, Restart
    PROVE  SweepInv'
<1> USE DEF SweepInv
<1>1. \A c \in Calls : call'[c].by = "idle" /\ call'[c].left = {} /\ call'[c].cur = {}
  BY RestartCalls DEF Idle
<1>2. restarts' = restarts + 1 /\ UNCHANGED <<row, tries>>
  BY DEF Restart, history
<1>3. \A i \in Of("alert") : tries'[i] <= restarts' /\ tries'[i] <= 1 + restarts'
  <2> TAKE i \in Of("alert")
  <2>1. tries[i] \in Nat /\ restarts \in Nat /\ tries[i] <= 1 + restarts
    BY Counts DEF OncePerAlert
  <2> QED BY <1>2, <2>1
<1>4. OneSweep' /\ Flagged' /\ EachOnce' /\ ToDo' /\ QueuesApart'
  BY <1>1 DEF OneSweep, Flagged, EachOnce, ToDo, QueuesApart, Queues
<1> QED BY <1>3, <1>4 DEF NotYet, OncePerAlert

LEMMA SweepStep == TypeOK /\ SweepInv /\ [Next]_vars => SweepInv'
<1> SUFFICES ASSUME TypeOK, SweepInv, [Next]_vars PROVE SweepInv'
  OBVIOUS
<1>0. Quiet \/ (row' = row /\ call' = call) => (UNCHANGED <<restarts, sweeping, history>> => SweepInv')
  <2>1. row' = row /\ call' = call => Quiet
    BY Typed, NoneBegins DEF Quiet, RowsMove, Moves, TextsKeep, Of
  <2> QED BY <2>1, QuietKeeps DEF history
<1>1. ASSUME NEW i \in Items, RowStep(i) PROVE SweepInv'
  BY <1>0, <1>1, RowStepQuiet
<1>2. ASSUME NEW c \in Calls, CallStep(c) PROVE SweepInv'
  BY <1>2, TakeKeeps, AnswerKeeps, EndsKeeps DEF CallStep
<1>3. CASE DispatchActions
  BY <1>0, <1>3, DispatchActionsQuiet DEF DispatchActions
<1>4. CASE DispatchReports
  BY <1>0, <1>4, DispatchReportsQuiet DEF DispatchReports
<1>5. CASE ModeChanges \/ UNCHANGED vars
  BY <1>0, <1>5 DEF ModeChanges, vars, history
<1> QED BY <1>1, <1>2, <1>3, <1>4, <1>5, SweepAlertsKeeps, RestartKeeps DEF Next

\* However many dispatches are out and whatever the chat answers, the dispatchers post an alert once between two
\* starts of the process.
THEOREM OncePerAlertHolds == Spec => []OncePerAlert
<1>1. Spec => [](TypeOK /\ SweepInv)
  BY InitTyped, NextTyped, SweepInitial, SweepStep, PTL DEF Spec
<1>2. SweepInv => OncePerAlert
  BY DEF SweepInv
<1> QED BY <1>1, <1>2, PTL

-----------------------------------------------------------------------------
(* Receipts are true *)

\* Only a row that was made is ever dispatched.
OfMade == \A c \in Calls : \A p \in call[c].left \cup call[c].cur : row[p[1]].receipt # "absent"

\* Rows do not disappear.
StaysMade == \A i \in Items : row[i].receipt # "absent" => row'[i].receipt # "absent"

\* What a dispatch has of a row: it had it before, or the row was made and, of an action, says it now.
CallsFollow ==
    \A c \in Calls : \A p \in call'[c].left \cup call'[c].cur :
        /\ p[1] \in Items
        /\ row'[p[1]].receipt # "absent" \/ \E q \in call[c].left \cup call[c].cur : q[1] = p[1]
        /\ p[1] \in Of("action") => p \in call[c].left \cup call[c].cur \/ p[2] = row'[p[1]].text

LEMMA MadeKept ==
    ASSUME OfMade, StaysMade, CallsFollow PROVE OfMade'
BY DEF OfMade, StaysMade, CallsFollow

\* One step of the table, as Delivery sees it.
ReceiptStep ==
    /\ \A i \in Items :
           \/ Moves(row[i].receipt, row'[i].receipt, i)
           \/ row'[i].receipt = "failed"
           \/ row'[i].receipt = "sent" /\ (Told(i)' \/ Outdated(i))
    /\ reached \subseteq reached'
    /\ \A p \in reached' \ reached : row[p[1]].receipt # "absent"

LEMMA RowParts ==
    ASSUME TypeOK, NEW c \in Calls, NEW p \in call[c].left \cup call[c].cur PROVE p[1] \in Items
BY DEF TypeOK, CallType, Parts

Honest == StaysMade /\ CallsFollow /\ TextsKeep /\ ReceiptStep

LEMMA QuietHonest ==
    ASSUME TypeOK, TypeOK', Quiet, UNCHANGED history
    PROVE  Honest
<1>1. StaysMade /\ TextsKeep
  BY DEF StaysMade, Quiet, RowsMove, Moves
<1>2. CallsFollow
  <2> SUFFICES ASSUME NEW c \in Calls, NEW p \in call'[c].left \cup call'[c].cur
               PROVE  /\ p[1] \in Items
                      /\ row'[p[1]].receipt # "absent" \/ \E q \in call[c].left \cup call[c].cur : q[1] = p[1]
                      /\ p[1] \in Of("action") => p \in call[c].left \cup call[c].cur \/ p[2] = row'[p[1]].text
    BY DEF CallsFollow
  <2>1. p[1] \in Items
    BY DEF TypeOK, CallType, Parts
  <2>2. CASE call'[c] = call[c]
    BY <2>1, <2>2
  <2>3. CASE NewCall(call'[c])
    BY <2>1, <2>3 DEF NewCall
  <2> QED BY <2>2, <2>3 DEF Quiet, CallsBegin
<1>3. ReceiptStep
  BY DEF ReceiptStep, Quiet, RowsMove, history
<1> QED BY <1>1, <1>2, <1>3 DEF Honest

\* Rows that only get closed.
LEMMA ClosedHonest ==
    ASSUME TypeOK, CallsFollow, UNCHANGED history,
           \A i \in Items : row'[i].receipt \in {row[i].receipt, "skipped"} /\ row'[i].text = row[i].text
    PROVE  Honest
<1>1. StaysMade /\ TextsKeep
  BY DEF StaysMade, TextsKeep, Of
<1>2. ReceiptStep
  BY DEF ReceiptStep, Moves, history
<1> QED BY <1>1, <1>2 DEF Honest

LEMMA SweepHonest ==
    ASSUME TypeOK, SweepAlerts PROVE Honest
<1>1. \A i \in Items : row'[i].receipt \in {row[i].receipt, "skipped"} /\ row'[i].text = row[i].text
  BY SweepIs
<1>2. PICK f \in Calls : call' = [call EXCEPT ![f] = Dispatch("alert", row', Waiting(row', Of("alert")))]
  BY SweepIs
<1> DEFINE due == Waiting(row', Of("alert"))
<1>3. \A i \in due : i \in Items /\ i \notin Of("action") /\ row'[i].receipt = "none"
  BY DEF Waiting, Of
<1> HIDE DEF due
<1>4. call'[f] = Dispatch("alert", row', due) /\ \A c \in Calls \ {f} : call'[c] = call[c]
  BY <1>2, Typed DEF CallTable, due
<1>5. \A p \in call'[f].left \cup call'[f].cur :
          p[1] \in Items /\ p[1] \notin Of("action") /\ row'[p[1]].receipt # "absent"
  BY <1>3, <1>4 DEF Dispatch
<1>6. CallsFollow
  BY <1>4, <1>5, RowParts DEF CallsFollow
<1>7. UNCHANGED history
  BY DEF SweepAlerts
<1> QED BY <1>1, <1>6, <1>7, ClosedHonest

LEMMA TakeHonest ==
    ASSUME TypeOK, NEW c \in Calls, Take(c) PROVE Honest
<1>0. PICK p \in call[c].left, cur \in SUBSET Parts, try \in 1 .. 2 :
          /\ p[1] \in Items /\ \A q \in cur : q[1] = p[1] /\ \A r \in cur : r = q
          /\ \A q \in cur : q = p \/ q[2] = row[q[1]].text
          /\ call[c].cur = {}
          /\ call' = [call EXCEPT ![c] = [by |-> call[c].by, left |-> call[c].left \ {p}, cur |-> cur, try |-> try]]
          /\ call' \in CallTable /\ row' \in Rows
          /\ \/ /\ row' = Marked(row, {p[1]}, "skipped") /\ call[c].by = "alert" /\ UNCHANGED history
             \/ /\ row' = row /\ cur # {} /\ reached' = reached
                /\ tries' \in {tries, [tries EXCEPT ![p[1]] = @ + 1]} /\ tries' \in [Items -> 0 .. Enough]
                /\ tries' # tries => call[c].by = "alert" \/ call[c].by \in Queues
  BY TakeIs
<1>1. /\ p[1] \in Items /\ \A q \in cur : q[1] = p[1] /\ \A r \in cur : r = q
      /\ \A q \in cur : q = p \/ q[2] = row[q[1]].text
      /\ call' = [call EXCEPT ![c] = [by |-> call[c].by, left |-> call[c].left \ {p}, cur |-> cur, try |-> try]]
      /\ row' = Marked(row, {p[1]}, "skipped") \/ row' = row
      /\ reached' = reached
  BY <1>0 DEF history
<1>2. /\ call'[c].left \subseteq call[c].left /\ call'[c].cur = cur
      /\ \A d \in Calls \ {c} : call'[d] = call[d]
  BY <1>1, Typed DEF CallTable
<1>3. \A i \in Items : row'[i].receipt \in {row[i].receipt, "skipped"} /\ row'[i].text = row[i].text
  BY <1>1, Typed, MarkedIs DEF Receipts
<1>4. CallsFollow
  <2> SUFFICES ASSUME NEW d \in Calls, NEW x \in call'[d].left \cup call'[d].cur
               PROVE  /\ x[1] \in Items /\ \E q \in call[d].left \cup call[d].cur : q[1] = x[1]
                      /\ x \in call[d].left \cup call[d].cur \/ x[2] = row'[x[1]].text
    BY DEF CallsFollow
  <2>1. CASE x \in call[d].left \cup call[d].cur
    BY <2>1, RowParts
  <2>2. CASE x \notin call[d].left \cup call[d].cur
    <3>1. d = c /\ x \in cur
      BY <1>2, <2>2
    <3>2. x[1] = p[1] /\ p \in call[d].left /\ x[2] = row[x[1]].text
      BY <1>1, <2>2, <3>1
    <3>3. x[2] = row'[x[1]].text
      BY <1>1, <1>3, <3>2
    <3> QED BY <1>1, <3>2, <3>3
  <2> QED BY <2>1, <2>2
<1>5. StaysMade /\ TextsKeep /\ ReceiptStep
  BY <1>1, <1>3 DEF StaysMade, TextsKeep, Of, ReceiptStep, Moves
<1> QED BY <1>4, <1>5 DEF Honest

LEMMA AnswerHonest ==
    ASSUME TypeOK, OfMade, NEW c \in Calls, Answers(c) \/ NoAnswer(c) PROVE Honest
<1>1. PICK p \in call[c].cur, ok \in BOOLEAN :
          /\ p[1] \in Items /\ reached' \in {reached, reached \cup {p}} /\ tries' = tries
          /\ call' \in CallTable /\ row' \in Rows
          /\ Again(c) \/ Written(c, p, ok)
  BY AnswerIs
<1>2. /\ call'[c].left = call[c].left /\ call'[c].cur \subseteq call[c].cur
      /\ \A d \in Calls \ {c} : call'[d] = call[d]
  BY <1>1, Typed DEF CallTable, Again, Written
<1>3. CallsFollow
  BY <1>2, RowParts DEF CallsFollow
<1>4. row[p[1]].receipt # "absent"
  BY <1>1 DEF OfMade
<1>5. \A q \in reached' \ reached : row[q[1]].receipt # "absent"
  BY <1>1, <1>4
<1>6. CASE Again(c)
  <2>1. row' = row
    BY <1>6 DEF Again
  <2> QED BY <1>1, <1>3, <1>5, <2>1 DEF Honest, StaysMade, TextsKeep, ReceiptStep, Moves
<1>7. CASE Written(c, p, ok)
  <2>1. /\ \A j \in Items \ {p[1]} : row'[j].receipt = row[j].receipt
        /\ \A j \in Items : row'[j].text = row[j].text
    BY <1>7 DEF Written
  <2>2. row'[p[1]].receipt \in {row[p[1]].receipt, "failed"} \/ (row'[p[1]].receipt = "sent" /\ p \in reached')
    BY <1>7 DEF Written
  <2>3. StaysMade /\ TextsKeep
    BY <1>4, <2>1, <2>2 DEF StaysMade, TextsKeep, Of
  <2>4. p \in reached' => Told(p[1])' \/ Outdated(p[1])
    <3>1. ASSUME p \in reached', ChannelOf[p[1]] = "action" => p[2] = row'[p[1]].text PROVE Told(p[1])'
      BY <3>1 DEF Told
    <3>2. ASSUME ChannelOf[p[1]] = "action", p[2] # row'[p[1]].text PROVE Outdated(p[1])
      <4>1. p[2] # row[p[1]].text
        BY <1>1, <2>1, <3>2
      <4> QED BY <1>1, <3>2, <4>1 DEF Outdated
    <3> QED BY <3>1, <3>2
  <2>5. ReceiptStep
    <3>1. ASSUME NEW i \in Items
          PROVE  \/ Moves(row[i].receipt, row'[i].receipt, i)
                 \/ row'[i].receipt = "failed"
                 \/ row'[i].receipt = "sent" /\ (Told(i)' \/ Outdated(i))
      <4>1. CASE i # p[1]
        BY <2>1, <4>1 DEF Moves
      <4>2. CASE i = p[1]
        BY <2>2, <2>4, <4>2 DEF Moves
      <4> QED BY <4>1, <4>2
    <3> QED BY <1>1, <1>5, <3>1 DEF ReceiptStep
  <2> QED BY <1>3, <2>3, <2>5 DEF Honest
<1> QED BY <1>1, <1>6, <1>7

LEMMA EndsHonest ==
    ASSUME TypeOK, TypeOK', NEW c \in Calls, Ends(c) PROVE Honest
<1>1. /\ \A i \in Items : row'[i].receipt \in {row[i].receipt, "skipped"} /\ row'[i].text = row[i].text
      /\ call'[c] = Idle \/ NewCall(call'[c])
      /\ \A d \in Calls \ {c} : call'[d] = call[d] \/ (call[d].by = "idle" /\ NewCall(call'[d]))
      /\ UNCHANGED history
  BY EndsIs
<1>2. CallsFollow
  <2> SUFFICES ASSUME NEW d \in Calls, NEW p \in call'[d].left \cup call'[d].cur
               PROVE  /\ p[1] \in Items
                      /\ row'[p[1]].receipt # "absent" \/ \E q \in call[d].left \cup call[d].cur : q[1] = p[1]
                      /\ p[1] \in Of("action") => p \in call[d].left \cup call[d].cur \/ p[2] = row'[p[1]].text
    BY DEF CallsFollow
  <2>1. p[1] \in Items
    BY DEF TypeOK, CallType, Parts
  <2>2. CASE NewCall(call'[d])
    BY <2>1, <2>2 DEF NewCall
  <2>3. CASE call'[d] = call[d]
    BY <2>1, <2>3
  <2>4. CASE call'[d] = Idle
    BY <2>4 DEF Idle
  <2> QED BY <1>1, <2>2, <2>3, <2>4
<1> QED BY <1>1, <1>2, ClosedHonest

LEMMA NextHonest ==
    ASSUME TypeOK, TypeOK', OfMade, [Next]_vars PROVE Honest
<1>0. ASSUME row' = row, call' = call, UNCHANGED history PROVE Honest
  BY <1>0, Typed, NoneBegins, QuietHonest DEF Quiet, RowsMove, Moves, TextsKeep, Of
<1>1. ASSUME NEW i \in Items, RowStep(i) PROVE Honest
  BY <1>1, RowStepQuiet, QuietHonest
<1>2. ASSUME NEW c \in Calls, CallStep(c) PROVE Honest
  BY <1>2, TakeHonest, AnswerHonest, EndsHonest DEF CallStep
<1>3. CASE DispatchActions \/ DispatchReports
  BY <1>3, DispatchActionsQuiet, DispatchReportsQuiet, QuietHonest DEF DispatchActions, DispatchReports
<1>4. CASE Restart
  <2>1. UNCHANGED <<row, history>> /\ CallsFollow
    BY <1>4, RestartCalls DEF Restart, CallsFollow, Idle
  <2> QED BY <2>1, ClosedHonest
<1>5. CASE ModeChanges \/ UNCHANGED vars
  BY <1>0, <1>5 DEF ModeChanges, vars, history
<1> QED BY <1>1, <1>2, <1>3, <1>4, <1>5, SweepHonest DEF Next

\* What was told of a row is lost, and what is on its way gets old, only when the row has something new to say.
LEMMA NewsOnly ==
    ASSUME TypeOK, TypeOK', Honest, NEW i \in Items
    PROVE  /\ Told(i) /\ ~Told(i)' => Delivered!Renews(i)
           /\ Outdated(i)' /\ ~Outdated(i) => Delivered!Renews(i)
           /\ Told(i)' /\ ~Told(i) => row[i].receipt # "absent"
<1>1. i \in Of("action") => row'[i].text = row[i].text \/ (row[i].receipt # "absent" /\ row'[i].receipt = "none")
  BY DEF Honest, TextsKeep
<1>2. i \in Of("action") <=> ChannelOf[i] = "action"
  BY DEF Of
<1>3. reached \subseteq reached' /\ \A p \in reached' \ reached : row[p[1]].receipt # "absent"
  BY DEF Honest, ReceiptStep
<1>4. Delivered!Renews(i) <=> i \in Of("action") /\ row[i].receipt # "absent" /\ row'[i].receipt = "none"
  BY DEF Delivered!Renews
<1>5. ASSUME Told(i), ~Told(i)' PROVE Delivered!Renews(i)
  <2>1. PICK p \in reached : p[1] = i /\ (ChannelOf[i] = "action" => p[2] = row[i].text)
    BY <1>5 DEF Told
  <2>2. p \in reached'
    BY <1>3, <2>1
  <2>3. ~(ChannelOf[i] = "action" => p[2] = row'[i].text)
    BY <1>5, <2>1, <2>2 DEF Told
  <2> QED BY <1>1, <1>2, <1>4, <2>1, <2>3
<1>6. ASSUME Outdated(i)', ~Outdated(i) PROVE Delivered!Renews(i)
  <2>1. ChannelOf[i] = "action"
    BY <1>6 DEF Outdated
  <2>0. PICK c \in Calls : \E p \in call'[c].left \cup call'[c].cur : p[1] = i /\ p[2] # row'[i].text
    BY <1>6 DEF Outdated
  <2>2. PICK p \in call'[c].left \cup call'[c].cur : p[1] = i /\ p[2] # row'[i].text
    BY <2>0
  <2>3. p \in call[c].left \cup call[c].cur
    BY <1>2, <2>1, <2>2 DEF Honest, CallsFollow
  <2>4. p[2] = row[i].text
    BY <1>6, <2>1, <2>2, <2>3 DEF Outdated
  <2> QED BY <1>1, <1>2, <1>4, <2>1, <2>2, <2>4
<1>7. ASSUME Told(i)', ~Told(i) PROVE row[i].receipt # "absent"
  <2>1. PICK p \in reached' : p[1] = i /\ (ChannelOf[i] = "action" => p[2] = row'[i].text)
    BY <1>7 DEF Told
  <2>2. CASE p \notin reached
    BY <1>3, <2>1, <2>2
  <2>3. CASE p \in reached
    <3>1. ~(ChannelOf[i] = "action" => p[2] = row[i].text)
      BY <1>7, <2>1, <2>3 DEF Told
    <3> QED BY <1>1, <1>2, <2>1, <3>1
  <2> QED BY <2>2, <2>3
<1> QED BY <1>5, <1>6, <1>7

LEMMA HonestDelivers ==
    ASSUME TypeOK, TypeOK', Honest PROVE [Delivered!Next]_Delivered!vars
<1> DEFINE told == {i \in Items : Told(i)}
           outdated == {i \in Items : Outdated(i)}
<1>1. [i \in Items |-> row[i].receipt]' \in [Items -> Delivered!Final \cup {"absent", "none"}]
  <2>1. \A i \in Items : row'[i].receipt \in Receipts
    BY DEF TypeOK
  <2> QED BY <2>1 DEF Receipts, Delivered!Final
<1>2. ASSUME NEW i \in Items
      PROVE  \/ [j \in Items |-> row[j].receipt]'[i] = [j \in Items |-> row[j].receipt][i]
             \/ Delivered!Makes(i) \/ Delivered!Renews(i) \/ Delivered!Settles(i)
  <2>1. row[i].receipt \in Receipts
    BY DEF TypeOK
  <2>2. \/ row'[i].receipt = row[i].receipt
        \/ row'[i].receipt \in {"skipped", "held", "failed"}
        \/ row[i].receipt = "absent" /\ row'[i].receipt = "none"
        \/ i \in Of("action") /\ row[i].receipt # "absent" /\ row'[i].receipt = "none"
        \/ row'[i].receipt = "sent" /\ (Told(i)' \/ Outdated(i))
    BY DEF Honest, ReceiptStep, Moves, Of
  <2>3. Told(i)' \/ Outdated(i) => i \in told' \cup outdated
    OBVIOUS
  <2> HIDE DEF told, outdated
  <2>4. row'[i].receipt = "sent" /\ i \in told' \cup outdated => Delivered!Settles(i)
    BY DEF Delivered!Settles, Delivered!Final, told, outdated
  <2>5. row'[i].receipt \in {"skipped", "held", "failed"} => Delivered!Settles(i)
    BY DEF Delivered!Settles, Delivered!Final
  <2> QED BY <2>1, <2>2, <2>3, <2>4, <2>5 DEF Delivered!Makes, Delivered!Renews
<1>3. \A i \in (told \ told') \cup (outdated' \ outdated) : Delivered!Renews(i)
  BY NewsOnly
<1>4. \A i \in told' \ told : [j \in Items |-> row[j].receipt][i] # "absent"
  BY NewsOnly
<1>5. Delivered!Next
  BY <1>1, <1>2, <1>3, <1>4 DEF Delivered!Next
<1> QED BY <1>5

\* The dispatchers, the resends and the restarts implement Delivery: a receipt turns sent only when what the row says
\* now was told, or when the message that went out was read from the row before its change was undone.
THEOREM ReceiptsAreTrueHolds == Spec => ReceiptsAreTrue
<1>1. Init => OfMade
  BY DEF Init, OfMade, Idle
<1>2. TypeOK /\ TypeOK' /\ OfMade /\ [Next]_vars => OfMade' /\ [Delivered!Next]_Delivered!vars
  BY NextHonest, MadeKept, HonestDelivers DEF Honest
<1>3. Init => Delivered!Init
  <2> SUFFICES ASSUME Init PROVE Delivered!Init
    OBVIOUS
  <2>1. reached = {} /\ call = [c \in Calls |-> Idle] /\ [i \in Items |-> row[i].receipt] = [i \in Items |-> "absent"]
    BY DEF Init
  <2>2. \A i \in Items : ~Told(i) /\ ~Outdated(i)
    BY <2>1 DEF Told, Outdated, Idle
  <2> QED BY <2>1, <2>2 DEF Delivered!Init
<1> QED BY InitTyped, NextTyped, <1>1, <1>2, <1>3, PTL DEF Spec, ReceiptsAreTrue, Delivered!Spec
=============================================================================
