---------------------------- MODULE Notifications ----------------------------
(***************************************************************************)
(* Everything the advisor posts to the Sphinx chat: alerts and             *)
(* recommendation events (notify.ts), a scan's new findings                *)
(* (compliance.ts), the ledger's changes (executor.ts), pass reports       *)
(* (pass_report.ts) and the short reply that explains an alert             *)
(* (alert_cause.ts).  Each channel has a table with a receipt column and a *)
(* dispatcher that takes the rows without a receipt.  Two dispatchers hold *)
(* a flag of the process while they sweep; the others hold nothing, and    *)
(* every post is awaited, so several can be out at once.                   *)
(*                                                                         *)
(* Rows are numbered in the order of their ids.  Of a message only its     *)
(* version matters: what the row had to say when the message was written.  *)
(***************************************************************************)
EXTENDS Naturals

CONSTANTS
    Items,        \* rows that may want a message
    ChannelOf,    \* the table of a row
    Alarms,       \* the alerts of level alarm, which quiet hours let through
    Unwanted,     \* the alerts below the threshold or outside the scope
    Forced,       \* the events shared or repeated by hand
    Modes,        \* settings and hours to consider, each the set of what mutes the chat
    MaxCalls,     \* bound: dispatches out at once
    Loads,        \* bound: the rows one behaviour may have together
    MaxRestarts   \* bound

Channels == {"alert", "event", "scan", "action", "report"}
Mutes == {"unconfigured", "off", "events off", "quiet"}
Of(c) == {i \in Items : ChannelOf[i] = c}
Queued == Of("event") \cup Of("scan")   \* the rows of the notifications table

ASSUME NotificationsAssumption ==
    /\ Items \subseteq Nat
    /\ ChannelOf \in [Items -> Channels]
    /\ Alarms \subseteq Of("alert") /\ Unwanted \subseteq Of("alert") /\ Forced \subseteq Of("event")
    /\ Modes \subseteq SUBSET Mutes
    /\ Loads \subseteq SUBSET Items
    /\ MaxCalls \in Nat /\ MaxRestarts \in Nat

Receipts == {"absent", "none", "sent", "failed", "skipped", "held"}
\* The versions of a message: as made; an alert explained; a change that was undone.
Texts == {"first", "why", "reverted"}

VARIABLES
    row,       \* per row: its receipt, its version, whether its other date is set
    acked,     \* alerts acknowledged
    aged,      \* alerts more than two hours old
    mode,      \* what mutes the chat now
    sweeping,  \* the process: the flags inFlight ("alert") and eventsInFlight ("event")
    call,      \* the process: dispatches whose post is awaited
    restarts,  \* counted against MaxRestarts
    reached,   \* history: the messages that reached the chat, each a row and a version
    tries      \* history: messages dispatchers began to post for an alert or an event, up to enough

vars == <<row, acked, aged, mode, sweeping, call, restarts, reached, tries>>
history == <<reached, tries>>

Calls == 1 .. MaxCalls
By == {"idle", "alert", "event", "only", "scan", "action", "report", "hand", "reply"}
\* `left` to go through, each with the version read; `cur` being posted, one at a time; `try` of two.
Idle == [by |-> "idle", left |-> {}, cur |-> {}, try |-> 1]
Parts == Items \X Texts
CallType == [by : By, left : SUBSET Parts, cur : SUBSET Parts, try : 1 .. 2]
Enough == MaxRestarts + 2

TypeOK ==
    /\ row \in [Items -> [receipt : Receipts, text : Texts, dated : BOOLEAN]]
    /\ acked \subseteq Of("alert") /\ aged \subseteq Of("alert")
    /\ mode \in Modes
    /\ sweeping \subseteq {"alert", "event"}
    /\ call \in [Calls -> CallType]
    /\ restarts \in 0 .. MaxRestarts
    /\ reached \subseteq Parts
    /\ tries \in [Items -> 0 .. Enough]

Init ==
    /\ row = [i \in Items |-> [receipt |-> "absent", text |-> "first", dated |-> FALSE]]
    /\ acked = {} /\ aged = {}
    /\ mode \in Modes
    /\ sweeping = {}
    /\ call = [c \in Calls |-> Idle]
    /\ restarts = 0
    /\ reached = {}
    /\ tries = [i \in Items |-> 0]

Waiting(r, I) == {i \in I : r[i].receipt = "none"}
Marked(r, I, x) == [i \in Items |-> IF i \in I THEN [r[i] EXCEPT !.receipt = x] ELSE r[i]]
Free == {c \in Calls : call[c].by = "idle"}
\* A dispatch of the rows I begins, with the versions r says.
Started(cl, by, r, I) ==
    LET free == CHOOSE c \in Calls : cl[c].by = "idle"
    IN  [cl EXCEPT ![free] = [Idle EXCEPT !.by = by, !.left = {<<i, r[i].text>> : i \in I}]]
Muted == mode \cap {"unconfigured", "off"} # {}

-----------------------------------------------------------------------------
(* Rows that want a message *)

Made(i, c) ==
    /\ ChannelOf[i] = c /\ row[i].receipt = "absent"
    /\ \E L \in Loads : i \in L /\ \A j \in Items \ L : row[j].receipt = "absent"

\* insertAlert; some are written as already handled (skip_notify).
Raise(i) ==
    /\ Made(i, "alert")
    /\ \E x \in {"none", "skipped"} : row' = Marked(row, {i}, x)
    /\ UNCHANGED <<acked, aged, mode, sweeping, call, restarts, history>>

\* Mutant: the row is not looked for among the alerts.
Acknowledge_any(i) ==
    /\ row[i].receipt # "absent"
    /\ acked' = acked \cup {i}
    /\ UNCHANGED <<row, aged, mode, sweeping, call, restarts, history>>

\* Jev's triage, a person, or the watcher that sees the instance again.
Acknowledge(i) ==
    /\ ChannelOf[i] = "alert" /\ row[i].receipt # "absent"
    /\ acked' = acked \cup {i}
    /\ UNCHANGED <<row, aged, mode, sweeping, call, restarts, history>>

Reopen(i) ==
    /\ i \in acked
    /\ acked' = acked \ {i}
    /\ UNCHANGED <<row, aged, mode, sweeping, call, restarts, history>>

\* Two hours pass before a dispatcher came by.
Ages(i) ==
    /\ ChannelOf[i] = "alert" /\ row[i].receipt = "none"
    /\ aged' = aged \cup {i}
    /\ UNCHANGED <<row, acked, mode, sweeping, call, restarts, history>>

\* attributeAlert finds who did it and says so in the message. The pass over the pending ones, and no other
\* caller, sends a reply for an alert that is already sent.
Explain(i, pending) ==
    /\ ChannelOf[i] = "alert" /\ row[i].receipt # "absent" /\ row[i].text = "first"
    /\ pending => \A c \in Calls : call[c].by # "reply"
    /\ row' = [row EXCEPT ![i].text = "why"]
    /\ IF pending /\ row[i].receipt = "sent" /\ "unconfigured" \notin mode
       THEN Free # {} /\ call' = Started(call, "reply", row', {i})
       ELSE call' = call
    /\ UNCHANGED <<acked, aged, mode, sweeping, restarts, history>>

\* Off and unconfigured are final receipts, quiet hours only wait.
EventRule(forced) ==
    IF "unconfigured" \in mode \/ (~forced /\ "events off" \in mode) THEN "skip"
    ELSE IF ~forced /\ "quiet" \in mode THEN "wait" ELSE "send"

\* dispatchRecommendationEvents: one decision for all the rows it read.
EventsGo(by, forced, r, cl, I) ==
    LET due == Waiting(r, I)
        rule == EventRule(forced)
    IN  /\ row' = IF rule = "skip" THEN Marked(r, due, "skipped") ELSE r
        /\ call' = IF rule = "send" /\ due # {} THEN Started(cl, by, r, due) ELSE cl

\* queueRecommendationEvent, resendNotification: the row, and its own dispatch in the background. A row with a
\* dedupe key that is there already is not made.
Queue(i) ==
    /\ Made(i, "event") /\ Free # {}
    /\ EventsGo("only", i \in Forced, Marked(row, {i}, "none"), call, {i})
    /\ UNCHANGED <<acked, aged, mode, sweeping, restarts, history>>

\* notifyNewFindings, at the end of a scan: in quiet hours the receipt is final.
NewFindings(i) ==
    /\ Made(i, "scan") /\ ~Muted /\ Free # {}
    /\ IF "quiet" \in mode
       THEN row' = Marked(row, {i}, "skipped") /\ call' = call
       ELSE row' = Marked(row, {i}, "none") /\ call' = Started(call, "scan", row', {i})
    /\ UNCHANGED <<acked, aged, mode, sweeping, restarts, history>>

\* An action reaches applied or failed.
Applied(i) ==
    /\ Made(i, "action")
    /\ row' = Marked(row, {i}, "none")
    /\ UNCHANGED <<acked, aged, mode, sweeping, call, restarts, history>>

\* Mutant: the receipt of the change stands for its undoing.
Reverted_keepsReceipt(i) ==
    /\ ChannelOf[i] = "action" /\ row[i].receipt # "absent" /\ row[i].text = "first"
    /\ row' = [row EXCEPT ![i].text = "reverted"]
    /\ UNCHANGED <<acked, aged, mode, sweeping, call, restarts, history>>

\* revertAction clears the receipt.
Reverted(i) ==
    /\ ChannelOf[i] = "action" /\ row[i].receipt # "absent" /\ row[i].text = "first"
    /\ row' = [row EXCEPT ![i].receipt = "none", ![i].text = "reverted"]
    /\ UNCHANGED <<acked, aged, mode, sweeping, call, restarts, history>>

\* dispatchPassReports: of the completed reports whose message has not gone out, the newest goes.
ReportsDue(r) == {i \in Of("report") : r[i].receipt \in {"none", "failed"} /\ ~r[i].dated}
ReportsGo(r) ==
    LET due == ReportsDue(r)
        newest == {i \in due : \A j \in due : j <= i}
        quiet == "quiet" \in mode
    IN  /\ row' = IF Muted THEN Marked(r, due, "skipped") ELSE IF quiet THEN r ELSE Marked(r, due \ newest, "skipped")
        /\ call' = IF Muted \/ quiet THEN call ELSE Started(call, "report", r, newest)

\* completePassReport: an answer below the bar is held back, any other goes at once.
CompleteReport(i) ==
    /\ Made(i, "report") /\ Free # {}
    /\ \/ row' = Marked(row, {i}, "held") /\ call' = call
       \/ ReportsGo(Marked(row, {i}, "none"))
    /\ UNCHANGED <<acked, aged, mode, sweeping, restarts, history>>

-----------------------------------------------------------------------------
(* The dispatchers, called when a job ends and by the routes *)

\* Mutant: the flag inFlight is not looked at.
SweepAlerts_unguarded ==
    /\ ~Muted /\ Free # {}
    /\ row' = Marked(row, Waiting(row, aged), "skipped")
    /\ sweeping' = sweeping \cup {"alert"}
    /\ call' = Started(call, "alert", row', Waiting(row', Of("alert")))
    /\ UNCHANGED <<acked, aged, mode, restarts, history>>

\* dispatchNotifications: the old ones get their receipt, the ids of the others are read once.
SweepAlerts ==
    /\ "alert" \notin sweeping /\ ~Muted /\ Free # {}
    /\ row' = Marked(row, Waiting(row, aged), "skipped")
    /\ sweeping' = sweeping \cup {"alert"}
    /\ call' = Started(call, "alert", row', Waiting(row', Of("alert")))
    /\ UNCHANGED <<acked, aged, mode, restarts, history>>

\* dispatchActionNotifications
DispatchActions ==
    LET due == Waiting(row, Of("action")) IN
    /\ due # {} /\ Free # {}
    /\ row' = IF Muted THEN Marked(row, due, "skipped") ELSE row
    /\ call' = IF Muted \/ "quiet" \in mode THEN call ELSE Started(call, "action", row, due)
    /\ UNCHANGED <<acked, aged, mode, sweeping, restarts, history>>

DispatchReports ==
    /\ ReportsDue(row) # {} /\ Free # {}
    /\ ReportsGo(row)
    /\ UNCHANGED <<acked, aged, mode, sweeping, restarts, history>>

\* "Send to Sphinx" on an alert, Resend on a report: whatever the rules and the receipt say.
SendByHand(i) ==
    /\ ChannelOf[i] \in {"alert", "report"} /\ row[i].receipt # "absent" /\ Free # {}
    /\ ChannelOf[i] = "report" => "unconfigured" \notin mode
    /\ call' = Started(call, "hand", row, {i})
    /\ UNCHANGED <<row, acked, aged, mode, sweeping, restarts, history>>

-----------------------------------------------------------------------------
(* One dispatch, row by row *)

\* decide: an alert is looked at again when its turn comes.
Passes(i) ==
    /\ "off" \notin mode /\ i \notin Unwanted /\ i \notin acked
    /\ "quiet" \in mode => i \in Alarms

First(parts) == CHOOSE p \in parts : \A q \in parts : p[1] <= q[1]
Counted(by) == by \in {"alert", "event", "only", "scan"}

\* The next row; sendSphinx begins unless the rules stop an alert.
Take(c) ==
    LET part == First(call[c].left)
        i == part[1]
        text == IF call[c].by = "alert" THEN row[i].text ELSE part[2]
    IN  /\ call[c].cur = {} /\ call[c].left # {}
        /\ IF call[c].by = "alert" /\ ~Passes(i)
           THEN /\ row' = Marked(row, {i}, "skipped")
                /\ call' = [call EXCEPT ![c].left = @ \ {part}]
                /\ UNCHANGED history
           ELSE /\ call' = [call EXCEPT ![c].left = @ \ {part}, ![c].cur = {<<i, text>>}, ![c].try = 1]
                /\ tries' = IF Counted(call[c].by) /\ tries[i] < Enough THEN [tries EXCEPT ![i] = @ + 1] ELSE tries
                /\ UNCHANGED <<row, reached>>
        /\ UNCHANGED <<acked, aged, mode, sweeping, restarts>>

\* The row after its post: a reply only dates the alert, a report that went out is dated and never tried again.
Receipt(c, i, ok) ==
    IF call[c].by = "reply" THEN row' = [row EXCEPT ![i].dated = @ \/ ok]
    ELSE IF ChannelOf[i] = "report"
    THEN row' = [row EXCEPT ![i].dated = @ \/ ok, ![i].receipt = IF ok THEN "sent" ELSE "failed"]
    ELSE row' = Marked(row, {i}, IF ok THEN "sent" ELSE "failed")

\* The bot answers: posted, or refused for good.
Answers(c) ==
    \E p \in call[c].cur, ok \in BOOLEAN :
        /\ reached' = IF ok THEN reached \cup {p} ELSE reached
        /\ Receipt(c, p[1], ok)
        /\ call' = [call EXCEPT ![c].cur = {}]
        /\ UNCHANGED <<acked, aged, mode, sweeping, restarts, tries>>

\* No answer in time, or a 5xx: the message may have got there all the same. Tried twice.
NoAnswer(c) ==
    \E p \in call[c].cur :
        /\ reached' \in {reached, reached \cup {p}}
        /\ IF call[c].try = 1
           THEN call' = [call EXCEPT ![c].try = 2] /\ row' = row
           ELSE call' = [call EXCEPT ![c].cur = {}] /\ Receipt(c, p[1], FALSE)
        /\ UNCHANGED <<acked, aged, mode, sweeping, restarts, tries>>

\* Mutant: only a dispatch of events clears its flag.
Ends_keepsFlag(c) ==
    /\ call[c].by # "idle" /\ call[c].cur = {} /\ call[c].left = {}
    /\ call' = [call EXCEPT ![c] = Idle]
    /\ sweeping' = sweeping \ ({call[c].by} \cap {"event"})
    /\ UNCHANGED <<row, acked, aged, mode, restarts, history>>

\* The flag is cleared; after the alerts come the queued events, unless they are being swept.
Ends(c) ==
    LET idle == [call EXCEPT ![c] = Idle] IN
    /\ call[c].by # "idle" /\ call[c].cur = {} /\ call[c].left = {}
    /\ IF call[c].by = "alert" /\ "event" \notin sweeping
       THEN EventsGo("event", FALSE, row, idle, Queued)
       ELSE row' = row /\ call' = idle
    /\ sweeping' = (sweeping \ {call[c].by}) \cup {f \in {"event"} : \E d \in Calls : call'[d].by = f}
    /\ UNCHANGED <<acked, aged, mode, restarts, history>>

-----------------------------------------------------------------------------
(* The process stops and starts; settings and hours change *)

Restart ==
    /\ restarts < MaxRestarts
    /\ restarts' = restarts + 1
    /\ call' = [c \in Calls |-> Idle]
    /\ sweeping' = {}
    /\ UNCHANGED <<row, acked, aged, mode, history>>

ModeChanges ==
    /\ mode' \in Modes \ {mode}
    /\ UNCHANGED <<row, acked, aged, sweeping, call, restarts, history>>

CallStep(c) == Take(c) \/ Answers(c) \/ NoAnswer(c) \/ Ends(c)
RowStep(i) ==
    \/ Raise(i) \/ Acknowledge(i) \/ Reopen(i) \/ Ages(i) \/ Explain(i, TRUE) \/ Explain(i, FALSE)
    \/ Queue(i) \/ NewFindings(i) \/ Applied(i) \/ Reverted(i) \/ CompleteReport(i) \/ SendByHand(i)
Next ==
    \/ \E i \in Items : RowStep(i)
    \/ \E c \in Calls : CallStep(c)
    \/ SweepAlerts \/ DispatchActions \/ DispatchReports
    \/ Restart \/ ModeChanges

\* Posts have a timeout of eight seconds and calls run to their end. Jobs end every few minutes for as long as
\* the process lives, and so find each dispatcher free time and again.
Fairness ==
    /\ \A c \in Calls : WF_vars(CallStep(c))
    /\ SF_vars(SweepAlerts) /\ SF_vars(DispatchActions) /\ SF_vars(DispatchReports)
Spec == Init /\ [][Next]_vars
FairSpec == Spec /\ Fairness

-----------------------------------------------------------------------------
(* Properties *)

\* Each alert is sent once: however many jobs end together, and while the chat is slow, no dispatcher begins to
\* post an alert another one posted; only a restart between a post and its receipt repeats one. Resends by hand
\* are not counted. (inFlight, dispatchNotifications)
OncePerAlert == \A i \in Of("alert") : tries[i] <= 1 + restarts

\* What the row says now was told: of an action the version counts, of the others any.
Told(i) == \E p \in reached : p[1] = i /\ (ChannelOf[i] = "action" => p[2] = row[i].text)

\* A dispatch holds the action as it was before it was undone.
Outdated(i) ==
    /\ ChannelOf[i] = "action"
    /\ \E c \in Calls : \E p \in call[c].left \cup call[c].cur : p[1] = i /\ p[2] # row[i].text

\* Receipts and the chat, as every channel promises.  A revert gives the row something
\* new to say, and "sent" is then true only of a message that says it; but a dispatch
\* that read the row before the revert marks it by its id when its old message went out
\* (dispatchActionNotifications), and the revert is then never told.
Delivered == INSTANCE Delivery WITH
    Renewable <- Of("action"),
    receipt <- [i \in Items |-> row[i].receipt],
    told <- {i \in Items : Told(i)},
    outdated <- {i \in Items : Outdated(i)}
ReceiptsAreTrue == Delivered!Spec

\* Once nothing mutes the chat for good, no row is left waiting (rows are finite here, and renewed once). (the finally
\* of both dispatchers, the sweep that finds a row whose own post was lost to a restart)
QueueDrains == <>[](mode = {}) => <>[](\A i \in Items : row[i].receipt # "none")
=============================================================================
