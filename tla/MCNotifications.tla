-------------------------- MODULE MCNotifications --------------------------
(* Instances of Notifications for TLC. *)
EXTENDS Notifications

ChannelList == <<"alert", "event", "event", "scan", "action", "report", "report">>
ChannelByItem == [i \in Items |-> ChannelList[i]]
=============================================================================
