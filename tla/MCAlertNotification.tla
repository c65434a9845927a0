------------------------- MODULE MCAlertNotification -------------------------
(* Instances of AlertNotification for model checking. *)
EXTENDS AlertNotification, TLC

CONSTANTS t1, t2, t3, w1, w2

\* Two tasks in one process and one in another.
TwoProcesses == (t1 :> w1) @@ (t2 :> w1) @@ (t3 :> w2)

\* The alert's firings may go to both providers, general events to one;
\* nobody subscribes to recoveries.
MCSubscribed == [k \in {"firing", "recovery", "general"} |-> CASE k = "firing" -> {1, 2} [] k = "general" -> {1} [] OTHER -> {}]

MCDeliveries == {d \in Events \X Providers : d[2] \in MCSubscribed[d[1][1]]}

\* Bounds: the alert fires or a general event is published, not both; a behavior
\* has a second firing or a fault; and the first task works beside its sibling,
\* while the alert has had one of the two at most, or beside the other process. Of
\* two idle tasks of a process it is the first that claims, as their names are all
\* that tells them apart.
OneSource == events \subseteq AlertEvents \/ events \subseteq GeneralEvents
Happened == alert.fires + faults
SiblingWorks == task[t2].pc # "idle"
TwoWork == SiblingWorks => task[t3].pc = "idle" /\ Happened <= 1
FirstClaims == task[t1].pc = "idle" /\ task[t2].pc = "idle" => task'[t2].pc = "idle"
MCNext == Next /\ OneSource' /\ TwoWork' /\ FirstClaims /\ Happened' <= 2

MCSpec == Init /\ [][MCNext]_vars /\ Fairness
=============================================================================
