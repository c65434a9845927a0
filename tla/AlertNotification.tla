--------------------------- MODULE AlertNotification ---------------------------
(***************************************************************************)
(* From a metric sample to a notified destination: the alert life cycle,   *)
(* the outbox of integration events, the routing of events to webhook      *)
(* deliveries, and the notification records the workers' outcomes come     *)
(* back to (services/integration/alert_lifecycle.py,                       *)
(* notification_delivery.py, notification.py, publisher.py,                *)
(* services/runtime_operations/alerting.py).                               *)
(*                                                                         *)
(* One tenant, one rule and one alert instance; one destination per        *)
(* provider; one enabled notification policy, whose provider_order is      *)
(* the order of Providers.  The policy and the subscriptions do not change *)
(* while the model runs, destinations are enabled and disabled.            *)
(*                                                                         *)
(* An evaluation is one transaction and one action.  Recording an outcome  *)
(* reads the notification without a lock and writes it at the end of its   *)
(* transaction: two actions, between which another task may write it.      *)
(***************************************************************************)
EXTENDS WebhookDelivery, FiniteSetsExt

CONSTANTS
    Providers,     \* provider_order, as the numbers 1..n
    FanoutProviders, \* providers the fan-out request supports
    Subscribed,    \* Subscribed[kind]: providers whose destination subscribes to the kind
    HasCooldown,   \* whether cooldown_seconds is above zero
    MaxFires,      \* bound: firings of the alert
    MaxGeneral,    \* bound: integration events other than alert.*
    BatchSize      \* batch_size of the notification scheduler

Transitions == {"firing", "recovery"}
AlertEvents == Transitions \X (1..MaxFires)
GeneralEvents == {"general"} \X (1..MaxGeneral)
Events == AlertEvents \cup GeneralEvents

\* Deliveries: every event with every provider subscribed to its kind.
ASSUME AlertAssumption == /\ Deliveries = {d \in Events \X Providers : d[2] \in Subscribed[d[1][1]]}
                          /\ Subscribed \in [Transitions \cup {"general"} -> SUBSET Providers]
                          /\ Providers \subseteq Nat /\ IsFiniteSet(Providers)
                          /\ FanoutProviders \subseteq Providers
                          /\ HasCooldown \in BOOLEAN
                          /\ MaxFires \in Nat /\ MaxGeneral \in Nat
                          /\ BatchSize \in Nat \ {0}

VARIABLES
    alert,    \* the runtime_alert_instances row
    rule,     \* the state the evaluator's last alert.transition audit shows
    events,   \* integration_events, by kind and fire_count or sequence
    group,    \* the notification group: none, inside its window, or past it
    note,     \* runtime_notification_deliveries, by their dedup key
    enabled,  \* providers whose destination is enabled
    fallen,   \* history: deliveries whose notification was recorded dead
    dlq,      \* history: those of them that wrote a notification.dlq metric
    lost      \* history: deliveries whose outcome a crash, an exception or an
              \* overlapping older outcome wiped out

alertVars == <<alert, rule, events, group, note, enabled, fallen, dlq, lost>>
vars == <<deliveryVars, alertVars>>

-----------------------------------------------------------------------------
(* Rows. *)

\* notification_dedup_key: the instance, the group row and the destination are
\* determined by the transition and the provider.
Keys == Transitions \X Providers
Event(d) == d[1]
Provider(d) == d[2]
Key(d) == <<Event(d)[1], Provider(d)>>
AlertDeliveries == {d \in Deliveries : d[1] \in AlertEvents}

Alerts == [state : {"none", "firing", "resolved"}, fires : 0..MaxFires, hot : BOOLEAN]
NoteStates == {"absent", "planned", "retrying"} \cup Settled
Notes == [status : NoteStates, of : Deliveries]
AbsentNote == [status |-> "absent", of |-> CHOOSE d \in Deliveries : TRUE]

TypeOK ==
    /\ DeliveryTypeOK
    /\ alert \in Alerts
    /\ rule \in {"none", "firing", "normal"}
    /\ events \subseteq Events
    /\ group \in {"none", "open", "stale"}
    /\ note \in [Keys -> Notes]
    /\ enabled \subseteq Providers
    /\ fallen \subseteq AlertDeliveries
    /\ dlq \subseteq fallen
    /\ lost \subseteq Deliveries

Init ==
    /\ DeliveryInit
    /\ alert = [state |-> "none", fires |-> 0, hot |-> FALSE]
    /\ rule = "none"
    /\ events = {}
    /\ group = "none"
    /\ note = [k \in Keys |-> AbsentNote]
    /\ enabled = Providers
    /\ fallen = {}
    /\ dlq = {}
    /\ lost = {}

-----------------------------------------------------------------------------
(* Routing one alert event: dispatch_event and _route_notification. *)

\* The destinations a policy-routed event may go to, best first; with
\* fallback=True only the first is used.
Candidates(e, except) == (Subscribed[e[1]] \cap enabled) \ except
\* Mutant: the failed provider is not excluded.
Chosen_Unfiltered(e, except) == IF Candidates(e, {}) = {} THEN {}
                                                          ELSE {<<e, Min(Candidates(e, {}))>>}

Chosen(e, except) == IF Candidates(e, except) = {} THEN {}
                                                  ELSE {<<e, Min(Candidates(e, except))>>}

\* ON CONFLICT DO NOTHING: a key that exists keeps the delivery it was made for.
Planned(notes, ds) ==
    [k \in Keys |-> IF notes[k].status = "absent" /\ \E d \in ds : Key(d) = k
                    THEN [status |-> "planned", of |-> CHOOSE d \in ds : Key(d) = k]
                    ELSE notes[k]]

\* A group past its window is not reused, and its unique key is still taken:
\* the insert of its successor fails and the whole transaction with it.
GroupFails == group = "stale"

\* publish: the unique key of an event makes a second insert find the first.
Publish(e) == events' = events \cup {e}

\* Mutant: the event is published although the transaction of its alert fails.
EmitTransition_PublishFirst(a, transition) ==
    LET e == <<transition, a.fires>>
        suppressed == transition = "firing" /\ a.hot
    IN  /\ Publish(e)
        /\ IF suppressed \/ GroupFails
           THEN /\ alert' = IF suppressed THEN a ELSE alert
                /\ UNCHANGED <<row, group, note>>
           ELSE /\ alert' = [a EXCEPT !.hot = HasCooldown]
                /\ group' = "open"
                /\ row' = Materialised(Chosen(e, {}))
                /\ note' = Planned(note, Chosen(e, {}))

\* _emit_transition, after the alert row was changed to `a`.
EmitTransition(a, transition) ==
    LET e == <<transition, a.fires>>
        suppressed == transition = "firing" /\ a.hot
    IN  IF suppressed
        THEN /\ alert' = a
             /\ Publish(e)
             /\ UNCHANGED <<row, group, note>>
        ELSE /\ ~GroupFails
             /\ alert' = [a EXCEPT !.hot = HasCooldown]
             /\ Publish(e)
             /\ group' = "open"
             /\ row' = Materialised(Chosen(e, {}))
             /\ note' = Planned(note, Chosen(e, {}))

EvaluateMatched ==
    /\ alert.fires < MaxFires
    /\ EmitTransition([alert EXCEPT !.state = "firing", !.fires = @ + 1], "firing")
    /\ UNCHANGED <<task, worker, replayed, faults, rule, enabled, fallen, dlq, lost>>

EvaluateRecovered ==
    /\ alert.state = "firing"
    /\ EmitTransition([alert EXCEPT !.state = "resolved"], "recovery")
    /\ UNCHANGED <<task, worker, replayed, faults, rule, enabled, fallen, dlq, lost>>

-----------------------------------------------------------------------------
(* Everything that is not an alert.* event. *)

\* RuntimeAlertEvaluator: one runtime.alert.* event per change of the audited state.
Evaluate(state) ==
    /\ rule # state
    /\ ~(rule = "none" /\ state = "normal")
    /\ Cardinality(events \cap GeneralEvents) < MaxGeneral
    /\ rule' = state
    /\ Publish(<<"general", Cardinality(events \cap GeneralEvents) + 1>>)
    /\ UNCHANGED <<deliveryVars, alert, group, note, enabled, fallen, dlq, lost>>

\* dispatch_tenant reads the oldest events; none of them ever leaves "pending".
Batch == {e \in events \cap GeneralEvents : e[2] <= BatchSize}
Fanout(es) == es \X (Subscribed["general"] \cap enabled)

RouteGeneral ==
    /\ row' = Materialised(Fanout(Batch))
    /\ row' # row
    /\ UNCHANGED <<task, worker, replayed, faults, alertVars>>

\* The fan-out request of the API names one event.
PlanFanout(e) ==
    /\ e \in events \cap GeneralEvents
    /\ row' = Materialised(Fanout({e}) \cap (Events \X FanoutProviders))
    /\ row' # row
    /\ UNCHANGED <<task, worker, replayed, faults, alertVars>>

SetEnabled(p) ==
    /\ Disturb
    /\ enabled' = IF p \in enabled THEN enabled \ {p} ELSE enabled \cup {p}
    /\ UNCHANGED <<row, task, worker, replayed, alert, rule, events, group, note, fallen,
                   dlq, lost>>

-----------------------------------------------------------------------------
(* The outcome a worker brings back: record_delivery_outcome. *)

NoteOf(d) == {k \in Keys : note[k].status # "absent" /\ note[k].of = d}
Open(d) == {k \in NoteOf(d) : note[k].status \notin Settled}

\* The notification is unknown, or as the transaction reads it already final.
OutcomeIgnored(t) ==
    /\ task[t].pc = "recording"
    /\ Open(task[t].on) = {}
    /\ task' = Finished(t)
    /\ UNCHANGED <<row, worker, replayed, faults, alertVars>>

OutcomeRead(t) ==
    /\ task[t].pc = "recording"
    /\ Open(task[t].on) # {}
    /\ task' = [task EXCEPT ![t].pc = "writing"]
    /\ UNCHANGED <<row, worker, replayed, faults, alertVars>>

Noted(d, status) == [k \in Keys |-> IF k \in NoteOf(d) THEN [note[k] EXCEPT !.status = status]
                                                       ELSE note[k]]

OutcomeWritten(t) ==
    /\ task[t].pc = "writing"
    /\ task[t].outcome # "dead_letter"
    /\ note' = Noted(task[t].on, task[t].outcome)
    /\ task' = Finished(t)
    /\ lost' = IF Open(task[t].on) = {} THEN lost \cup {task[t].on} ELSE lost
    /\ UNCHANGED <<row, worker, replayed, faults, alert, rule, events, group, enabled,
                   fallen, dlq>>

\* A dead letter is noted and the next provider planned in one transaction.
FallBack(t) ==
    LET d == task[t].on
        next == Chosen(Event(d), {Provider(d)})
    IN  /\ task[t].pc = "writing"
        /\ task[t].outcome = "dead_letter"
        /\ ~GroupFails
        /\ group' = "open"
        /\ row' = Materialised(next)
        /\ note' = Planned(Noted(d, "dead_letter"), next)
        /\ dlq' = IF next = {} THEN dlq \cup {d} ELSE dlq
        /\ fallen' = fallen \cup {d}
        /\ task' = Finished(t)
        /\ UNCHANGED <<worker, replayed, faults, alert, rule, events, enabled, lost>>

\* The group's window has passed: the transaction fails, the exception ends the process.
OutcomeFails(t) ==
    /\ task[t].pc = "writing"
    /\ task[t].outcome = "dead_letter"
    /\ GroupFails
    /\ task' = Finished(t)
    /\ worker' = [worker EXCEPT ![WorkerOf[t]] = "stopping"]
    /\ lost' = lost \cup {task[t].on}
    /\ UNCHANGED <<row, replayed, faults, alert, rule, events, group, note, enabled,
                   fallen, dlq>>

-----------------------------------------------------------------------------
(* Time, crashes, and the steps of the workers that leave the alerts alone. *)

CooldownEnds == /\ alert.hot
                /\ alert' = [alert EXCEPT !.hot = FALSE]
                /\ UNCHANGED <<deliveryVars, rule, events, group, note, enabled, fallen,
                               dlq, lost>>

WindowPasses == /\ group = "open"
                /\ group' = "stale"
                /\ UNCHANGED <<deliveryVars, alert, rule, events, note, enabled, fallen,
                               dlq, lost>>

LoseWorker(w) ==
    /\ Crash(w)
    /\ lost' = lost \cup {task[t].on : t \in {u \in Tasks : WorkerOf[u] = w /\ task[u].pc \in {"recording", "writing"}}}
    /\ UNCHANGED <<alert, rule, events, group, note, enabled, fallen, dlq>>

WorkerStep(t) ==
    /\ \/ \E d \in Deliveries : Claim(t, d)
       \/ MarkDelivered(t)
       \/ MarkFailed(t)
       \/ AnswerTooLate(t)
    /\ UNCHANGED alertVars

RecordStep(t) ==
    \/ OutcomeIgnored(t)
    \/ OutcomeRead(t)
    \/ OutcomeWritten(t)
    \/ FallBack(t)
    \/ OutcomeFails(t)

DeliveryTime(d) == /\ LeaseLapses(d) \/ RetryDue(d)
                   /\ UNCHANGED alertVars

ReplayRequest(d) == Replay(d) /\ UNCHANGED alertVars
RestartWorker(w) == Restart(w) /\ UNCHANGED alertVars

\* The scheduler's tick, or an administrator's request, evaluates the rule.
EvaluateRules == \E state \in {"firing", "normal"} : Evaluate(state)

Next ==
    \/ EvaluateMatched
    \/ EvaluateRecovered
    \/ EvaluateRules
    \/ RouteGeneral
    \/ \E e \in GeneralEvents : PlanFanout(e)
    \/ \E p \in Providers : SetEnabled(p)
    \/ \E t \in Tasks : WorkerStep(t) \/ RecordStep(t)
    \/ \E d \in Deliveries : DeliveryTime(d) \/ ReplayRequest(d)
    \/ \E w \in Workers : LoseWorker(w) \/ RestartWorker(w)
    \/ CooldownEnds
    \/ WindowPasses

Spec == Init /\ [][Next]_vars

(* A worker keeps polling and a request to an endpoint times out; leases   *)
(* and retry times pass; a process that ended is started again.            *)
Fairness ==
    /\ \A t \in Tasks : WF_vars(WorkerStep(t)) /\ WF_vars(RecordStep(t))
    /\ \A d \in Deliveries : WF_vars(DeliveryTime(d))
    /\ \A w \in Workers : WF_vars(RestartWorker(w))

FairSpec == Spec /\ Fairness

-----------------------------------------------------------------------------
(* Properties. *)

(* A settled delivery stays as it was settled until an operator replays    *)
(* it: no late answer flips a delivered row to dead_letter or sends it     *)
(* again (mark_delivered and mark_failed select a row that is running and  *)
(* owned).                                                                 *)
SettledUntilReplayed ==
    [][\A d \in Deliveries : row[d].status \in Settled =>
          \/ row'[d] = row[d]
          \/ row'[d] = PendingRow /\ d \in replayed' \ replayed]_vars

(* An answer settles the attempt it belongs to, or the newer attempt of    *)
(* another task of its process: the row only knows the process as its      *)
(* owner.  The answer of an older attempt finds every other owner.         *)
SiblingHolds(t) ==
    \E u \in Tasks \ {t} :
        /\ WorkerOf[u] = WorkerOf[t]
        /\ task[u].pc = "sending" /\ task[u].on = task[t].on
        /\ task[u].attempt = row[task[t].on].attempts

AnswersSettleTheirAttempt ==
    [][\A t \in Tasks :
          task[t].pc = "sending" /\ task'[t].pc = "recording" =>
              row[task[t].on].attempts = task[t].attempt \/ SiblingHolds(t)]_vars

(* The only dead letter of an event that the alert learnt of is answered:  *)
(* another provider has a delivery for the event, which is not known to be *)
(* dead, or the notification.dlq metric says that there was none.          *)
OnlyDeadLetter(d) == \A o \in fallen : Event(o) = Event(d) => o = d

DeadLettersFallBack ==
    \A d \in fallen :
        OnlyDeadLetter(d) =>
            \/ d \in dlq
            \/ \E o \in Deliveries \ fallen : Event(o) = Event(d) /\ row[o].status # "absent"

(* What the life cycle of a notification promises, and the code breaks:    *)
(* the second fallback excludes its own provider only, so the dead         *)
(* delivery of the first one is its answer.                                *)
ExhaustedFallbackIsCounted ==
    \A e \in AlertEvents :
        (\A p \in Subscribed[e[1]] : <<e, p>> \in fallen) /\ Subscribed[e[1]] # {} =>
            \E p \in Subscribed[e[1]] : <<e, p>> \in dlq

(* The outbox tells the life of the alert: each firing has its event, a    *)
(* resolved alert has its recovery, and the firing that is on has none.    *)
(* (The event's key carries fire_count, the row changes in the same        *)
(* transaction, a suppressed notification still publishes.)                *)
EventsTellTheAlert ==
    /\ events \cap ({"firing"} \X (1..MaxFires)) = {"firing"} \X (1..alert.fires)
    /\ alert.state = "firing" => <<"recovery", alert.fires>> \notin events
    /\ alert.state = "resolved" => <<"recovery", alert.fires>> \in events

(* The notification of a settled delivery becomes final, or a task still   *)
(* has to record it.  The exceptions are named: an outcome lost with its   *)
(* process, in a failed transaction or under an overlapping older outcome, *)
(* and a replayed delivery.                                                *)
OutcomesReachTheAlert ==
    \A d \in AlertDeliveries \ (lost \cup replayed) :
        row[d].status \in Settled /\ Open(d) # {} =>
            \E t \in Tasks : task[t].on = d /\ task[t].pc \in {"recording", "writing"}

(* What the final statuses promise, and the code breaks: two tasks' writes *)
(* of one notification overlap, and the older "retrying" lands on the      *)
(* final status.                                                           *)
FinalNotesStay ==
    [][\A k \in Keys : note[k].status \in Settled => note'[k].status = note[k].status]_vars

(* A row that waits is settled in the end, unless the process that sent    *)
(* its last attempt died: nobody may claim the row any more.               *)
Abandoned(d) == /\ row[d].status = "running"
                /\ row[d].attempts = MaxAttempts
                /\ \A t \in Tasks : ~(task[t].pc = "sending" /\ task[t].on = d)
DeliveriesSettle ==
    \A d \in Deliveries :
        row[d].status = "pending" ~> row[d].status \in Settled \/ Abandoned(d)
=============================================================================
