---------------------- MODULE AlertNotification_proofs ----------------------
(***************************************************************************)
(* Proofs about WebhookDelivery and AlertNotification for any number of    *)
(* processes, tasks, providers and firings, any attempts and any faults.   *)
(***************************************************************************)
EXTENDS AlertNotification, WellFoundedInduction, TLAPS

-----------------------------------------------------------------------------
(* Types, as far as the proofs need them. *)

Rowlike == [status : RowStates, attempts : Nat, owner : Owners,
            lease : {"none", "live", "lapsed"}, due : BOOLEAN]
Tasklike == [pc : {"idle", "sending", "recording", "writing"}, on : Deliveries \cup {Idle.on},
             attempt : Nat, outcome : Outcomes]
Notelike == [status : NoteStates \cup Outcomes, of : Deliveries \cup {AbsentNote.of}]

Typed == /\ row \in [Deliveries -> Rowlike]
         /\ task \in [Tasks -> Tasklike]
         /\ \A t \in Tasks : task[t].pc # "idle" => task[t].on \in Deliveries
         /\ note \in [Keys -> Notelike]
         /\ enabled \subseteq Providers

(* The rows the constants are made of. *)
LEMMA Constants ==
    /\ AbsentRow \in Rowlike /\ PendingRow \in Rowlike /\ PendingRow.status = "pending"
    /\ Idle \in Tasklike /\ Idle.pc = "idle" /\ AbsentNote \in Notelike /\ AbsentNote.status = "absent"
BY DEF AbsentRow, PendingRow, Rowlike, RowStates, Settled, Owners, Idle, Tasklike, Outcomes, AbsentNote, Notelike,
       NoteStates

(* New deliveries wait; those that exist are left alone. *)
LEMMA NewRows ==
    ASSUME Typed, NEW ds
    PROVE  /\ Materialised(ds) \in [Deliveries -> Rowlike]
           /\ \A d \in Deliveries : \/ Materialised(ds)[d] = row[d]
                                    \/ row[d].status = "absent" /\ Materialised(ds)[d] = PendingRow /\ d \in ds
           /\ \A d \in Deliveries \cap ds : Materialised(ds)[d].status # "absent"
BY Constants DEF Typed, Materialised

(* What a settled attempt leaves is a row that waits or is final. *)
LEMMA SettledRows ==
    ASSUME Typed, NEW d \in Deliveries, NEW due \in BOOLEAN
    PROVE  \A r \in {Released(row[d], "delivered"), AfterFailure(row[d], due)} :
              /\ r \in Rowlike /\ r.status \in {"pending"} \cup Settled /\ r.owner = NoOwner
              /\ NotificationStatus(r) \in Outcomes
              /\ NotificationStatus(r) # "none"
              /\ r.status \in Settled => /\ NotificationStatus(r) = r.status
                                        /\ r.lease = "none" /\ r.due
<1>1. row[d] \in Rowlike
  BY DEF Typed
<1>2. \A s \in {"pending"} \cup Settled : Released(row[d], s) \in Rowlike /\ Released(row[d], s).status = s
                                           /\ Released(row[d], s).owner = NoOwner
                                           /\ Released(row[d], s).lease = "none" /\ Released(row[d], s).due
  BY <1>1 DEF Released, Rowlike, RowStates, Settled, Owners
<1>3. [Released(row[d], "pending") EXCEPT !.due = due] \in Rowlike
      /\ [Released(row[d], "pending") EXCEPT !.due = due].status = "pending"
      /\ [Released(row[d], "pending") EXCEPT !.due = due].owner = NoOwner
  BY <1>2 DEF Rowlike
<1>4. \A r \in {Released(row[d], "delivered"), AfterFailure(row[d], due)} :
         \/ \E s \in Settled : r = Released(row[d], s)
         \/ r = [Released(row[d], "pending") EXCEPT !.due = due]
  BY DEF AfterFailure, Settled
<1>5. ASSUME NEW s \in Settled, NEW r, r = Released(row[d], s)
      PROVE  /\ r \in Rowlike /\ r.status = s /\ NotificationStatus(r) = s /\ s # "none" /\ s \in Outcomes
             /\ r.owner = NoOwner /\ r.lease = "none" /\ r.due
  BY <1>2, <1>5 DEF NotificationStatus, Settled, Outcomes
<1>6. ASSUME NEW r, r = [Released(row[d], "pending") EXCEPT !.due = due]
      PROVE  r \in Rowlike /\ r.status = "pending" /\ NotificationStatus(r) = "retrying" /\ r.owner = NoOwner
  BY <1>3, <1>6 DEF NotificationStatus
<1>. QED  BY <1>4, <1>5, <1>6 DEF Outcomes, Settled

(* The best candidate is one of them. *)
LEMMA ChosenIsCandidate ==
    ASSUME Typed, NEW e, NEW except
    PROVE  \/ Chosen(e, except) = {} /\ Candidates(e, except) = {}
           \/ \E p \in Candidates(e, except) : p \in Providers \ except /\ Chosen(e, except) = {<<e, p>>}
<1>. DEFINE C == Candidates(e, except)
            R == {ss \in Nat \X Nat : ss[1] < ss[2]}
<1>1. C \subseteq Providers \ except /\ C \subseteq Nat
  BY AlertAssumption DEF Candidates, Typed
<1>2. IsWellFoundedOn(R, Nat)
  BY NatLessThanWellFounded DEF OpToRel
<1>3. C # {} => Min(C) \in C
  <2>. SUFFICES ASSUME C # {} PROVE \E x \in C : \A y \in C : x <= y
    BY DEF Min
  <2>. HIDE DEF R, C
  <2>1. PICK x \in C : \A y \in C : ~ (<<y, x>> \in R)
    BY <1>1, <1>2, WFMin
  <2>2. \A y \in C : ~(y < x)
    BY <1>1, <2>1 DEF R
  <2>. QED  BY <1>1, <2>2
<1>. QED  BY <1>1, <1>3 DEF Chosen

(* Planning notes only keys that have none. *)
LEMMA PlannedType ==
    ASSUME Typed, NEW notes \in [Keys -> Notelike], NEW ds, ds \subseteq Deliveries
    PROVE  /\ Planned(notes, ds) \in [Keys -> Notelike]
           /\ \A k \in Keys : \/ Planned(notes, ds)[k] = notes[k]
                              \/ /\ notes[k].status = "absent" /\ Planned(notes, ds)[k].status = "planned"
                                 /\ Planned(notes, ds)[k].of \in ds /\ Key(Planned(notes, ds)[k].of) = k
           /\ \A d \in ds : Key(d) \in Keys => Planned(notes, ds)[Key(d)].status # "absent"
BY DEF Planned, Notelike, NoteStates

-----------------------------------------------------------------------------
(* The life of the alert. *)

LifeInv ==
    /\ alert \in Alerts /\ (alert.state # "none" => alert.fires >= 1)
    /\ \A n \in 1..MaxFires : <<"firing", n>> \in events <=> n <= alert.fires
    /\ \A n \in Nat : <<"recovery", n>> \in events => n <= alert.fires
    /\ alert.state = "firing" => <<"recovery", alert.fires>> \notin events
    /\ alert.state = "resolved" => <<"recovery", alert.fires>> \in events

(* Both rows of a transition are written in one transaction. *)
LEMMA EmitEffect ==
    ASSUME NEW a, NEW transition, EmitTransition(a, transition), a \in Alerts
    PROVE  /\ alert' \in Alerts /\ alert'.state = a.state /\ alert'.fires = a.fires
           /\ events' = events \cup {<<transition, a.fires>>}
BY AlertAssumption DEF EmitTransition, Publish, Alerts

(* Every step keeps the outbox in line with the alert. *)
LEMMA LifeStep == LifeInv /\ [Next]_vars => LifeInv'
<1>. SUFFICES ASSUME LifeInv, [Next]_vars PROVE LifeInv'
  OBVIOUS
<1>. USE DEF LifeInv
<1>1. CASE EvaluateMatched
  <2>. DEFINE a == [alert EXCEPT !.state = "firing", !.fires = @ + 1]
  <2>a. alert \in Alerts /\ alert.fires \in Nat /\ alert.fires + 1 \in 1..MaxFires /\ MaxFires \in Nat
    BY <1>1, AlertAssumption DEF EvaluateMatched, Alerts
  <2>1. a \in Alerts /\ a.state = "firing" /\ a.fires = alert.fires + 1
    <3>1. a.fires = alert.fires + 1
      BY <2>a DEF Alerts
    <3>2. a.state = "firing"
      BY <2>a DEF Alerts
    <3>3. alert.fires + 1 \in 0..MaxFires
      BY <2>a
    <3>4. a \in Alerts
      BY <2>a, <3>3 DEF Alerts
    <3>. QED  BY <3>1, <3>2, <3>4
  <2>2. EmitTransition(a, "firing")
    BY <1>1 DEF EvaluateMatched
  <2>. HIDE DEF a
  <2>3. alert' \in Alerts /\ alert'.state = "firing" /\ alert'.fires = alert.fires + 1
        /\ events' = events \cup {<<"firing", alert.fires + 1>>}
    BY <2>1, <2>2, EmitEffect
  <2>. QED  BY <2>a, <2>1, <2>3
<1>2. CASE EvaluateRecovered
  <2>. DEFINE a == [alert EXCEPT !.state = "resolved"]
  <2>1. a \in Alerts /\ a.state = "resolved" /\ a.fires = alert.fires /\ alert.fires \in Nat /\ alert.fires >= 1
    BY <1>2, AlertAssumption DEF EvaluateRecovered, Alerts
  <2>2. EmitTransition(a, "recovery")
    BY <1>2 DEF EvaluateRecovered
  <2>. HIDE DEF a
  <2>3. alert' \in Alerts /\ alert'.state = "resolved" /\ alert'.fires = alert.fires
        /\ events' = events \cup {<<"recovery", alert.fires>>}
    BY <2>1, <2>2, EmitEffect
  <2>. QED  BY <2>1, <2>3
<1>3. CASE EvaluateRules
  <2>1. alert' = alert /\ \E n : events' = events \cup {<<"general", n>>}
    BY <1>3 DEF EvaluateRules, Evaluate, Publish
  <2>. QED  BY <2>1
<1>4. CASE CooldownEnds
  BY <1>4 DEF CooldownEnds, Alerts
<1>5. CASE UNCHANGED <<alert, events>>
  BY <1>5
<1>. QED  BY <1>1, <1>2, <1>3, <1>4, <1>5
          DEF Next, vars, alertVars, RouteGeneral, PlanFanout, SetEnabled, WorkerStep, RecordStep, OutcomeIgnored,
              OutcomeRead, OutcomeWritten, FallBack, OutcomeFails, DeliveryTime, ReplayRequest, LoseWorker,
              RestartWorker, WindowPasses

(* No alert, no event. *)
LEMMA LifeInit == Init => LifeInv
BY AlertAssumption DEF Init, LifeInv, Alerts

(* The outbox tells each change of the alert, and nothing that did not     *)
(* happen (process of alert_lifecycle.py: alert and event in one           *)
(* transaction, the event unique by fire_count).                           *)
THEOREM OutboxTellsTheAlert == Spec => []EventsTellTheAlert
<1>1. LifeInv => EventsTellTheAlert
  BY AlertAssumption DEF LifeInv, EventsTellTheAlert, Alerts
<1>. QED  BY <1>1, LifeInit, LifeStep, PTL DEF Spec

-----------------------------------------------------------------------------
(* Types are kept. *)

(* A destination is chosen only for a delivery that can exist. *)
LEMMA ChosenIsDelivery ==
    ASSUME Typed, NEW e \in Events, NEW except
    PROVE  /\ Chosen(e, except) \subseteq Deliveries
           /\ \A d \in Chosen(e, except) : Event(d) = e /\ Provider(d) \notin except /\ Provider(d) \in Providers
           /\ Chosen(e, except) = {} \/ \E d : Chosen(e, except) = {d}
<1>1. CASE Chosen(e, except) = {}
  BY <1>1
<1>2. CASE \E p \in Candidates(e, except) : p \in Providers \ except /\ Chosen(e, except) = {<<e, p>>}
  <2>1. PICK p \in Candidates(e, except) : p \in Providers \ except /\ Chosen(e, except) = {<<e, p>>}
    BY <1>2
  <2>2. <<e, p>> \in Deliveries
    BY <2>1, AlertAssumption DEF Candidates
  <2>. QED  BY <2>1, <2>2 DEF Event, Provider
<1>. QED  BY <1>1, <1>2, ChosenIsCandidate

(* A transition plans notifications of new deliveries, or nothing. *)
LEMMA EmitPlans ==
    ASSUME Typed, LifeInv, EvaluateMatched \/ EvaluateRecovered
    PROVE  \/ UNCHANGED <<row, note>>
           \/ \E e \in AlertEvents : /\ row' = Materialised(Chosen(e, {}))
                                     /\ note' = Planned(note, Chosen(e, {}))
<1>1. CASE EvaluateMatched
  <2>1. <<"firing", alert.fires + 1>> \in AlertEvents
    BY <1>1, AlertAssumption DEF EvaluateMatched, LifeInv, Alerts, AlertEvents, Transitions
  <2>2. [alert EXCEPT !.state = "firing", !.fires = @ + 1].fires = alert.fires + 1
    BY DEF LifeInv, Alerts
  <2>. QED  BY <1>1, <2>1, <2>2 DEF EvaluateMatched, EmitTransition
<1>2. CASE EvaluateRecovered
  <2>1. <<"recovery", alert.fires>> \in AlertEvents
    BY <1>2, AlertAssumption DEF EvaluateRecovered, LifeInv, Alerts, AlertEvents, Transitions
  <2>2. [alert EXCEPT !.state = "resolved"].fires = alert.fires
    BY DEF LifeInv, Alerts
  <2>. QED  BY <1>2, <2>1, <2>2 DEF EvaluateRecovered, EmitTransition
<1>. QED  BY <1>1, <1>2

(* Every step keeps the types. *)
LEMMA TypedStep == Typed /\ LifeInv /\ [Next]_vars => Typed'
<1>. SUFFICES ASSUME Typed, LifeInv, [Next]_vars PROVE Typed'
  OBVIOUS
<1>. USE DeliveryAssumption
<1>a. /\ row \in [Deliveries -> Rowlike] /\ task \in [Tasks -> Tasklike] /\ note \in [Keys -> Notelike]
      /\ \A t \in Tasks : task[t].pc # "idle" => task[t].on \in Deliveries
      /\ enabled \subseteq Providers
  BY DEF Typed
<1>b. AlertEvents \subseteq Events
  BY DEF Events
<1>1. CASE EvaluateMatched \/ EvaluateRecovered
  <2>1. UNCHANGED <<task, enabled>>
    BY <1>1 DEF EvaluateMatched, EvaluateRecovered
  <2>2. CASE UNCHANGED <<row, note>>
    BY <2>1, <2>2 DEF Typed
  <2>3. ASSUME NEW e \in AlertEvents, row' = Materialised(Chosen(e, {})), note' = Planned(note, Chosen(e, {}))
        PROVE  Typed'
    <3>1. Chosen(e, {}) \subseteq Deliveries
      BY <1>b, ChosenIsDelivery
    <3>2. row' \in [Deliveries -> Rowlike] /\ note' \in [Keys -> Notelike]
      BY <1>a, <2>3, <3>1, NewRows, PlannedType
    <3>. QED  BY <1>a, <2>1, <3>2 DEF Typed
  <2>. QED  BY <1>1, <2>2, <2>3, EmitPlans
<1>2. ASSUME NEW ds, row' = Materialised(ds), UNCHANGED <<task, note, enabled>> PROVE Typed'
  BY <1>2, NewRows DEF Typed
<1>3. CASE RouteGeneral \/ \E e \in GeneralEvents : PlanFanout(e)
  BY <1>2, <1>3 DEF RouteGeneral, PlanFanout, alertVars
<1>4. ASSUME NEW p \in Providers, SetEnabled(p) PROVE Typed'
  BY <1>4 DEF SetEnabled, Typed
<1>5. ASSUME NEW t \in Tasks, NEW d \in Deliveries, Claim(t, d), UNCHANGED alertVars PROVE Typed'
  <2>1. row' \in [Deliveries -> Rowlike]
    <3>1. row[d] \in Rowlike /\ row[d].attempts + 1 \in Nat /\ WorkerOf[t] \in Workers
      BY <1>a DEF Rowlike
    <3>. QED  BY <1>5, <1>a, <3>1 DEF Claim, Rowlike, RowStates, Owners
  <2>2. [pc |-> "sending", on |-> d, attempt |-> row[d].attempts + 1, outcome |-> "none"] \in Tasklike
    BY <1>a DEF Rowlike, Tasklike, Outcomes
  <2>. QED  BY <1>5, <1>a, <2>1, <2>2 DEF Claim, Typed, alertVars
<1>6. ASSUME NEW t \in Tasks, NEW due \in BOOLEAN,
             \/ Settle(t, Released(row[task[t].on], "delivered"))
             \/ Settle(t, AfterFailure(row[task[t].on], due)),
             UNCHANGED alertVars
      PROVE  Typed'
  <2>1. task[t].on \in Deliveries /\ task[t] \in Tasklike
    BY <1>6, <1>a DEF Settle
  <2>2. PICK r \in {Released(row[task[t].on], "delivered"), AfterFailure(row[task[t].on], due)} : Settle(t, r)
    BY <1>6
  <2>3. r \in Rowlike /\ NotificationStatus(r) \in Outcomes
    BY <2>1, SettledRows
  <2>4. [task[t] EXCEPT !.pc = "recording", !.outcome = NotificationStatus(r)] \in Tasklike
    BY <2>1, <2>3 DEF Tasklike
  <2>5. row' = [row EXCEPT ![task[t].on] = r]
        /\ task' = [task EXCEPT ![t] = [task[t] EXCEPT !.pc = "recording", !.outcome = NotificationStatus(r)]]
    BY <2>2 DEF Settle, ToRecord
  <2>. QED  BY <1>6, <1>a, <2>1, <2>3, <2>4, <2>5 DEF Typed, Tasklike, alertVars
<1>7. ASSUME NEW t \in Tasks, task' = Finished(t), UNCHANGED <<row, note, enabled>> PROVE Typed'
  BY <1>7, <1>a, Constants DEF Finished, Typed
<1>8. ASSUME NEW t \in Tasks, WorkerStep(t) PROVE Typed'
  <2>1. \A b \in {TRUE, FALSE} : b \in BOOLEAN
    OBVIOUS
  <2>2. RetryTimes(t) \subseteq BOOLEAN
    BY DEF RetryTimes
  <2>. QED  BY <1>5, <1>6, <1>7, <1>8, <2>1, <2>2
            DEF WorkerStep, MarkDelivered, MarkFailed, AnswerTooLate, alertVars
<1>9. ASSUME NEW t \in Tasks, OutcomeIgnored(t) \/ OutcomeFails(t) PROVE Typed'
  BY <1>7, <1>9 DEF OutcomeIgnored, OutcomeFails, alertVars
<1>10. ASSUME NEW t \in Tasks, OutcomeRead(t) PROVE Typed'
  BY <1>10, <1>a DEF OutcomeRead, alertVars, Typed, Tasklike
<1>c. ASSUME NEW d, NEW status \in Outcomes PROVE Noted(d, status) \in [Keys -> Notelike]
  BY <1>a DEF Noted, Notelike
<1>11. ASSUME NEW t \in Tasks, OutcomeWritten(t) PROVE Typed'
  <2>1. task[t].outcome \in Outcomes
    BY <1>a DEF Tasklike
  <2>2. note' \in [Keys -> Notelike]
    BY <1>11, <1>c, <2>1 DEF OutcomeWritten
  <2>. QED  BY <1>11, <1>a, <2>2, Constants DEF OutcomeWritten, Finished, Typed
<1>12. ASSUME NEW t \in Tasks, FallBack(t) PROVE Typed'
  <2>. DEFINE d == task[t].on
              next == Chosen(Event(d), {Provider(d)})
  <2>1. d \in Deliveries /\ Event(d) \in Events
    BY <1>12, <1>a, AlertAssumption DEF FallBack, Event
  <2>2. next \subseteq Deliveries
    BY <2>1, ChosenIsDelivery
  <2>3. Noted(d, "dead_letter") \in [Keys -> Notelike]
    BY <1>c DEF Outcomes, Settled
  <2>4. row' = Materialised(next) /\ note' = Planned(Noted(d, "dead_letter"), next) /\ task' = Finished(t)
        /\ enabled' = enabled
    BY <1>12 DEF FallBack
  <2>. HIDE DEF next, d
  <2>5. row' \in [Deliveries -> Rowlike] /\ note' \in [Keys -> Notelike]
    BY <2>2, <2>3, <2>4, NewRows, PlannedType
  <2>. QED  BY <1>a, <2>4, <2>5, Constants DEF Finished, Typed
<1>13. ASSUME NEW d \in Deliveries, DeliveryTime(d) \/ ReplayRequest(d) PROVE Typed'
  <2>1. row[d] \in Rowlike
    BY <1>a
  <2>2. [row[d] EXCEPT !.lease = "lapsed"] \in Rowlike /\ [row[d] EXCEPT !.due = TRUE] \in Rowlike
    BY <2>1 DEF Rowlike
  <2>3. \E r \in Rowlike : row' = [row EXCEPT ![d] = r]
    BY <1>13, <2>2, Constants DEF DeliveryTime, LeaseLapses, RetryDue, ReplayRequest, Replay
  <2>4. UNCHANGED <<task, note, enabled>>
    BY <1>13 DEF DeliveryTime, LeaseLapses, RetryDue, ReplayRequest, Replay, alertVars
  <2>. QED  BY <1>a, <2>3, <2>4 DEF Typed
<1>14. ASSUME NEW w \in Workers, LoseWorker(w) PROVE Typed'
  <2>1. row' \in [Deliveries -> Rowlike]
    BY <1>14, <1>a DEF LoseWorker, Crash, Rowlike, Owners
  <2>2. task' \in [Tasks -> Tasklike] /\ \A t \in Tasks : task'[t].pc # "idle" => task'[t].on \in Deliveries
    BY <1>14, <1>a, Constants DEF LoseWorker, Crash
  <2>. QED  BY <1>14, <1>a, <2>1, <2>2 DEF LoseWorker, Typed
<1>15. CASE UNCHANGED <<row, task, note, enabled>>
  BY <1>15 DEF Typed
<1>16. CASE EvaluateRules \/ CooldownEnds \/ WindowPasses \/ (\E w \in Workers : RestartWorker(w)) \/ UNCHANGED vars
  BY <1>15, <1>16 DEF EvaluateRules, Evaluate, CooldownEnds, WindowPasses, RestartWorker, Restart, deliveryVars, vars,
                      alertVars
<1>. QED  BY <1>1, <1>3, <1>4, <1>8, <1>9, <1>10, <1>11, <1>12, <1>13, <1>14, <1>16 DEF Next, RecordStep

(* The first state has them. *)
LEMMA TypedInit == Init => Typed
BY Constants DEF Init, DeliveryInit, Typed

(* What every proof below knows of a reachable state. *)
Sound == Typed /\ LifeInv

(* Types and the life of the alert hold together. *)
LEMMA SoundAlways == Spec => []Sound
<1>1. Init => Sound
  BY TypedInit, LifeInit DEF Sound
<1>2. Sound /\ [Next]_vars => Sound'
  BY TypedStep, LifeStep DEF Sound
<1>. QED  BY <1>1, <1>2, PTL DEF Spec

-----------------------------------------------------------------------------
(* What a step may do to a delivery. *)

(* The steps that change one row, besides the claim. *)
Answered(t, d) ==
    /\ task[t].pc = "sending" /\ task[t].on = d
    /\ row[d].status = "running" /\ row[d].owner = WorkerOf[t]
    /\ row'[d].status \in {"pending"} \cup Settled
    /\ row'[d].status \in Settled => row'[d].owner = NoOwner /\ row'[d].lease = "none" /\ row'[d].due
    /\ task' = [task EXCEPT ![t] = [task[t] EXCEPT !.pc = "recording", !.outcome = NotificationStatus(row'[d])]]
    /\ NotificationStatus(row'[d]) # "none"
    /\ row'[d].status \in Settled => NotificationStatus(row'[d]) \in Settled
    /\ \A c \in Deliveries \ {d} : row'[c] = row[c]

(* An answer is settled at once or is too late. *)
LEMMA AnswerEffect ==
    ASSUME Sound, NEW t \in Tasks, MarkDelivered(t) \/ MarkFailed(t)
    PROVE  task[t].on \in Deliveries /\ Answered(t, task[t].on)
<1>. DEFINE d == task[t].on
<1>1. d \in Deliveries
  BY DEF MarkDelivered, MarkFailed, Settle, Sound, Typed
<1>2. PICK due \in BOOLEAN : Settle(t, Released(row[d], "delivered")) \/ Settle(t, AfterFailure(row[d], due))
  BY DEF MarkDelivered, MarkFailed, RetryTimes
<1>3. PICK r \in {Released(row[d], "delivered"), AfterFailure(row[d], due)} : Settle(t, r)
  BY <1>2
<1>4. /\ r.status \in {"pending"} \cup Settled /\ NotificationStatus(r) # "none"
      /\ r.status \in Settled => /\ NotificationStatus(r) \in Settled
                                 /\ r.owner = NoOwner /\ r.lease = "none" /\ r.due
  BY <1>1, SettledRows DEF Sound
<1>5. row' = [row EXCEPT ![d] = r]
      /\ task' = [task EXCEPT ![t] = [task[t] EXCEPT !.pc = "recording", !.outcome = NotificationStatus(r)]]
      /\ task[t].pc = "sending" /\ row[d].status = "running" /\ row[d].owner = WorkerOf[t]
  BY <1>3 DEF Settle, ToRecord, Holds
<1>6. row'[d] = r /\ \A c \in Deliveries \ {d} : row'[c] = row[c]
  BY <1>1, <1>5 DEF Sound, Typed
<1>. QED  BY <1>1, <1>4, <1>5, <1>6 DEF Answered

(* Every step, seen from one row. *)
RowMoves(d) ==
    \/ row'[d] = row[d]
    \/ row[d].status = "absent" /\ row'[d] = PendingRow
    \/ \E t \in Tasks : Claim(t, d)
    \/ \E t \in Tasks : Answered(t, d)
    \/ /\ row'[d].status = row[d].status /\ row'[d].attempts = row[d].attempts /\ row'[d].owner = row[d].owner
       /\ row[d].lease = "live" \/ ~row[d].due
    \/ row[d].status \in Settled /\ row'[d] = PendingRow /\ d \in replayed' \ replayed
    \/ \E w \in Workers : /\ LoseWorker(w) /\ row[d].owner = w
                          /\ row'[d] = [row[d] EXCEPT !.owner = Gone]

(* A row moves in one of these ways, whatever the step. *)
LEMMA RowsMove ==
    ASSUME Sound, [Next]_vars, NEW d \in Deliveries
    PROVE  RowMoves(d)
<1>a. row \in [Deliveries -> Rowlike] /\ row[d] \in Rowlike
  BY DEF Sound, Typed
<1>1. CASE EvaluateMatched \/ EvaluateRecovered
  <2>1. row'[d] = row[d] \/ \E ds : row' = Materialised(ds)
    BY <1>1, EmitPlans DEF Sound
  <2>. QED  BY <2>1, NewRows DEF Sound, RowMoves
<1>2. CASE \/ RouteGeneral \/ \E e \in GeneralEvents : PlanFanout(e)
           \/ \E t \in Tasks : FallBack(t)
  <2>1. \E ds : row' = Materialised(ds)
    BY <1>2 DEF RouteGeneral, PlanFanout, FallBack
  <2>. QED  BY <2>1, NewRows DEF Sound, RowMoves
<1>3. ASSUME NEW t \in Tasks, NEW c \in Deliveries, Claim(t, c) PROVE RowMoves(d)
  BY <1>3, <1>a DEF Claim, RowMoves
<1>4. ASSUME NEW t \in Tasks, MarkDelivered(t) \/ MarkFailed(t) PROVE RowMoves(d)
  <2>1. task[t].on \in Deliveries /\ Answered(t, task[t].on)
    BY <1>4, AnswerEffect
  <2>2. CASE task[t].on = d
    BY <2>1, <2>2 DEF RowMoves
  <2>3. CASE task[t].on # d
    BY <2>1, <2>3 DEF RowMoves, Answered
  <2>. QED  BY <2>2, <2>3
<1>5. ASSUME NEW c \in Deliveries, DeliveryTime(c) PROVE RowMoves(d)
  <2>1. CASE c # d
    BY <1>5, <1>a, <2>1 DEF DeliveryTime, LeaseLapses, RetryDue, RowMoves
  <2>2. CASE c = d /\ LeaseLapses(d)
    <3>1. row[d].lease = "live" /\ row'[d] = [row[d] EXCEPT !.lease = "lapsed"]
      BY <1>a, <2>2 DEF LeaseLapses
    <3>. QED  BY <1>a, <3>1 DEF RowMoves, Rowlike
  <2>3. CASE c = d /\ RetryDue(d)
    <3>1. ~row[d].due /\ row'[d] = [row[d] EXCEPT !.due = TRUE]
      BY <1>a, <2>3 DEF RetryDue
    <3>. QED  BY <1>a, <3>1 DEF RowMoves, Rowlike
  <2>. QED  BY <1>5, <2>1, <2>2, <2>3 DEF DeliveryTime
<1>6. ASSUME NEW c \in Deliveries, ReplayRequest(c) PROVE RowMoves(d)
  BY <1>6, <1>a DEF ReplayRequest, Replay, RowMoves
<1>7. ASSUME NEW w \in Workers, LoseWorker(w) PROVE RowMoves(d)
  BY <1>7, <1>a DEF LoseWorker, Crash, RowMoves
<1>8. CASE UNCHANGED row
  BY <1>8 DEF RowMoves
<1>. QED  BY <1>1, <1>2, <1>3, <1>4, <1>5, <1>6, <1>7, <1>8
          DEF Next, WorkerStep, RecordStep, EvaluateRules, Evaluate, SetEnabled, AnswerTooLate, OutcomeIgnored,
              OutcomeRead, OutcomeWritten, OutcomeFails, RestartWorker, Restart, CooldownEnds, WindowPasses, vars,
              alertVars, deliveryVars

-----------------------------------------------------------------------------
(* Settled deliveries. *)

SettledInv == \A d \in Deliveries : row[d].status \in Settled =>
                 row[d].owner = NoOwner /\ row[d].lease = "none" /\ row[d].due

(* From a settled row there is one way out, the replay. *)
LEMMA SettledStep ==
    ASSUME Sound, SettledInv, [Next]_vars
    PROVE  /\ SettledInv'
           /\ \A d \in Deliveries : row[d].status \in Settled =>
                 row'[d] = row[d] \/ (row'[d] = PendingRow /\ d \in replayed' \ replayed)
<1>1. SUFFICES ASSUME NEW d \in Deliveries
      PROVE  /\ row'[d].status \in Settled => row'[d].owner = NoOwner /\ row'[d].lease = "none" /\ row'[d].due
             /\ row[d].status \in Settled => row'[d] = row[d] \/ (row'[d] = PendingRow /\ d \in replayed' \ replayed)
  BY DEF SettledInv
<1>2. RowMoves(d) /\ row[d] \in Rowlike
  BY RowsMove DEF Sound, Typed
<1>3. ASSUME NEW t \in Tasks, Claim(t, d) PROVE row[d].status \notin Settled /\ row'[d].status = "running"
  <2>1. row[d].status \notin Settled
    BY <1>2, <1>3, DeliveryAssumption DEF Claim, Claimable, Settled
  <2>. QED  BY <1>2, <1>3, <2>1 DEF Claim, Sound, Typed, Rowlike
<1>4. ASSUME NEW t \in Tasks, Answered(t, d) PROVE row[d].status \notin Settled
  BY <1>4 DEF Answered, Settled
<1>5. CASE row'[d].status = row[d].status /\ (row[d].lease = "live" \/ ~row[d].due)
  BY <1>5 DEF SettledInv
<1>6. ASSUME NEW w \in Workers, row[d].owner = w, row'[d] = [row[d] EXCEPT !.owner = Gone]
      PROVE  row[d].status \notin Settled /\ row'[d].status \notin Settled
  BY <1>2, <1>6, DeliveryAssumption DEF SettledInv, Rowlike
<1>. QED  BY <1>1, <1>2, <1>3, <1>4, <1>5, <1>6, Constants DEF RowMoves, SettledInv, Answered, Settled

(* A settled row is held by nobody, at all times. *)
LEMMA SettledAlways == Spec => []SettledInv
<1>1. Init => SettledInv
  BY DEF Init, DeliveryInit, AbsentRow, SettledInv, Settled
<1>2. Sound /\ SettledInv /\ [Next]_vars => SettledInv'
  BY SettledStep
<1>. QED  BY <1>1, <1>2, SoundAlways, PTL DEF Spec

(* A settled delivery is never sent again nor re-labelled by a late answer *)
(* (mark_delivered, mark_failed and claim_next of repository.py).          *)
THEOREM SettledDeliveriesStay == Spec => SettledUntilReplayed
<1>1. Sound /\ SettledInv /\ [Next]_vars =>
        [\A d \in Deliveries : row[d].status \in Settled =>
            \/ row'[d] = row[d]
            \/ row'[d] = PendingRow /\ d \in replayed' \ replayed]_vars
  BY SettledStep
<1>. QED  BY <1>1, SoundAlways, SettledAlways, PTL DEF Spec, SettledUntilReplayed

-----------------------------------------------------------------------------
(* Attempts. *)

(* A row held by a living process is being sent by one of its tasks, whose *)
(* attempt is the row's latest.                                            *)
Sends(t, d) ==
    task[t].pc = "sending" /\ task[t].on = d /\ task[t].attempt = row[d].attempts

AttemptInv ==
    \A d \in Deliveries :
        row[d].status = "running" /\ row[d].owner # Gone =>
            \E t \in Tasks : WorkerOf[t] = row[d].owner /\ Sends(t, d)

(* A task stops sending by its answer or with its process. *)
LEMMA SendingEnds ==
    ASSUME Sound, [Next]_vars, NEW t \in Tasks, task[t].pc = "sending"
    PROVE  \/ task'[t] = task[t]
           \/ Answered(t, task[t].on)
           \/ ~Holds(t)
           \/ LoseWorker(WorkerOf[t])
<1>a. task \in [Tasks -> Tasklike] /\ WorkerOf[t] \in Workers
  BY DeliveryAssumption DEF Sound, Typed
<1>1. ASSUME NEW u \in Tasks, NEW d \in Deliveries, Claim(u, d) PROVE task'[t] = task[t]
  BY <1>1, <1>a DEF Claim
<1>2. ASSUME NEW u \in Tasks, MarkDelivered(u) \/ MarkFailed(u)
      PROVE  task'[t] = task[t] \/ Answered(t, task[t].on)
  <2>1. Answered(u, task[u].on)
    BY <1>2, AnswerEffect
  <2>. QED  BY <1>a, <2>1 DEF Answered
<1>3. ASSUME NEW u \in Tasks, task[u].pc # "sending", task' = Finished(u) PROVE task'[t] = task[t]
  BY <1>3, <1>a DEF Finished
<1>4. ASSUME NEW u \in Tasks, OutcomeRead(u) PROVE task'[t] = task[t]
  BY <1>4, <1>a DEF OutcomeRead
<1>5. ASSUME NEW w \in Workers, LoseWorker(w) PROVE task'[t] = task[t] \/ LoseWorker(WorkerOf[t])
  BY <1>5, <1>a DEF LoseWorker, Crash
<1>6. ASSUME NEW u \in Tasks, AnswerTooLate(u) PROVE task'[t] = task[t] \/ ~Holds(t)
  BY <1>6, <1>a DEF AnswerTooLate, Finished
<1>. QED  BY <1>1, <1>2, <1>3, <1>4, <1>5, <1>6
          DEF Next, WorkerStep, RecordStep, EvaluateRules, Evaluate, SetEnabled, OutcomeIgnored,
              OutcomeWritten, FallBack, OutcomeFails, RestartWorker, Restart, CooldownEnds, WindowPasses, vars,
              alertVars, deliveryVars, EvaluateMatched, EvaluateRecovered, RouteGeneral, PlanFanout, DeliveryTime,
              LeaseLapses, RetryDue, ReplayRequest, Replay

(* A task holds a row until its answer, its end or the claim of another task. *)
LEMMA AttemptStep == Sound /\ AttemptInv /\ [Next]_vars => AttemptInv'
<1>. SUFFICES ASSUME Sound, AttemptInv, [Next]_vars,
                     NEW d \in Deliveries, row'[d].status = "running", row'[d].owner # Gone
              PROVE  \E t \in Tasks : WorkerOf[t] = row'[d].owner /\ Sends(t, d)'
  BY DEF AttemptInv
<1>a. row \in [Deliveries -> Rowlike] /\ task \in [Tasks -> Tasklike]
  BY DEF Sound, Typed
<1>1. ASSUME NEW t \in Tasks, Claim(t, d) PROVE WorkerOf[t] = row'[d].owner /\ Sends(t, d)'
  BY <1>1, <1>a DEF Claim, Sends, Rowlike
<1>2. ASSUME NEW t \in Tasks, Answered(t, d) PROVE FALSE
  BY <1>2 DEF Answered, Settled
<1>3. ASSUME NEW w \in Workers, row[d].owner = w, LoseWorker(w) PROVE FALSE
  BY <1>a, <1>3 DEF LoseWorker, Crash, Rowlike
<1>4. CASE row'[d].status = row[d].status /\ row'[d].attempts = row[d].attempts /\ row'[d].owner = row[d].owner
  <2>1. PICK t \in Tasks : WorkerOf[t] = row[d].owner /\ Sends(t, d)
    BY <1>4 DEF AttemptInv
  <2>2. task[t].pc = "sending" /\ task[t].on = d /\ Holds(t) /\ WorkerOf[t] \in Workers
    BY <1>4, <2>1, DeliveryAssumption DEF Sends, Holds
  <2>3. task'[t] = task[t]
    BY <1>2, <1>3, <2>1, <2>2, SendingEnds
  <2>. QED  BY <1>4, <2>1, <2>3 DEF Sends
<1>5. CASE row'[d] = PendingRow
  BY <1>5, Constants
<1>. QED  BY <1>1, <1>2, <1>3, <1>4, <1>5, RowsMove DEF RowMoves

(* An answer settles its own attempt, or the attempt of another task of    *)
(* its process, for any number of tasks in any number of processes         *)
(* (mark_delivered and mark_failed of webhook_delivery_repository.py       *)
(* select by owner, not by attempt).                                       *)
THEOREM OldAnswersAreLate == Spec => AnswersSettleTheirAttempt
<1>1. Init => AttemptInv
  BY DEF Init, DeliveryInit, AttemptInv, AbsentRow
<1>2. Sound /\ AttemptInv /\ [Next]_vars =>
        [\A t \in Tasks :
            task[t].pc = "sending" /\ task'[t].pc = "recording" =>
                row[task[t].on].attempts = task[t].attempt \/ SiblingHolds(t)]_vars
  <2>. SUFFICES ASSUME Sound, AttemptInv, Next, NEW t \in Tasks,
                       task[t].pc = "sending", task'[t].pc = "recording"
                PROVE  row[task[t].on].attempts = task[t].attempt \/ SiblingHolds(t)
    OBVIOUS
  <2>a. /\ task \in [Tasks -> Tasklike] /\ Idle.pc = "idle"
        /\ task[t].on \in Deliveries /\ WorkerOf[t] # Gone
    BY Constants, DeliveryAssumption DEF Sound, Typed
  <2>1. ASSUME NEW u \in Tasks, MarkDelivered(u) \/ MarkFailed(u)
        PROVE  row[task[t].on].attempts = task[t].attempt \/ SiblingHolds(t)
    <3>1. Answered(u, task[u].on)
      BY <2>1, AnswerEffect
    <3>2. u = t
      BY <2>a, <3>1 DEF Answered
    <3>3. row[task[t].on].status = "running" /\ row[task[t].on].owner = WorkerOf[t]
      BY <3>1, <3>2 DEF Answered
    <3>4. PICK v \in Tasks : WorkerOf[v] = WorkerOf[t] /\ Sends(v, task[t].on)
      BY <2>a, <3>3 DEF AttemptInv
    <3>. QED  BY <3>4 DEF Sends, SiblingHolds
  <2>2. ASSUME NEW u \in Tasks, \/ task' = Finished(u)
                                \/ OutcomeRead(u)
                                \/ \E d \in Deliveries : Claim(u, d)
        PROVE  FALSE
    BY <2>2, <2>a DEF Finished, OutcomeRead, Claim
  <2>3. ASSUME NEW w \in Workers, LoseWorker(w) PROVE FALSE
    BY <2>3, <2>a DEF LoseWorker, Crash
  <2>. QED  BY <2>1, <2>2, <2>3
            DEF Next, WorkerStep, RecordStep, EvaluateRules, Evaluate, SetEnabled, AnswerTooLate, OutcomeIgnored,
                OutcomeWritten, FallBack, OutcomeFails, RestartWorker, Restart, CooldownEnds, WindowPasses, vars,
                alertVars, deliveryVars, EvaluateMatched, EvaluateRecovered, RouteGeneral, PlanFanout, DeliveryTime,
                LeaseLapses, RetryDue, ReplayRequest, Replay
<1>. QED  BY <1>1, <1>2, SoundAlways, AttemptStep, PTL DEF Spec, AnswersSettleTheirAttempt

-----------------------------------------------------------------------------
(* Dead letters. *)

FallInv ==
    /\ fallen \subseteq Deliveries
    /\ \A d \in fallen : \/ d \in dlq
                         \/ \E p \in Providers \ {Provider(d)} :
                               <<Event(d), p>> \in Deliveries /\ row[<<Event(d), p>>].status # "absent"

(* A row that exists goes on existing. *)
LEMMA RowsStay ==
    ASSUME Sound, [Next]_vars, NEW d \in Deliveries, row[d].status # "absent"
    PROVE  row'[d].status # "absent"
<1>1. ASSUME NEW t \in Tasks, Claim(t, d) PROVE row'[d].status = "running"
  BY <1>1 DEF Claim, Sound, Typed, Rowlike
<1>2. ASSUME NEW t \in Tasks, Answered(t, d) PROVE row'[d].status # "absent"
  BY <1>2 DEF Answered, Settled
<1>3. ASSUME NEW w \in Workers, row'[d] = [row[d] EXCEPT !.owner = Gone] PROVE row'[d].status = row[d].status
  BY <1>3 DEF Sound, Typed, Rowlike
<1>. QED  BY <1>1, <1>2, <1>3, RowsMove, Constants DEF RowMoves

(* A fallback that was planned stays, and so does its metric. *)
LEMMA FallStep == Sound /\ FallInv /\ [Next]_vars => FallInv'
<1>. SUFFICES ASSUME Sound, FallInv, [Next]_vars PROVE FallInv'
  OBVIOUS
<1>1. CASE \E t \in Tasks : FallBack(t)
  <2>. PICK t \in Tasks : FallBack(t)
    BY <1>1
  <2>. DEFINE d == task[t].on
              next == Chosen(Event(d), {Provider(d)})
  <2>1. d \in Deliveries /\ Event(d) \in Events
    BY AlertAssumption DEF FallBack, Event, Sound, Typed
  <2>2. /\ dlq' = IF next = {} THEN dlq \cup {d} ELSE dlq
        /\ fallen' = fallen \cup {d} /\ row' = Materialised(next)
    BY DEF FallBack
  <2>3. next = {} \/ \E p \in Providers \ {Provider(d)} :
                        <<Event(d), p>> \in Deliveries /\ row'[<<Event(d), p>>].status # "absent"
    <3>1. next \subseteq Deliveries /\ \A c \in next : row'[c].status # "absent"
      BY <2>1, <2>2, ChosenIsDelivery, NewRows DEF Sound
    <3>2. next = {} \/ \E p \in Providers \ {Provider(d)} : next = {<<Event(d), p>>}
      BY ChosenIsCandidate DEF Sound
    <3>. QED  BY <3>1, <3>2
  <2>. HIDE DEF d, next
  <2>4. ASSUME NEW c \in fallen', c # d
        PROVE  \/ c \in dlq'
               \/ \E p \in Providers \ {Provider(c)} :
                     <<Event(c), p>> \in Deliveries /\ row'[<<Event(c), p>>].status # "absent"
    BY <2>2, <2>4, RowsStay DEF FallInv
  <2>. QED  BY <2>1, <2>2, <2>3, <2>4 DEF FallInv
<1>2. CASE UNCHANGED <<fallen, dlq>>
  BY <1>2, RowsStay DEF FallInv
<1>. QED  BY <1>1, <1>2
          DEF Next, WorkerStep, RecordStep, EvaluateRules, Evaluate, SetEnabled, OutcomeIgnored, OutcomeRead,
              OutcomeWritten, OutcomeFails, RestartWorker, CooldownEnds, WindowPasses, vars, alertVars,
              EvaluateMatched, EvaluateRecovered, RouteGeneral, PlanFanout, DeliveryTime, ReplayRequest, LoseWorker

(* The only dead letter of an event the alert learnt of has another        *)
(* provider's delivery, which is not known to be dead, or is counted       *)
(* (record_delivery_outcome of alert_lifecycle.py).                        *)
THEOREM NoDeadLetterIsDropped == Spec => []DeadLettersFallBack
<1>1. Init => FallInv
  BY DEF Init, FallInv
<1>2. FallInv => DeadLettersFallBack
  <2>. SUFFICES ASSUME FallInv, NEW d \in fallen, OnlyDeadLetter(d), d \notin dlq
                PROVE  \E o \in Deliveries \ fallen : Event(o) = Event(d) /\ row[o].status # "absent"
    BY DEF DeadLettersFallBack
  <2>1. PICK p \in Providers \ {Provider(d)} :
          <<Event(d), p>> \in Deliveries /\ row[<<Event(d), p>>].status # "absent"
    BY DEF FallInv
  <2>2. Event(<<Event(d), p>>) = Event(d) /\ Provider(<<Event(d), p>>) # Provider(d)
    BY DEF Event, Provider
  <2>. QED  BY <2>1, <2>2 DEF OnlyDeadLetter
<1>. QED  BY <1>1, <1>2, SoundAlways, FallStep, PTL DEF Spec

-----------------------------------------------------------------------------
(* The notifications of the alert's deliveries. *)

Reporting(t, d) == task[t].on = d /\ task[t].pc \in {"recording", "writing"}

\* A notification stands under its key, and no delivery is without one.
Keyed(notes) == \A k \in Keys : notes[k].status # "absent" => notes[k].of \in AlertDeliveries /\ Key(notes[k].of) = k
Covered(notes) == \A d \in AlertDeliveries : row[d].status # "absent" => notes[Key(d)].status # "absent"

\* Every report has an outcome, and only notified deliveries get beyond the read.
ReportFits(tk) == /\ tk.pc \in {"recording", "writing"} => tk.outcome # "none"
                  /\ tk.pc = "writing" => tk.on \in AlertDeliveries

\* A settled delivery with an open notification is still being reported, by
\* the task that settled it.
ReportInv ==
    /\ Keyed(note) /\ Covered(note)
    /\ \A t \in Tasks : ReportFits(task[t])
    /\ \A d \in AlertDeliveries \ (lost \cup replayed) :
          row[d].status \in Settled /\ Open(d) # {} =>
             \E t \in Tasks : Reporting(t, d) /\ task[t].outcome \in Settled

(* The key of a delivery of an alert event. *)
LEMMA KeyType == \A d \in AlertDeliveries : d \in Deliveries /\ Key(d) \in Keys /\ Event(d) \in AlertEvents
BY AlertAssumption DEF AlertDeliveries, AlertEvents, Key, Keys, Event, Provider

(* Planning the best candidate of an alert event keeps every delivery      *)
(* with its notification, and opens none for a row that was there.         *)
LEMMA PlanFits ==
    ASSUME Sound, NEW notes \in [Keys -> Notelike], Keyed(notes), Covered(notes), NEW e \in AlertEvents, NEW except,
           row' = Materialised(Chosen(e, except)), note' = Planned(notes, Chosen(e, except))
    PROVE  /\ Keyed(note)' /\ Covered(note)'
           /\ \A d \in AlertDeliveries, k \in Keys :
                 row[d].status # "absent" /\ note'[k].status # "absent" /\ note'[k].of = d => note'[k] = notes[k]
<1>. DEFINE ds == Chosen(e, except)
<1>1. ds \subseteq AlertDeliveries /\ ds \subseteq Deliveries
  BY ChosenIsDelivery DEF Events, Event, AlertDeliveries, Sound
<1>2. /\ \A k \in Keys : \/ note'[k] = notes[k]
                         \/ /\ notes[k].status = "absent" /\ note'[k].status = "planned"
                            /\ note'[k].of \in ds /\ Key(note'[k].of) = k
      /\ \A d \in ds : note'[Key(d)].status # "absent"
  <2>1. \A d \in ds : Key(d) \in Keys
    BY <1>1, KeyType
  <2>. QED  BY <1>1, <2>1, PlannedType DEF Sound
<1>3. \A d \in Deliveries : row'[d] = row[d] \/ d \in ds
  BY NewRows DEF Sound
<1>4. Keyed(note')
  BY <1>1, <1>2 DEF Keyed
<1>5. ASSUME NEW d \in AlertDeliveries, row'[d].status # "absent" PROVE note'[Key(d)].status # "absent"
  <2>1. Key(d) \in Keys /\ d \in Deliveries
    BY KeyType
  <2>2. CASE d \in ds
    BY <1>2, <2>2
  <2>3. CASE d \notin ds
    <3>1. notes[Key(d)].status # "absent"
      BY <1>3, <1>5, <2>1, <2>3 DEF Covered
    <3>. QED  BY <1>2, <2>1, <3>1
  <2>. QED  BY <2>2, <2>3
<1>6. \A d \in AlertDeliveries, k \in Keys :
         row[d].status # "absent" /\ note'[k].status # "absent" /\ note'[k].of = d => note'[k] = notes[k]
  BY <1>2, KeyType DEF Covered
<1>. QED  BY <1>4, <1>5, <1>6 DEF Keyed, Covered

(* Noting an outcome leaves the other notifications and all keys alone. *)
LEMMA NotedFits ==
    ASSUME Sound, ReportInv, NEW d \in Deliveries, NEW status \in Outcomes \ {"none"}
    PROVE  /\ Noted(d, status) \in [Keys -> Notelike] /\ Keyed(Noted(d, status)) /\ Covered(Noted(d, status))
           /\ \A k \in Keys : \/ Noted(d, status)[k] = note[k] /\ k \notin NoteOf(d)
                              \/ /\ k \in NoteOf(d) /\ Noted(d, status)[k].status = status
                                 /\ Noted(d, status)[k].of = note[k].of
<1>1. note \in [Keys -> Notelike]
  BY DEF Sound, Typed
<1>2. \A k \in Keys : /\ [note[k] EXCEPT !.status = status] \in Notelike
                      /\ [note[k] EXCEPT !.status = status].status = status
                      /\ [note[k] EXCEPT !.status = status].of = note[k].of
  BY <1>1 DEF Notelike
<1>3. \A k \in Keys : \/ Noted(d, status)[k] = note[k] /\ k \notin NoteOf(d)
                      \/ /\ k \in NoteOf(d) /\ Noted(d, status)[k].status = status
                         /\ Noted(d, status)[k].of = note[k].of
  BY <1>2 DEF Noted
<1>4. Noted(d, status) \in [Keys -> Notelike]
  BY <1>1, <1>2 DEF Noted
<1>5. status # "absent"
  BY DEF Outcomes, Settled
<1>6. Keyed(Noted(d, status))
  BY <1>3, <1>5 DEF ReportInv, Keyed, NoteOf
<1>7. Covered(Noted(d, status))
  BY <1>3, <1>5, KeyType DEF ReportInv, Covered, NoteOf
<1>. QED  BY <1>3, <1>4, <1>6, <1>7

(* Every step keeps the reports of the settled deliveries going. *)
LEMMA ReportStep == Sound /\ ReportInv /\ [Next]_vars => ReportInv'
<1>. SUFFICES ASSUME Sound, ReportInv, [Next]_vars PROVE ReportInv'
  OBVIOUS
<1>a. /\ row \in [Deliveries -> Rowlike] /\ task \in [Tasks -> Tasklike] /\ note \in [Keys -> Notelike]
      /\ \A t \in Tasks : task[t].pc # "idle" => task[t].on \in Deliveries
      /\ Idle.pc = "idle" /\ PendingRow.status = "pending" /\ PendingRow.status \notin Settled
  BY Constants DEF Sound, Typed, Settled
\* Rows and notifications fit, and the reports that are needed go on.
<1>b. ASSUME Keyed(note)', Covered(note)',
             \A t \in Tasks : ReportFits(task'[t]),
             \A d \in AlertDeliveries \ (lost' \cup replayed') :
                row'[d].status \in Settled /\ Open(d)' # {} =>
                   \/ \E t \in Tasks : Reporting(t, d)' /\ task'[t].outcome \in Settled
                   \/ /\ row[d].status \in Settled /\ Open(d) # {} /\ d \notin lost \cup replayed
                      /\ \A t \in Tasks : Reporting(t, d) /\ task[t].outcome \in Settled =>
                                             Reporting(t, d)' /\ task'[t].outcome \in Settled
      PROVE  ReportInv'
  <2>1. ASSUME NEW d \in AlertDeliveries \ (lost' \cup replayed'), row'[d].status \in Settled, Open(d)' # {}
        PROVE  \E t \in Tasks : Reporting(t, d)' /\ task'[t].outcome \in Settled
    BY <1>b, <2>1 DEF ReportInv
  <2>. QED  BY <1>b, <2>1 DEF ReportInv
<1>c. /\ Keyed(note) /\ Covered(note)
      /\ \A t \in Tasks : ReportFits(task[t])
  BY DEF ReportInv
\* Steps that leave the notifications alone and add no row of an alert event.
<1>d. ASSUME note' = note, \A d \in AlertDeliveries : row[d].status = "absent" => row'[d].status = "absent"
      PROVE  Keyed(note)' /\ Covered(note)' /\ \A d : Open(d)' = Open(d)
  <2>1. Covered(note)'
    BY <1>c, <1>d DEF Covered
  <2>. QED  BY <1>c, <1>d, <2>1 DEF Keyed, Open, NoteOf
<1>1. CASE EvaluateMatched \/ EvaluateRecovered
  <2>1. UNCHANGED <<task, lost, replayed>>
    BY <1>1 DEF EvaluateMatched, EvaluateRecovered
  <2>2. CASE UNCHANGED <<row, note>>
    BY <2>1, <2>2 DEF ReportInv, Keyed, Covered, Open, NoteOf, Reporting
  <2>3. ASSUME NEW e \in AlertEvents, row' = Materialised(Chosen(e, {})), note' = Planned(note, Chosen(e, {}))
        PROVE  ReportInv'
    <3>1. /\ Keyed(note)' /\ Covered(note)'
          /\ \A d \in AlertDeliveries, k \in Keys :
                row[d].status # "absent" /\ note'[k].status # "absent" /\ note'[k].of = d => note'[k] = note[k]
      BY <1>a, <1>c, <2>3, PlanFits
    <3>2. \A d \in Deliveries : row'[d].status \in Settled => row[d].status = row'[d].status
      BY <1>a, <2>3, NewRows DEF Sound
    <3>3. ASSUME NEW d \in AlertDeliveries, row'[d].status \in Settled, Open(d)' # {} PROVE Open(d) # {}
      <4>1. row[d].status # "absent"
        BY <3>2, <3>3, KeyType DEF Settled
      <4>. QED  BY <3>1, <3>3, <4>1 DEF Open, NoteOf
    <3>. QED  BY <1>b, <1>c, <2>1, <3>1, <3>2, <3>3, KeyType DEF Reporting, ReportFits
  <2>. QED  BY <1>1, <2>2, <2>3, EmitPlans DEF Sound
<1>2. CASE RouteGeneral \/ \E e \in GeneralEvents : PlanFanout(e)
  <2>a. \A es : \A d \in Fanout(es) : d[1] \in es
    BY DEF Fanout
  <2>b. Batch \subseteq GeneralEvents
    BY DEF Batch
  <2>1. \E ds : row' = Materialised(ds) /\ \A d \in ds : d[1] \in GeneralEvents
    <3>1. CASE RouteGeneral
      BY <2>a, <2>b, <3>1 DEF RouteGeneral
    <3>2. CASE \E e \in GeneralEvents : PlanFanout(e)
      <4>1. PICK e \in GeneralEvents : PlanFanout(e)
        BY <3>2
      <4>2. \A d \in Fanout({e}) \cap (Events \X FanoutProviders) : d[1] \in GeneralEvents
        BY <2>a
      <4>. QED  BY <4>1, <4>2 DEF PlanFanout
    <3>. QED  BY <1>2, <3>1, <3>2
  <2>2. \A d \in AlertDeliveries : d \in Deliveries /\ d[1] \notin GeneralEvents
    BY DEF AlertDeliveries, AlertEvents, GeneralEvents, Transitions
  <2>3. \A d \in AlertDeliveries : row'[d] = row[d]
    BY <2>1, <2>2, NewRows DEF Sound
  <2>4. UNCHANGED <<task, note, lost, replayed>>
    BY <1>2 DEF RouteGeneral, PlanFanout, alertVars
  <2>. QED  BY <2>3, <2>4 DEF ReportInv, Keyed, Covered, Open, NoteOf, Reporting
<1>3. CASE UNCHANGED <<row, task, note, lost, replayed>>
  BY <1>3 DEF ReportInv, Keyed, Covered, Open, NoteOf, Reporting
<1>4. ASSUME NEW t \in Tasks, NEW c \in Deliveries, Claim(t, c), UNCHANGED alertVars PROVE ReportInv'
  <2>1. /\ \A d \in Deliveries \ {c} : row'[d] = row[d]
        /\ row'[c].status = "running" /\ row[c].status # "absent"
        /\ task[t].pc = "idle" /\ task'[t].pc = "sending" /\ \A u \in Tasks \ {t} : task'[u] = task[u]
        /\ UNCHANGED <<note, lost, replayed>>
    BY <1>4, <1>a DEF Claim, Claimable, alertVars, Rowlike
  <2>2. Keyed(note)' /\ Covered(note)' /\ \A d : Open(d)' = Open(d)
    BY <1>d, <2>1, KeyType
  <2>. QED  BY <1>b, <1>c, <2>1, <2>2, KeyType DEF Reporting, Settled, ReportFits
<1>5. ASSUME NEW t \in Tasks, MarkDelivered(t) \/ MarkFailed(t), UNCHANGED alertVars PROVE ReportInv'
  <2>. DEFINE c == task[t].on
  <2>0. c \in Deliveries /\ Answered(t, c)
    BY <1>5, AnswerEffect
  <2>1. /\ \A d \in Deliveries \ {c} : row'[d] = row[d]
        /\ row[c].status # "absent" /\ task[t].pc = "sending"
        /\ task'[t].pc = "recording" /\ task'[t].on = c /\ task'[t].outcome # "none"
        /\ row'[c].status \in Settled => task'[t].outcome \in Settled
        /\ \A u \in Tasks \ {t} : task'[u] = task[u]
    BY <1>a, <2>0 DEF Answered, Tasklike
  <2>2. UNCHANGED <<note, lost, replayed>>
    BY <1>5 DEF MarkDelivered, MarkFailed, Settle, alertVars
  <2>. HIDE DEF c
  <2>3. Keyed(note)' /\ Covered(note)' /\ \A d : Open(d)' = Open(d)
    BY <1>d, <2>1, <2>2, KeyType
  <2>. QED  BY <1>b, <1>c, <2>1, <2>2, <2>3, KeyType DEF Reporting, ReportFits
<1>6. ASSUME NEW t \in Tasks, AnswerTooLate(t) \/ OutcomeIgnored(t), UNCHANGED alertVars PROVE ReportInv'
  <2>1. /\ UNCHANGED <<row, note, lost, replayed>> /\ task'[t].pc = "idle" /\ \A u \in Tasks \ {t} : task'[u] = task[u]
        /\ \A d : Reporting(t, d) => Open(d) = {}
    BY <1>6, <1>a DEF AnswerTooLate, OutcomeIgnored, Finished, alertVars, Reporting
  <2>2. Keyed(note)' /\ Covered(note)' /\ \A d : Open(d)' = Open(d)
    BY <1>d, <2>1
  <2>. QED  BY <1>b, <1>c, <2>1, <2>2 DEF Reporting, ReportFits
<1>7. ASSUME NEW t \in Tasks, OutcomeRead(t) PROVE ReportInv'
  <2>1. /\ UNCHANGED <<row, note, lost, replayed>> /\ \A u \in Tasks \ {t} : task'[u] = task[u]
        /\ task[t].pc = "recording" /\ task'[t].pc = "writing" /\ task'[t].on = task[t].on
        /\ task'[t].outcome = task[t].outcome /\ task[t].on \in AlertDeliveries
    BY <1>7, <1>a, <1>c DEF OutcomeRead, alertVars, Tasklike, Keyed, Open, NoteOf
  <2>2. Keyed(note)' /\ Covered(note)' /\ \A d : Open(d)' = Open(d)
    BY <1>d, <2>1
  <2>. QED  BY <1>b, <1>c, <2>1, <2>2 DEF Reporting, ReportFits
<1>8. ASSUME NEW t \in Tasks, OutcomeWritten(t) PROVE ReportInv'
  <2>. DEFINE c == task[t].on
              status == task[t].outcome
  <2>1. /\ c \in Deliveries /\ status \in Outcomes \ {"none"} /\ Reporting(t, c)
        /\ note' = Noted(c, status) /\ UNCHANGED <<row, replayed>>
        /\ task'[t].pc = "idle" /\ \A u \in Tasks \ {t} : task'[u] = task[u]
        /\ lost \subseteq lost' /\ (c \in lost' \/ Open(c) # {})
    BY <1>8, <1>a, <1>c DEF OutcomeWritten, Finished, Tasklike, Reporting, ReportFits
  <2>. HIDE DEF c, status
  <2>2. /\ Keyed(note)' /\ Covered(note)'
        /\ \A k \in Keys : \/ note'[k] = note[k] /\ k \notin NoteOf(c)
                           \/ k \in NoteOf(c) /\ note'[k].status = status /\ note'[k].of = note[k].of
    <3>1. Covered(Noted(c, status)) /\ Keyed(Noted(c, status))
      BY <2>1, NotedFits
    <3>. QED  BY <2>1, <3>1, NotedFits DEF Covered, Keyed
  <2>3. \A d \in Deliveries : Open(d)' # {} => \/ d = c /\ status \notin Settled
                                               \/ d # c /\ Open(d) # {}
    BY <2>2 DEF Open, NoteOf
  <2>4. ASSUME NEW d \in AlertDeliveries \ (lost' \cup replayed'), row'[d].status \in Settled, Open(d)' # {}
        PROVE  /\ row[d].status \in Settled /\ Open(d) # {} /\ d \notin lost \cup replayed
               /\ \A u \in Tasks : Reporting(u, d) /\ task[u].outcome \in Settled =>
                                      Reporting(u, d)' /\ task'[u].outcome \in Settled
    BY <2>1, <2>3, <2>4, KeyType DEF Reporting, status
  <2>. QED  BY <1>b, <1>c, <2>1, <2>2, <2>4 DEF ReportFits
<1>9. ASSUME NEW t \in Tasks, FallBack(t) PROVE ReportInv'
  <2>. DEFINE c == task[t].on
              notes == Noted(c, "dead_letter")
              next == Chosen(Event(c), {Provider(c)})
  <2>1. /\ c \in Deliveries /\ Reporting(t, c) /\ row' = Materialised(next) /\ note' = Planned(notes, next)
        /\ UNCHANGED <<replayed, lost>> /\ task'[t].pc = "idle" /\ \A u \in Tasks \ {t} : task'[u] = task[u]
    BY <1>9, <1>a DEF FallBack, Finished, Reporting
  <2>2. /\ notes \in [Keys -> Notelike] /\ Keyed(notes) /\ Covered(notes)
        /\ \A k \in Keys : \/ notes[k] = note[k] /\ k \notin NoteOf(c)
                           \/ k \in NoteOf(c) /\ notes[k].status = "dead_letter" /\ notes[k].of = note[k].of
    BY <2>1, NotedFits DEF Outcomes, Settled
  <2>3. Event(c) \in AlertEvents
    BY <1>9, <1>c, KeyType DEF FallBack, ReportFits
  <2>. HIDE DEF c, notes
  <2>4. /\ Keyed(note)' /\ Covered(note)'
        /\ \A d \in AlertDeliveries, k \in Keys :
              row[d].status # "absent" /\ note'[k].status # "absent" /\ note'[k].of = d => note'[k] = notes[k]
    BY <2>1, <2>2, <2>3, PlanFits
  <2>5. \A d \in Deliveries : row'[d].status \in Settled => row[d].status = row'[d].status
    BY <1>a, <2>1, NewRows DEF Sound
  <2>6. ASSUME NEW d \in AlertDeliveries, row'[d].status \in Settled, Open(d)' # {}
        PROVE  row[d].status \in Settled /\ d # c /\ Open(d) # {}
    <3>1. row[d].status \in Settled /\ row[d].status # "absent"
      BY <2>5, <2>6, KeyType DEF Settled
    <3>2. PICK k \in Keys : note'[k].status # "absent" /\ note'[k].of = d /\ note'[k].status \notin Settled
      BY <2>6 DEF Open, NoteOf
    <3>3. notes[k].status # "absent" /\ notes[k].of = d /\ notes[k].status \notin Settled
      BY <2>4, <3>1, <3>2
    <3>4. notes[k] = note[k] /\ k \notin NoteOf(c)
      BY <2>2, <3>3 DEF Settled
    <3>. QED  BY <3>1, <3>3, <3>4 DEF Open, NoteOf
  <2>7. ASSUME NEW d, d # c, NEW u \in Tasks, Reporting(u, d)
        PROVE  Reporting(u, d)' /\ task'[u] = task[u]
    BY <2>1, <2>7 DEF Reporting, ReportFits
  <2>8. \A u \in Tasks : ReportFits(task'[u])
    BY <1>c, <2>1 DEF ReportFits
  <2>. QED  BY <1>b, <2>1, <2>4, <2>6, <2>7, <2>8
<1>10. ASSUME NEW t \in Tasks, OutcomeFails(t) PROVE ReportInv'
  <2>1. /\ UNCHANGED <<row, note, replayed>> /\ lost' = lost \cup {task[t].on}
        /\ task'[t].pc = "idle" /\ \A u \in Tasks \ {t} : task'[u] = task[u]
    BY <1>10, <1>a DEF OutcomeFails, Finished
  <2>2. Keyed(note)' /\ Covered(note)' /\ \A d : Open(d)' = Open(d)
    BY <1>d, <2>1
  <2>. QED  BY <1>b, <1>c, <2>1, <2>2 DEF Reporting, ReportFits
<1>11. ASSUME NEW c \in Deliveries, DeliveryTime(c) \/ ReplayRequest(c) PROVE ReportInv'
  <2>1. /\ UNCHANGED <<task, note, lost>> /\ replayed \subseteq replayed'
        /\ \A d \in Deliveries : \/ row'[d].status = row[d].status
                                 \/ row[d].status \in Settled /\ row'[d].status = "pending"
    <3>1. CASE DeliveryTime(c)
      BY <1>a, <3>1 DEF DeliveryTime, LeaseLapses, RetryDue, Rowlike, alertVars
    <3>2. CASE ReplayRequest(c)
      BY <1>a, <3>2 DEF ReplayRequest, Replay, alertVars
    <3>. QED  BY <1>11, <3>1, <3>2
  <2>2. Keyed(note)' /\ Covered(note)' /\ \A d : Open(d)' = Open(d)
    BY <1>d, <2>1, KeyType DEF Settled
  <2>. QED  BY <1>b, <1>c, <2>1, <2>2, KeyType DEF Reporting, Settled, ReportFits
<1>12. ASSUME NEW w \in Workers, LoseWorker(w) PROVE ReportInv'
  <2>1. /\ UNCHANGED <<note, replayed>> /\ lost \subseteq lost'
        /\ \A d \in Deliveries : row'[d].status = row[d].status
        /\ \A t \in Tasks : task'[t] = task[t] \/ (task'[t].pc = "idle" /\ WorkerOf[t] = w)
        /\ \A t \in Tasks, d \in Deliveries : Reporting(t, d) /\ WorkerOf[t] = w => d \in lost'
    <3>1. \A d \in Deliveries : row'[d].status = row[d].status
      BY <1>12, <1>a DEF LoseWorker, Crash, Rowlike
    <3>2. \A t \in Tasks : task'[t] = task[t] \/ (task'[t].pc = "idle" /\ WorkerOf[t] = w)
      BY <1>12, <1>a DEF LoseWorker, Crash
    <3>3. lost \subseteq lost' /\ \A t \in Tasks, d \in Deliveries : Reporting(t, d) /\ WorkerOf[t] = w => d \in lost'
      BY <1>12 DEF LoseWorker, Reporting
    <3>4. UNCHANGED <<note, replayed>>
      BY <1>12 DEF LoseWorker, Crash
    <3>. QED  BY <3>1, <3>2, <3>3, <3>4
  <2>2. Keyed(note)' /\ Covered(note)' /\ \A d : Open(d)' = Open(d)
    BY <1>d, <2>1, KeyType
  <2>. QED  BY <1>b, <1>c, <2>1, <2>2, KeyType DEF Reporting, ReportFits
<1>13. CASE EvaluateRules \/ CooldownEnds \/ WindowPasses \/ (\E w \in Workers : RestartWorker(w))
            \/ (\E p \in Providers : SetEnabled(p)) \/ UNCHANGED vars
  BY <1>3, <1>13 DEF EvaluateRules, Evaluate, CooldownEnds, WindowPasses, RestartWorker, Restart, SetEnabled,
                     deliveryVars, vars, alertVars
<1>14. ASSUME NEW t \in Tasks, WorkerStep(t) \/ RecordStep(t) PROVE ReportInv'
  BY <1>4, <1>5, <1>6, <1>7, <1>8, <1>9, <1>10, <1>14 DEF WorkerStep, RecordStep, OutcomeIgnored, alertVars
<1>. QED  BY <1>1, <1>2, <1>11, <1>12, <1>13, <1>14 DEF Next

(* The alert hears of every settled delivery: the named exceptions are the *)
(* only ways an outcome is lost (record_delivery_outcome and _process of   *)
(* the worker).                                                            *)
THEOREM SettledDeliveriesAreReported == Spec => []OutcomesReachTheAlert
<1>1. Init => ReportInv
  BY Constants, KeyType
     DEF Init, DeliveryInit, ReportInv, ReportFits, Keyed, Covered, AbsentRow, AbsentNote, Settled
<1>2. ReportInv => OutcomesReachTheAlert
  BY DEF ReportInv, OutcomesReachTheAlert, Reporting
<1>. QED  BY <1>1, <1>2, SoundAlways, ReportStep, PTL DEF Spec
===============================================================================
