-------------------------- MODULE ScheduledTrigger --------------------------
(***************************************************************************)
(* One scheduled trigger, its persistent schedule row, the slot rows that  *)
(* make a planned time run once, and the scheduler processes that poll the *)
(* row (services/workflow_scheduler, services/trigger/service.py).         *)
(*                                                                         *)
(* A tick takes its time once, lists the due triggers in one session and   *)
(* works on each of them in another: it leases the row, dispatches every   *)
(* selected slot in a transaction of its own, binds the executions to      *)
(* their slots, and only then moves next_run_at and gives the lease back.  *)
(* The trigger's configuration and the workflow's published version are    *)
(* the copies the listing read; next_run_at and the misfire policy are     *)
(* those of the row the lease returned.                                    *)
(* A trigger may belong to a workflow that has no published version, whose *)
(* schedule is due and never listed, or whose published version is older   *)
(* than the definition contract, which every dispatch refuses.             *)
(* Times are whole numbers from the creation of the schedule at time 0.    *)
(***************************************************************************)
EXTENDS Naturals, Sequences, FiniteSets

CONSTANTS
  Owners,        \* scheduler processes: a restarted one has a new owner name
  None,          \* no lease owner
  Intervals,     \* the interval_seconds a trigger may be given
  CatchUpLimit,  \* catch_up_limit of the configuration
  LeaseSeconds,  \* lease_seconds of the scheduler
  Epoch,         \* the time of the creation, in the units of the slot numbers
  MaxTime,       \* bound on the clock
  MaxEdits,      \* bound on the updates of the trigger
  LastVersion,   \* bound on the versions of the workflow that are published
  MaxFaults      \* bound on the ticks that fail and the schedulers that die

ASSUME ScheduleAssumption ==
  /\ None \notin Owners
  /\ Intervals \subseteq Nat \ {0} /\ Intervals # {}
  /\ CatchUpLimit \in Nat \ {0} /\ LeaseSeconds \in Nat \ {0}
  /\ Epoch \in Nat /\ MaxTime \in Nat
  /\ MaxEdits \in Nat /\ LastVersion \in Nat /\ MaxFaults \in Nat

VARIABLES
  trigger,     \* status, interval and policy of the trigger and its schedule row
  published,   \* the published version of the trigger's workflow
  schedule,    \* next_run_at and the lease of the schedule row
  slots,       \* the slot keys that have a row
  bound,       \* the slot keys whose row names an execution
  executions,  \* the executions of the trigger: identity, idempotency key, planned
               \* time, and the tick's interval
  tick,        \* what each scheduler has read and has still to do
  clock,       \* the time
  edits, faults

vars == <<trigger, published, schedule, slots, bound, executions, tick, clock, edits, faults>>
rows == <<trigger, published, schedule, slots, bound, executions>>
counts == <<edits, faults>>

Policies == {"skip", "fire_once", "catch_up"}
Statuses == {"enabled", "disabled", "deleted"}

\* Published versions are numbered in their order. There may be none; the first
\* may be one that the present definition contract refuses; publish accepts only
\* executable ones.
NoVersion == 0
LegacyVersion == 1
Executable(version) == version > LegacyVersion

\* No tick under way.
Idle == [pc |-> "idle", now |-> 0, interval |-> 0, version |-> NoVersion, planned |-> 0,
         policy |-> "skip", due |-> <<>>, left |-> <<>>, binds |-> {}]

\* The rows of the three tables; a slot row is its key, bound or not.
TriggerRows == [status : Statuses, interval : Intervals, policy : Policies]
ScheduleRows == [next : Nat, owner : Owners \cup {None}, expires : Nat]
SlotRows == Nat

SmallerOf(a, b) == IF a <= b THEN a ELSE b

----------------------------------------------------------------------------
(* The pure rules: slots, misfire and the next time.                       *)

\* The number of the interval a planned time falls in names its slot.
SlotKey(planned, interval) == (Epoch + planned) \div interval

\* The planned times from next_run_at up to now, two more than the limit.
DueSlots(next, now, interval) ==
  IF next > now THEN <<>>
  ELSE [k \in 1 .. SmallerOf(CatchUpLimit + 2, (now - next) \div interval + 1)
          |-> next + (k - 1) * interval]

\* Which of several due slots the policy runs.
ChooseMisfireSlots(due, policy) ==
  IF due = <<>> \/ policy = "skip" THEN <<>>
  ELSE IF policy = "fire_once" THEN <<due[1]>>
  ELSE SubSeq(due, 1, SmallerOf(CatchUpLimit, Len(due)))

\* A slot that is due alone is no misfire.
Selected(due, policy) ==
  IF Len(due) = 1 THEN due ELSE ChooseMisfireSlots(due, policy)

\* Mutant: every policy goes on from the present.
NextRunAfterMisfire_FromNow(selected, policy, now, interval) == now + interval

NextRunAfterMisfire(selected, policy, now, interval) ==
  IF policy \in {"skip", "fire_once"} \/ selected = <<>> THEN now + interval
  ELSE selected[Len(selected)] + interval

\* Where a tick moves next_run_at.
NextRun(t) ==
  IF Len(t.due) > 1
  THEN NextRunAfterMisfire(Selected(t.due, t.policy), t.policy, t.now, t.interval)
  ELSE t.planned + t.interval

----------------------------------------------------------------------------
(* The tick of one scheduler.                                              *)

Enabled == trigger.status = "enabled"

\* The listing: the time, the configuration and the published version every later
\* step uses. A workflow without a published version is not listed.
ListDue(o) ==
  /\ tick[o].pc = "idle"
  /\ Enabled /\ published # NoVersion /\ schedule.next <= clock
  /\ tick' = [tick EXCEPT ![o] =
       [Idle EXCEPT !.pc = "listed", !.now = clock, !.interval = trigger.interval,
                    !.version = published]]
  /\ UNCHANGED <<rows, clock, counts>>

\* Mutant: only a released lease can be taken.
Leasable_NeverLapses(o) ==
  /\ Enabled /\ schedule.next <= tick[o].now
  /\ schedule.owner = None

\* The lease is free, or has lapsed at the tick's time.
Leasable(o) ==
  /\ Enabled /\ schedule.next <= tick[o].now
  /\ schedule.owner = None \/ schedule.expires <= tick[o].now

\* claim_due_lease: one conditional UPDATE, committed at once.
ClaimLease(o) ==
  /\ tick[o].pc = "listed" /\ Leasable(o)
  /\ schedule' = [schedule EXCEPT !.owner = o, !.expires = tick[o].now + LeaseSeconds]
  /\ LET due == DueSlots(schedule.next, tick[o].now, tick[o].interval)
     IN  tick' = [tick EXCEPT ![o] =
           [@ EXCEPT !.pc = "slots", !.planned = schedule.next,
                     !.policy = trigger.policy, !.due = due,
                     !.left = Selected(due, trigger.policy)]]
  /\ UNCHANGED <<trigger, published, slots, bound, executions, clock, counts>>

\* Another scheduler has the lease or has moved the schedule on.
LoseClaim(o) ==
  /\ tick[o].pc = "listed" /\ ~Leasable(o)
  /\ tick' = [tick EXCEPT ![o] = Idle]
  /\ UNCHANGED <<rows, clock, counts>>

NextSlot(o) == SlotKey(Head(tick[o].left), tick[o].interval)
AtSlot(o) == tick[o].pc = "slots" /\ tick[o].left # <<>>

\* invoke_scheduled wants the listed version published still, and executable.
Accepted(o) == tick[o].version = published /\ Executable(published)

\* Mutant: a slot is known to have run only by its bound row.
DispatchSlot_UnlessBound(o) ==
  /\ AtSlot(o) /\ trigger.status # "deleted" /\ Accepted(o)
  /\ NextSlot(o) \notin bound
  /\ slots' = slots \cup {NextSlot(o)}
  /\ executions' = executions \cup
       {[id |-> Cardinality(executions), key |-> NextSlot(o),
         planned |-> Head(tick[o].left), interval |-> tick[o].interval]}
  /\ bound' = bound \cup (tick[o].binds \cap slots)
  /\ tick' = [tick EXCEPT ![o].left = Tail(@), ![o].binds = {NextSlot(o)}]
  /\ UNCHANGED <<trigger, published, schedule, clock, counts>>

\* A new slot: its row, the execution and its frontier are committed together,
\* and with them the bindings the tick has written since its last commit.
DispatchSlot(o) ==
  /\ AtSlot(o) /\ trigger.status # "deleted" /\ Accepted(o)
  /\ NextSlot(o) \notin {e.key : e \in executions}
  /\ slots' = slots \cup {NextSlot(o)}
  /\ executions' = executions \cup
       {[id |-> Cardinality(executions), key |-> NextSlot(o),
         planned |-> Head(tick[o].left),
         interval |-> tick[o].interval]}
  /\ bound' = bound \cup (tick[o].binds \cap slots)
  /\ tick' = [tick EXCEPT ![o].left = Tail(@), ![o].binds = {NextSlot(o)}]
  /\ UNCHANGED <<trigger, published, schedule, clock, counts>>

\* The slot has run: an unbound row is given its execution, a bound one is left.
SkipSlot(o) ==
  /\ AtSlot(o) /\ trigger.status # "deleted"
  /\ NextSlot(o) \in {e.key : e \in executions}
  /\ NextSlot(o) \in bound \/ Accepted(o)
  /\ tick' = [tick EXCEPT ![o].left = Tail(@),
                          ![o].binds = @ \cup ({NextSlot(o)} \ bound)]
  /\ UNCHANGED <<rows, clock, counts>>

\* The commit after the last slot.
CommitSlots(o) ==
  /\ tick[o].pc = "slots" /\ tick[o].left = <<>>
  /\ bound' = bound \cup (tick[o].binds \cap slots)
  /\ tick' = [tick EXCEPT ![o] = [@ EXCEPT !.pc = "advance", !.binds = {}]]
  /\ UNCHANGED <<trigger, published, schedule, slots, executions, clock, counts>>

\* Mutant: whoever has run the slots moves the schedule.
HoldsLease_Anyone(o) == trigger.status # "deleted"

\* The row is still there and still leased to this scheduler.
HoldsLease(o) == trigger.status # "deleted" /\ schedule.owner = o

\* advance_schedule: moves next_run_at and gives the lease back.
AdvanceSchedule(o) ==
  /\ tick[o].pc = "advance"
  /\ IF HoldsLease(o)
     THEN schedule' = [next |-> NextRun(tick[o]), owner |-> None, expires |-> 0]
     ELSE UNCHANGED schedule
  /\ tick' = [tick EXCEPT ![o] = Idle]
  /\ UNCHANGED <<trigger, published, slots, bound, executions, clock, counts>>

\* release_lease of the exception handler.
Released(o) ==
  IF HoldsLease(o) THEN [schedule EXCEPT !.owner = None, !.expires = 0] ELSE schedule

Working(o) == tick[o].pc \in {"slots", "advance"}

\* A refused slot is an exception like any other: it gives the lease back, and the
\* next tick starts again from the same next_run_at.
RefuseSlot(o) ==
  /\ AtSlot(o) /\ trigger.status # "deleted"
  /\ NextSlot(o) \notin bound /\ ~Accepted(o)
  /\ schedule' = Released(o)
  /\ tick' = [tick EXCEPT ![o] = Idle]
  /\ UNCHANGED <<trigger, published, slots, bound, executions, clock, counts>>

\* An exception rolls the open transaction back and ends the tick.
FailTick(o) ==
  /\ Working(o) /\ faults < MaxFaults
  /\ schedule' = Released(o)
  /\ tick' = [tick EXCEPT ![o] = Idle]
  /\ faults' = faults + 1
  /\ UNCHANGED <<trigger, published, slots, bound, executions, clock, edits>>

\* The handler's own transaction fails as well: the lease has to lapse, which
\* the bound on the clock must leave time for.
FailTickKeepingLease(o) ==
  /\ Working(o) /\ faults < MaxFaults /\ schedule.expires <= MaxTime
  /\ tick' = [tick EXCEPT ![o] = Idle]
  /\ faults' = faults + 1
  /\ UNCHANGED <<rows, clock, edits>>

\* The slot row of a deleted trigger violates its foreign key.
SlotOfDeletedTrigger(o) ==
  /\ AtSlot(o) /\ trigger.status = "deleted"
  /\ tick' = [tick EXCEPT ![o] = Idle]
  /\ UNCHANGED <<rows, clock, counts>>

\* A scheduler dies; another one goes on.
Crash(o) ==
  /\ faults < MaxFaults
  /\ tick[o].pc # "dead"
  /\ \E p \in Owners \ {o} : tick[p].pc # "dead"
  /\ schedule.owner = o => schedule.expires <= MaxTime
  /\ tick' = [tick EXCEPT ![o] = [Idle EXCEPT !.pc = "dead"]]
  /\ faults' = faults + 1
  /\ UNCHANGED <<rows, clock, edits>>

----------------------------------------------------------------------------
(* The trigger's administration, and time.                                 *)

\* WorkflowTriggerService.update of the status: next_run_at and a lease stay.
SetStatus ==
  /\ edits < MaxEdits /\ trigger.status # "deleted"
  /\ trigger' = [trigger EXCEPT !.status =
       IF @ = "enabled" THEN "disabled" ELSE "enabled"]
  /\ edits' = edits + 1
  /\ UNCHANGED <<published, schedule, slots, bound, executions, tick, clock, faults>>

\* WorkflowTriggerService.update of the configuration.
Reconfigure(interval, policy) ==
  /\ edits < MaxEdits /\ trigger.status # "deleted"
  /\ <<interval, policy>> # <<trigger.interval, trigger.policy>>
  /\ trigger' = [trigger EXCEPT !.interval = interval, !.policy = policy]
  /\ edits' = edits + 1
  /\ UNCHANGED <<published, schedule, slots, bound, executions, tick, clock, faults>>

\* Deleting the trigger takes its schedule and its slots along, not its
\* executions.
Delete ==
  /\ edits < MaxEdits /\ trigger.status # "deleted"
  /\ trigger' = [trigger EXCEPT !.status = "deleted"]
  /\ schedule' = [schedule EXCEPT !.owner = None, !.expires = 0]
  /\ slots' = {} /\ bound' = {}
  /\ edits' = edits + 1
  /\ UNCHANGED <<published, executions, tick, clock, faults>>

\* WorkflowRegistry.publish: a new version takes the place of the published one. An
\* executable version is published from then on: two publications that overlap and
\* leave a deprecated version named are the subject of WorkflowRegistry.
Publish ==
  /\ published < LastVersion
  /\ published' = IF Executable(published) THEN published + 1 ELSE LegacyVersion + 1
  /\ UNCHANGED <<trigger, schedule, slots, bound, executions, tick, clock, counts>>

PassTime ==
  /\ clock < MaxTime
  /\ clock' = clock + 1
  /\ UNCHANGED <<rows, tick, counts>>

\* A created trigger is enabled and due at once, whatever its workflow's state.
Init ==
  /\ trigger \in [status : {"enabled"}, interval : Intervals, policy : Policies]
  /\ published \in {NoVersion, LegacyVersion, LegacyVersion + 1}
  /\ schedule = [next |-> 0, owner |-> None, expires |-> 0]
  /\ slots = {} /\ bound = {} /\ executions = {}
  /\ tick = [o \in Owners |-> Idle]
  /\ clock = 0
  /\ edits = 0 /\ faults = 0

TickStep(o) ==
  \/ ListDue(o) \/ ClaimLease(o) \/ LoseClaim(o)
  \/ DispatchSlot(o) \/ SkipSlot(o) \/ CommitSlots(o) \/ AdvanceSchedule(o)
  \/ SlotOfDeletedTrigger(o) \/ RefuseSlot(o)

Next ==
  \/ \E o \in Owners :
       TickStep(o) \/ FailTick(o) \/ FailTickKeepingLease(o) \/ Crash(o)
  \/ SetStatus \/ Delete \/ Publish
  \/ \E i \in Intervals, p \in Policies : Reconfigure(i, p)
  \/ PassTime

Spec == Init /\ [][Next]_vars

\* Every live scheduler polls for ever and a tick goes on; time passes.
Fairness == WF_vars(PassTime) /\ \A o \in Owners : WF_vars(TickStep(o))

FairSpec == Spec /\ Fairness

----------------------------------------------------------------------------
(* Properties.                                                             *)

\* Every variable has its type; a slot row is bound only if it exists.
TypeOK ==
  /\ trigger \in TriggerRows
  /\ published \in Nat
  /\ schedule \in ScheduleRows
  /\ slots \subseteq SlotRows /\ bound \subseteq slots
  /\ executions \subseteq [id : Nat, key : Nat, planned : Nat, interval : Intervals]
  /\ tick \in [Owners -> [pc : {"idle", "listed", "slots", "advance", "dead"},
                          now : Nat, interval : Intervals \cup {0}, version : Nat, planned : Nat,
                          policy : Policies, due : Seq(Nat), left : Seq(Nat),
                          binds : SUBSET Nat]]
  /\ clock \in 0 .. MaxTime
  /\ edits \in 0 .. MaxEdits /\ faults \in 0 .. MaxFaults

\* However often leases lapse, ticks fail and schedulers die, one slot gives one
\* execution: two executions of the same interval setting have two keys and two
\* planned times.
SlotsRunOnce ==
  \A d, e \in executions :
    (d.key = e.key \/ (d.planned = e.planned /\ d.interval = e.interval)) => d = e

\* Under catch_up the schedule never moves past a planned time that has not been
\* dispatched.
CatchUpLeavesNoGap ==
  edits = 0 /\ trigger.policy = "catch_up" =>
    \A t \in 0 .. MaxTime :
      t < schedule.next /\ t % trigger.interval = 0 =>
        \E e \in executions : e.planned = t

\* next_run_at is only ever moved by a tick that was computed from its present
\* value, and by at least that tick's interval.
AdvancesFromTheRow ==
  [][schedule'.next # schedule.next =>
       \E o \in Owners : /\ tick[o].planned = schedule.next
                         /\ schedule'.next >= schedule.next + tick[o].interval]_vars

\* A due schedule is moved into the future, disabled or deleted in the end, whatever
\* leases lapse, ticks fail or are overtaken by a publication, if its workflow has
\* an executable published version. Without one it is due for ever: never listed, or
\* claimed and refused by every tick.
DueSchedulesAdvance ==
  (Enabled /\ Executable(published) /\ schedule.next <= clock)
    ~> (~Enabled \/ schedule.next > clock)
=============================================================================
