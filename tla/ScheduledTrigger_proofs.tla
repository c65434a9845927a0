----------------------- MODULE ScheduledTrigger_proofs -----------------------
(***************************************************************************)
(* Proofs about ScheduledTrigger for any number of schedulers, any set of  *)
(* intervals, limits and bounds, and any mix of lapsed leases, failed      *)
(* ticks, crashes and edits.                                               *)
(***************************************************************************)
EXTENDS ScheduledTrigger, SequenceTheorems, FiniteSetTheorems, TLAPS

-----------------------------------------------------------------------------
(* One execution for each slot. *)

\* An execution's key is the slot of its planned time under its tick's interval.
KeysNameSlots == \A e \in executions : e.key = SlotKey(e.planned, e.interval)

KeysAreUnique == \A d, e \in executions : d.key = e.key => d = e

SlotInv == KeysNameSlots /\ KeysAreUnique

(* Only a dispatch adds an execution, and only for a key that has none.    *)
LEMMA SlotStep == SlotInv /\ [Next]_vars => SlotInv'
<1>. SUFFICES ASSUME SlotInv, [Next]_vars PROVE SlotInv'
  OBVIOUS
<1>. USE DEF SlotInv, KeysNameSlots, KeysAreUnique
<1>1. ASSUME NEW o \in Owners, DispatchSlot(o) PROVE SlotInv'
  <2>. DEFINE new == [id |-> Cardinality(executions), key |-> NextSlot(o),
                      planned |-> Head(tick[o].left), interval |-> tick[o].interval]
  <2>1. executions' = executions \cup {new} /\ \A e \in executions : e.key # new.key
    BY <1>1 DEF DispatchSlot
  <2>2. new.key = SlotKey(new.planned, new.interval)
    BY DEF NextSlot
  <2>. QED  BY <2>1, <2>2
<1>2. ASSUME NEW o \in Owners, TickStep(o), ~DispatchSlot(o) PROVE SlotInv'
  BY <1>2 DEF TickStep, ListDue, ClaimLease, LoseClaim, SkipSlot, CommitSlots, AdvanceSchedule,
              SlotOfDeletedTrigger, RefuseSlot, rows
<1>3. ASSUME NEW o \in Owners, FailTick(o) \/ FailTickKeepingLease(o) \/ Crash(o) PROVE SlotInv'
  BY <1>3 DEF FailTick, FailTickKeepingLease, Crash, rows
<1>4. CASE SetStatus \/ Delete \/ Publish \/ PassTime \/ UNCHANGED vars
  BY <1>4 DEF SetStatus, Delete, Publish, PassTime, vars, rows
<1>5. ASSUME NEW i \in Intervals, NEW p \in Policies, Reconfigure(i, p) PROVE SlotInv'
  BY <1>5 DEF Reconfigure
<1>. QED  BY <1>1, <1>2, <1>3, <1>4, <1>5 DEF Next

(* A slot gives one execution, however often leases lapse, ticks fail and  *)
(* schedulers die (the slot row and the execution of                       *)
(* dispatch_scheduled_slot share a transaction).                           *)
THEOREM SlotsNeverRunTwice == Spec => []SlotsRunOnce
<1>1. Init => SlotInv
  BY DEF Init, SlotInv, KeysNameSlots, KeysAreUnique
<1>2. SlotInv => SlotsRunOnce
  BY DEF SlotInv, KeysNameSlots, KeysAreUnique, SlotsRunOnce
<1>. QED  BY <1>1, <1>2, SlotStep, PTL DEF Spec

-----------------------------------------------------------------------------
(* Types. *)

Ticks == [pc : {"idle", "listed", "slots", "advance", "dead"},
          now : Nat, interval : Intervals \cup {0}, version : Nat, planned : Nat,
          policy : Policies, due : Seq(Nat), left : Seq(Nat), binds : SUBSET Nat]

\* A tick under way has read a trigger's interval, and its due slots follow the
\* planned time it claimed.
TickRead(t) == t.pc \in {"listed", "slots", "advance"} => t.interval \in Intervals
TickDue(t) == t.pc \in {"slots", "advance"} =>
                 /\ t.planned <= t.now
                 /\ \A k \in DOMAIN t.due : t.due[k] >= t.planned

TickInv == TypeOK /\ IsFiniteSet(executions) /\ \A o \in Owners : TickRead(tick[o]) /\ TickDue(tick[o])

(* The smaller of two numbers. *)
LEMMA SmallerType == ASSUME NEW a \in Nat, NEW b \in Nat
                     PROVE  SmallerOf(a, b) \in Nat /\ SmallerOf(a, b) <= a /\ SmallerOf(a, b) <= b
BY DEF SmallerOf

(* Slots are numbered by naturals. *)
LEMMA SlotKeyType == ASSUME NEW planned \in Nat, NEW interval \in Intervals
                     PROVE  SlotKey(planned, interval) \in Nat
BY ScheduleAssumption DEF SlotKey

(* The due slots of a row that is due begin with its own planned time and  *)
(* never precede it.                                                       *)
LEMMA DueSlotsType ==
    ASSUME NEW next \in Nat, NEW now \in Nat, NEW interval \in Intervals
    PROVE  /\ DueSlots(next, now, interval) \in Seq(Nat)
           /\ \A k \in DOMAIN DueSlots(next, now, interval) : DueSlots(next, now, interval)[k] >= next
<1>1. CASE next > now
  BY <1>1 DEF DueSlots
<1>2. CASE ~(next > now)
  <2>. DEFINE n == SmallerOf(CatchUpLimit + 2, (now - next) \div interval + 1)
              slot(k) == next + (k - 1) * interval
  <2>1. n \in Nat
    <3>1. (now - next) \div interval \in Nat
      BY <1>2, ScheduleAssumption
    <3>. QED  BY <3>1, SmallerType, ScheduleAssumption
  <2>2. \A k \in 1 .. n : slot(k) \in Nat /\ slot(k) >= next
    <3>. SUFFICES ASSUME NEW k \in 1 .. n PROVE slot(k) \in Nat /\ slot(k) >= next
      OBVIOUS
    <3>1. k - 1 \in Nat /\ interval \in Nat
      BY <2>1, ScheduleAssumption
    <3>2. (k - 1) * interval \in Nat
      BY <3>1
    <3>. QED  BY <3>2
  <2>3. DueSlots(next, now, interval) = [k \in 1 .. n |-> slot(k)]
    BY <1>2 DEF DueSlots
  <2>. HIDE DEF n, slot
  <2>4. [k \in 1 .. n |-> slot(k)] \in Seq(Nat)
    BY <2>1, <2>2
  <2>. QED  BY <2>1, <2>2, <2>3, <2>4
<1>. QED  BY <1>1, <1>2

(* What a policy selects is a sequence of due slots. *)
LEMMA SelectedType ==
    ASSUME NEW due \in Seq(Nat), NEW policy \in Policies
    PROVE  /\ Selected(due, policy) \in Seq(Nat)
           /\ \A k \in DOMAIN Selected(due, policy) :
                 \E j \in DOMAIN due : Selected(due, policy)[k] = due[j]
<1>. DEFINE sel == Selected(due, policy)
            n == SmallerOf(CatchUpLimit, Len(due))
<1>1. sel = <<>> \/ sel = due \/ (due # <<>> /\ sel = <<due[1]>>) \/ (due # <<>> /\ sel = SubSeq(due, 1, n))
  BY DEF Selected, ChooseMisfireSlots
<1>2. Len(due) \in Nat /\ n \in Nat /\ n <= Len(due)
  <2>1. Len(due) \in Nat
    OBVIOUS
  <2>. QED  BY <2>1, SmallerType, ScheduleAssumption
<1>. HIDE DEF sel, n
<1>3. CASE sel = <<>>
  BY <1>3 DEF sel
<1>4. CASE sel = due
  BY <1>4 DEF sel
<1>5. CASE due # <<>> /\ sel = <<due[1]>>
  <2>1. 1 \in DOMAIN due /\ due[1] \in Nat
    BY <1>5
  <2>2. DOMAIN sel = {1} /\ sel[1] = due[1] /\ sel \in Seq(Nat)
    BY <1>5, <2>1
  <2>. QED  BY <2>1, <2>2 DEF sel
<1>6. CASE due # <<>> /\ sel = SubSeq(due, 1, n)
  <2>1. sel \in Seq(Nat) /\ DOMAIN sel = 1 .. n /\ \A k \in 1 .. n : sel[k] = due[k]
    BY <1>2, <1>6
  <2>2. 1 .. n \subseteq DOMAIN due
    BY <1>2
  <2>. QED  BY <2>1, <2>2 DEF sel
<1>. QED  BY <1>1, <1>3, <1>4, <1>5, <1>6

(* A tick moves the schedule by at least its interval. *)
LEMMA NextRunType ==
    ASSUME NEW t \in Ticks, TickRead(t), TickDue(t), t.pc = "advance"
    PROVE  NextRun(t) \in Nat /\ NextRun(t) >= t.planned + t.interval
<1>. DEFINE sel == Selected(t.due, t.policy)
<1>1. /\ t.interval \in Nat /\ t.now \in Nat /\ t.planned \in Nat /\ t.planned <= t.now
      /\ t.due \in Seq(Nat) /\ t.policy \in Policies
  BY ScheduleAssumption DEF Ticks, TickRead, TickDue
<1>2. ASSUME sel # <<>> PROVE sel[Len(sel)] \in Nat /\ sel[Len(sel)] >= t.planned
  <2>1. sel \in Seq(Nat) /\ \A k \in DOMAIN sel : \E j \in DOMAIN t.due : sel[k] = t.due[j]
    BY <1>1, SelectedType
  <2>. HIDE DEF sel
  <2>2. Len(sel) \in DOMAIN sel
    BY <1>2, <2>1
  <2>3. PICK j \in DOMAIN t.due : sel[Len(sel)] = t.due[j]
    BY <2>1, <2>2
  <2>. QED  BY <2>1, <2>2, <2>3 DEF TickDue
<1>. QED  BY <1>1, <1>2 DEF NextRun, NextRunAfterMisfire

(* Every step keeps the types: one case per action. *)
LEMMA TickStepInv == TickInv /\ [Next]_vars => TickInv'
<1>. SUFFICES ASSUME TickInv, [Next]_vars PROVE TickInv'
  OBVIOUS
<1>. USE DEF TickInv
<1>a. tick \in [Owners -> Ticks]
  BY DEF TypeOK, Ticks
<1>b. Idle \in Ticks /\ TickRead(Idle) /\ TickDue(Idle)
  BY DEF Idle, NoVersion, Ticks, TickRead, TickDue, Policies
<1>c. ASSUME NEW o \in Owners, NEW t \in Ticks, tick' = [tick EXCEPT ![o] = t], TickRead(t), TickDue(t)
      PROVE  tick' \in [Owners -> Ticks] /\ \A p \in Owners : TickRead(tick'[p]) /\ TickDue(tick'[p])
  BY <1>a, <1>c
<1>d. ASSUME tick' \in [Owners -> Ticks] /\ \A p \in Owners : TickRead(tick'[p]) /\ TickDue(tick'[p]),
             trigger' \in TriggerRows, published' \in Nat, schedule' \in ScheduleRows,
             slots' \subseteq SlotRows, bound' \subseteq slots',
             executions' \subseteq [id : Nat, key : Nat, planned : Nat, interval : Intervals],
             IsFiniteSet(executions'),
             clock' \in 0 .. MaxTime, edits' \in 0 .. MaxEdits, faults' \in 0 .. MaxFaults
      PROVE  TickInv'
  BY <1>d DEF TypeOK, Ticks
<1>e. UNCHANGED rows => /\ trigger' \in TriggerRows /\ published' \in Nat /\ schedule' \in ScheduleRows
                        /\ slots' \subseteq SlotRows /\ bound' \subseteq slots'
                        /\ executions' \subseteq [id : Nat, key : Nat, planned : Nat, interval : Intervals]
                        /\ IsFiniteSet(executions')
  BY DEF rows, TypeOK
<1>f. UNCHANGED <<clock, counts>> => clock' \in 0 .. MaxTime /\ edits' \in 0 .. MaxEdits /\ faults' \in 0 .. MaxFaults
  BY DEF counts, TypeOK
<1>g. trigger \in TriggerRows /\ published \in Nat /\ schedule \in ScheduleRows /\ clock \in Nat /\ edits \in Nat /\ faults \in Nat
  BY ScheduleAssumption DEF TypeOK
<1>1. ASSUME NEW o \in Owners, ListDue(o) PROVE TickInv'
  <2>. DEFINE t == [Idle EXCEPT !.pc = "listed", !.now = clock, !.interval = trigger.interval,
                             !.version = published]
  <2>1. t \in Ticks /\ TickRead(t) /\ TickDue(t)
    BY <1>b, <1>g, ScheduleAssumption DEF TriggerRows, Idle, NoVersion, Ticks, TickRead, TickDue, Policies
  <2>. QED  BY <1>1, <1>c, <1>d, <1>e, <1>f, <2>1 DEF ListDue
<1>2. ASSUME NEW o \in Owners, ClaimLease(o) PROVE TickInv'
  <2>. DEFINE due == DueSlots(schedule.next, tick[o].now, tick[o].interval)
              t == [tick[o] EXCEPT !.pc = "slots", !.planned = schedule.next, !.policy = trigger.policy,
                                   !.due = due, !.left = Selected(due, trigger.policy)]
  <2>1. /\ tick[o] \in Ticks /\ tick[o].interval \in Intervals /\ tick[o].now \in Nat
        /\ schedule.next \in Nat /\ schedule.next <= tick[o].now /\ trigger.policy \in Policies
    BY <1>2, <1>a DEF ClaimLease, Leasable, TypeOK, TriggerRows, ScheduleRows, TickRead, Ticks
  <2>2. /\ due \in Seq(Nat) /\ Selected(due, trigger.policy) \in Seq(Nat)
        /\ \A k \in DOMAIN due : due[k] >= schedule.next
    BY <2>1, DueSlotsType, SelectedType
  <2>. HIDE DEF due
  <2>3. t \in Ticks /\ TickRead(t) /\ TickDue(t)
    BY <2>1, <2>2 DEF Ticks, TickRead, TickDue
  <2>4. schedule' \in ScheduleRows
    <3>1. tick[o].now + LeaseSeconds \in Nat
      BY <2>1, ScheduleAssumption
    <3>. QED  BY <1>2, <1>g, <3>1 DEF ClaimLease, ScheduleRows
  <2>. QED  BY <1>2, <1>c, <1>d, <1>f, <2>3, <2>4 DEF ClaimLease, TypeOK, due
<1>3. ASSUME NEW o \in Owners, LoseClaim(o) \/ SlotOfDeletedTrigger(o) PROVE TickInv'
  BY <1>3, <1>b, <1>c, <1>d, <1>e, <1>f DEF LoseClaim, SlotOfDeletedTrigger
<1>4. ASSUME NEW o \in Owners, DispatchSlot(o) PROVE TickInv'
  <2>. DEFINE t == [tick[o] EXCEPT !.left = Tail(tick[o].left), !.binds = {NextSlot(o)}]
              new == [id |-> Cardinality(executions), key |-> NextSlot(o),
                      planned |-> Head(tick[o].left), interval |-> tick[o].interval]
  <2>1. /\ tick[o] \in Ticks /\ tick[o].interval \in Intervals /\ tick[o].pc = "slots"
        /\ tick[o].left \in Seq(Nat) /\ tick[o].left # <<>>
    BY <1>4, <1>a DEF DispatchSlot, AtSlot, TickRead, Ticks
  <2>2. Head(tick[o].left) \in Nat /\ Tail(tick[o].left) \in Seq(Nat)
    BY <2>1
  <2>3. NextSlot(o) \in Nat
    BY <2>1, <2>2, SlotKeyType DEF NextSlot
  <2>4. t \in Ticks /\ TickRead(t) /\ TickDue(t)
    BY <1>a, <2>1, <2>2, <2>3 DEF Ticks, TickRead, TickDue
  <2>5. IsFiniteSet(executions') /\ Cardinality(executions) \in Nat
    <3>1. IsFiniteSet(executions \cup {new})
      BY FS_AddElement
    <3>2. Cardinality(executions) \in Nat
      BY FS_CardinalityType
    <3>. QED  BY <1>4, <3>1, <3>2 DEF DispatchSlot
  <2>6. new \in [id : Nat, key : Nat, planned : Nat, interval : Intervals]
    BY <2>1, <2>2, <2>3, <2>5
  <2>7. slots' \subseteq SlotRows /\ bound' \subseteq slots'
    BY <1>4, <2>3 DEF DispatchSlot, TypeOK, SlotRows
  <2>8. executions' \subseteq [id : Nat, key : Nat, planned : Nat, interval : Intervals]
    BY <1>4, <2>6 DEF DispatchSlot, TypeOK
  <2>9. tick' = [tick EXCEPT ![o] = t]
    BY <1>4 DEF DispatchSlot
  <2>. HIDE DEF t, new
  <2>10. tick' \in [Owners -> Ticks] /\ \A p \in Owners : TickRead(tick'[p]) /\ TickDue(tick'[p])
    BY <1>c, <2>4, <2>9
  <2>11. UNCHANGED <<trigger, published, schedule, clock, counts>>
    BY <1>4 DEF DispatchSlot
  <2>. QED  BY <1>d, <1>f, <1>g, <2>5, <2>7, <2>8, <2>10, <2>11
<1>5. ASSUME NEW o \in Owners, SkipSlot(o) PROVE TickInv'
  <2>. DEFINE t == [tick[o] EXCEPT !.left = Tail(tick[o].left),
                                   !.binds = tick[o].binds \cup ({NextSlot(o)} \ bound)]
  <2>1. /\ tick[o] \in Ticks /\ tick[o].interval \in Intervals
        /\ tick[o].left \in Seq(Nat) /\ tick[o].left # <<>>
    BY <1>5, <1>a DEF SkipSlot, AtSlot, TickRead, Ticks
  <2>2. Head(tick[o].left) \in Nat /\ Tail(tick[o].left) \in Seq(Nat)
    BY <2>1
  <2>3. NextSlot(o) \in Nat
    BY <2>1, <2>2, SlotKeyType DEF NextSlot
  <2>4. t \in Ticks /\ TickRead(t) /\ TickDue(t)
    BY <1>a, <2>1, <2>2, <2>3 DEF Ticks, TickRead, TickDue
  <2>5. tick' = [tick EXCEPT ![o] = t]
    BY <1>5 DEF SkipSlot
  <2>. HIDE DEF t
  <2>6. tick' \in [Owners -> Ticks] /\ \A p \in Owners : TickRead(tick'[p]) /\ TickDue(tick'[p])
    BY <1>c, <2>4, <2>5
  <2>7. UNCHANGED <<rows, clock, counts>>
    BY <1>5 DEF SkipSlot
  <2>. QED  BY <1>d, <1>e, <1>f, <2>6, <2>7
<1>6. ASSUME NEW o \in Owners, CommitSlots(o) PROVE TickInv'
  <2>. DEFINE t == [tick[o] EXCEPT !.pc = "advance", !.binds = {}]
  <2>1. tick[o] \in Ticks /\ tick[o].pc = "slots" /\ TickRead(tick[o]) /\ TickDue(tick[o])
    BY <1>6, <1>a DEF CommitSlots
  <2>2. t \in Ticks /\ TickRead(t) /\ TickDue(t)
    BY <2>1 DEF Ticks, TickRead, TickDue
  <2>3. slots' \subseteq SlotRows /\ bound' \subseteq slots'
    BY <1>6 DEF CommitSlots, TypeOK
  <2>. QED  BY <1>6, <1>c, <1>d, <1>f, <1>g, <2>2, <2>3 DEF CommitSlots, TypeOK
<1>7. ASSUME NEW o \in Owners, AdvanceSchedule(o) PROVE TickInv'
  <2>1. NextRun(tick[o]) \in Nat
    BY <1>7, <1>a, NextRunType DEF AdvanceSchedule
  <2>2. schedule' \in ScheduleRows
    BY <1>7, <1>g, <2>1 DEF AdvanceSchedule, ScheduleRows
  <2>. QED  BY <1>7, <1>b, <1>c, <1>d, <1>f, <1>g, <2>2 DEF AdvanceSchedule, TypeOK
<1>15. ASSUME NEW o \in Owners, RefuseSlot(o) PROVE TickInv'
  <2>1. schedule' \in ScheduleRows
    BY <1>15, <1>g DEF RefuseSlot, Released, ScheduleRows
  <2>. QED  BY <1>15, <1>b, <1>c, <1>d, <1>f, <1>g, <2>1 DEF RefuseSlot, TypeOK
<1>8. ASSUME NEW o \in Owners, FailTick(o) PROVE TickInv'
  <2>1. schedule' \in ScheduleRows
    BY <1>8, <1>g DEF FailTick, Released, ScheduleRows
  <2>2. faults' \in 0 .. MaxFaults
    BY <1>8, ScheduleAssumption DEF FailTick, TypeOK
  <2>. QED  BY <1>8, <1>b, <1>c, <1>d, <1>g, <2>1, <2>2 DEF FailTick, TypeOK
<1>9. ASSUME NEW o \in Owners, FailTickKeepingLease(o) PROVE TickInv'
  <2>1. faults' \in 0 .. MaxFaults
    BY <1>9, ScheduleAssumption DEF FailTickKeepingLease, TypeOK
  <2>. QED  BY <1>9, <1>b, <1>c, <1>d, <1>e, <2>1 DEF FailTickKeepingLease, TypeOK
<1>10. ASSUME NEW o \in Owners, Crash(o) PROVE TickInv'
  <2>. DEFINE t == [Idle EXCEPT !.pc = "dead"]
  <2>1. t \in Ticks /\ TickRead(t) /\ TickDue(t)
    BY <1>b DEF Idle, NoVersion, Ticks, TickRead, TickDue
  <2>2. faults' \in 0 .. MaxFaults
    <3>1. faults < MaxFaults /\ faults' = faults + 1
      BY <1>10 DEF Crash
    <3>. QED  BY <1>g, <3>1, ScheduleAssumption
  <2>3. tick' = [tick EXCEPT ![o] = t]
    BY <1>10 DEF Crash
  <2>4. UNCHANGED <<rows, clock, edits>>
    BY <1>10 DEF Crash
  <2>5. clock' \in 0 .. MaxTime /\ edits' \in 0 .. MaxEdits
    BY <2>4 DEF TypeOK
  <2>. HIDE DEF t
  <2>6. tick' \in [Owners -> Ticks] /\ \A p \in Owners : TickRead(tick'[p]) /\ TickDue(tick'[p])
    BY <1>c, <2>1, <2>3
  <2>. QED  BY <1>d, <1>e, <2>2, <2>4, <2>5, <2>6
<1>h. UNCHANGED tick => /\ tick' \in [Owners -> Ticks]
                        /\ \A p \in Owners : TickRead(tick'[p]) /\ TickDue(tick'[p])
  BY <1>a
<1>11. ASSUME SetStatus \/ \E i \in Intervals, p \in Policies : Reconfigure(i, p) PROVE TickInv'
  <2>1. trigger' \in TriggerRows /\ edits' \in 0 .. MaxEdits
    <3>1. trigger' \in TriggerRows
      BY <1>11, <1>g DEF SetStatus, Reconfigure, TriggerRows, Statuses
    <3>2. edits < MaxEdits /\ edits' = edits + 1
      BY <1>11 DEF SetStatus, Reconfigure
    <3>. QED  BY <1>g, <3>1, <3>2, ScheduleAssumption
  <2>. QED  BY <1>11, <1>h, <1>d, <1>g, <2>1 DEF SetStatus, Reconfigure, TypeOK
<1>12. ASSUME Delete PROVE TickInv'
  <2>1. trigger' \in TriggerRows /\ schedule' \in ScheduleRows /\ edits' \in 0 .. MaxEdits
    <3>1. trigger' \in TriggerRows /\ schedule' \in ScheduleRows
      BY <1>12, <1>g DEF Delete, TriggerRows, ScheduleRows, Statuses
    <3>2. edits < MaxEdits /\ edits' = edits + 1
      BY <1>12 DEF Delete
    <3>. QED  BY <1>g, <3>1, <3>2, ScheduleAssumption
  <2>. QED  BY <1>12, <1>h, <1>d, <1>g, <2>1 DEF Delete, TypeOK
<1>16. ASSUME Publish PROVE TickInv'
  <2>1. published' \in Nat
    BY <1>16, <1>g DEF Publish, LegacyVersion
  <2>. QED  BY <1>16, <1>h, <1>d, <1>f, <1>g, <2>1 DEF Publish, TypeOK
<1>13. ASSUME PassTime PROVE TickInv'
  <2>1. clock' \in 0 .. MaxTime
    BY <1>13, ScheduleAssumption DEF PassTime, TypeOK
  <2>. QED  BY <1>13, <1>h, <1>d, <1>e, <2>1 DEF PassTime, TypeOK, counts
<1>14. CASE UNCHANGED vars
  BY <1>14, <1>h, <1>d, <1>e, <1>f DEF vars, rows, counts
<1>. QED
  BY <1>1, <1>2, <1>3, <1>4, <1>5, <1>6, <1>7, <1>8, <1>9, <1>10, <1>11, <1>12, <1>13, <1>14, <1>15, <1>16
  DEF Next, TickStep

(* The types. *)
LEMMA TickInit == Init => TickInv
<1>. SUFFICES ASSUME Init PROVE TickInv
  OBVIOUS
<1>1. Idle \in Ticks /\ TickRead(Idle) /\ TickDue(Idle)
  BY DEF Idle, NoVersion, Ticks, TickRead, TickDue, Policies
<1>2. IsFiniteSet({})
  BY FS_EmptySet
<1>. QED  BY <1>1, <1>2, ScheduleAssumption
          DEF Init, NoVersion, LegacyVersion, TickInv, TypeOK, TriggerRows, ScheduleRows, SlotRows, Statuses, Ticks

(* Every variable keeps its type, and only rows that exist are bound. *)
THEOREM TypeCorrect == Spec => []TypeOK
<1>1. TickInv => TypeOK
  BY DEF TickInv
<1>. QED  BY <1>1, TickInit, TickStepInv, PTL DEF Spec

-----------------------------------------------------------------------------
(* The schedule moves on from where it stands. *)

\* Whoever has the lease claimed the row as it is now.
LeaseKnowsTheRow ==
    \A o \in Owners : tick[o].pc \in {"slots", "advance"} /\ schedule.owner = o => tick[o].planned = schedule.next

(* next_run_at moves only in advance_schedule, which gives the lease up. *)
LEMMA LeaseStep == TickInv /\ LeaseKnowsTheRow /\ [Next]_vars => LeaseKnowsTheRow'
<1>. SUFFICES ASSUME TickInv, LeaseKnowsTheRow, [Next]_vars PROVE LeaseKnowsTheRow'
  OBVIOUS
<1>. USE ScheduleAssumption DEF LeaseKnowsTheRow
<1>a. tick \in [Owners -> Ticks] /\ schedule \in ScheduleRows
  BY DEF TickInv, TypeOK, Ticks
<1>1. ASSUME NEW o \in Owners, ListDue(o) \/ LoseClaim(o) \/ SlotOfDeletedTrigger(o)
                               \/ FailTickKeepingLease(o) \/ Crash(o) PROVE LeaseKnowsTheRow'
  <2>1. schedule' = schedule
    BY <1>1 DEF ListDue, LoseClaim, SlotOfDeletedTrigger, FailTickKeepingLease, Crash, rows
  <2>2. ASSUME NEW t, tick' = [tick EXCEPT ![o] = t], t.pc \in {"idle", "listed", "dead"}
        PROVE  LeaseKnowsTheRow'
    BY <1>a, <2>1, <2>2
  <2>3. CASE ListDue(o)
    BY <2>2, <2>3 DEF ListDue, Idle
  <2>4. CASE LoseClaim(o) \/ SlotOfDeletedTrigger(o) \/ FailTickKeepingLease(o) \/ Crash(o)
    BY <2>2, <2>4 DEF LoseClaim, SlotOfDeletedTrigger, FailTickKeepingLease, Crash, Idle
  <2>. QED  BY <1>1, <2>3, <2>4
<1>2. ASSUME NEW o \in Owners, ClaimLease(o) PROVE LeaseKnowsTheRow'
  BY <1>2, <1>a DEF ClaimLease, ScheduleRows, Ticks
<1>3. ASSUME NEW o \in Owners, DispatchSlot(o) \/ SkipSlot(o) \/ CommitSlots(o) PROVE LeaseKnowsTheRow'
  <2>1. schedule' = schedule /\ tick[o].pc = "slots"
    BY <1>3 DEF DispatchSlot, SkipSlot, CommitSlots, AtSlot, rows
  <2>2. ASSUME NEW t, tick' = [tick EXCEPT ![o] = t], t.planned = tick[o].planned
        PROVE  LeaseKnowsTheRow'
    BY <1>a, <2>1, <2>2
  <2>a. tick[o] \in Ticks
    BY <1>a
  <2>3. CASE DispatchSlot(o)
    <3>. DEFINE t == [tick[o] EXCEPT !.left = Tail(tick[o].left), !.binds = {NextSlot(o)}]
    <3>1. tick' = [tick EXCEPT ![o] = t]
      BY <2>3 DEF DispatchSlot
    <3>2. t.planned = tick[o].planned
      BY <2>a DEF Ticks
    <3>. HIDE DEF t
    <3>. QED  BY <2>2, <3>1, <3>2
  <2>4. CASE SkipSlot(o)
    <3>. DEFINE t == [tick[o] EXCEPT !.left = Tail(tick[o].left),
                                     !.binds = tick[o].binds \cup ({NextSlot(o)} \ bound)]
    <3>1. tick' = [tick EXCEPT ![o] = t]
      BY <2>4 DEF SkipSlot
    <3>2. t.planned = tick[o].planned
      BY <2>a DEF Ticks
    <3>. HIDE DEF t
    <3>. QED  BY <2>2, <3>1, <3>2
  <2>5. CASE CommitSlots(o)
    <3>. DEFINE t == [tick[o] EXCEPT !.pc = "advance", !.binds = {}]
    <3>1. tick' = [tick EXCEPT ![o] = t]
      BY <2>5 DEF CommitSlots
    <3>2. t.planned = tick[o].planned
      BY <2>a DEF Ticks
    <3>. HIDE DEF t
    <3>. QED  BY <2>2, <3>1, <3>2
  <2>. QED  BY <1>3, <2>3, <2>4, <2>5
<1>b. ASSUME NEW o \in Owners, tick' = [tick EXCEPT ![o] = Idle],
             schedule' = schedule \/ schedule'.owner = None
      PROVE  LeaseKnowsTheRow'
  <2>1. CASE schedule' = schedule
    BY <1>a, <1>b, <2>1 DEF Idle
  <2>2. CASE schedule'.owner = None
    BY <1>a, <1>b, <2>2 DEF Idle
  <2>. QED  BY <1>b, <2>1, <2>2
<1>4. ASSUME NEW o \in Owners, AdvanceSchedule(o) PROVE LeaseKnowsTheRow'
  <2>1. schedule' = schedule \/ schedule'.owner = None
    BY <1>4 DEF AdvanceSchedule
  <2>. QED  BY <1>4, <1>b, <2>1 DEF AdvanceSchedule
<1>5. ASSUME NEW o \in Owners, FailTick(o) \/ RefuseSlot(o) PROVE LeaseKnowsTheRow'
  <2>1. schedule' = schedule \/ schedule'.owner = None
    BY <1>5, <1>a DEF FailTick, RefuseSlot, Released, ScheduleRows
  <2>. QED  BY <1>5, <1>b, <2>1 DEF FailTick, RefuseSlot
<1>6. CASE SetStatus \/ Publish \/ PassTime \/ (\E i \in Intervals, p \in Policies : Reconfigure(i, p)) \/ UNCHANGED vars
  BY <1>6 DEF SetStatus, Publish, PassTime, Reconfigure, vars, rows
<1>7. CASE Delete
  BY <1>7, <1>a DEF Delete, ScheduleRows
<1>. QED  BY <1>1, <1>2, <1>3, <1>4, <1>5, <1>6, <1>7 DEF Next, TickStep

(* However late a tick is, it moves next_run_at only from the value it     *)
(* claimed, which still stands, and by at least its interval (the guard of *)
(* advance_schedule compares nothing but the lease's owner).               *)
THEOREM ScheduleNeverStepsBack == Spec => AdvancesFromTheRow
<1>1. Init => LeaseKnowsTheRow
  BY DEF Init, LeaseKnowsTheRow, Idle
<1>2. TickInv /\ LeaseKnowsTheRow /\ [Next]_vars =>
        [schedule'.next # schedule.next =>
           \E o \in Owners : /\ tick[o].planned = schedule.next
                             /\ schedule'.next >= schedule.next + tick[o].interval]_vars
  <2>. SUFFICES ASSUME TickInv, LeaseKnowsTheRow, Next, schedule'.next # schedule.next
                PROVE  \E o \in Owners : /\ tick[o].planned = schedule.next
                                         /\ schedule'.next >= schedule.next + tick[o].interval
    BY DEF vars
  <2>a. tick \in [Owners -> Ticks] /\ schedule \in ScheduleRows
    BY DEF TickInv, TypeOK, Ticks
  <2>1. PICK o \in Owners : AdvanceSchedule(o)
    <3>1. ASSUME NEW o \in Owners, TickStep(o), ~AdvanceSchedule(o) PROVE FALSE
      BY <2>a, <3>1 DEF TickStep, ListDue, ClaimLease, LoseClaim, DispatchSlot, SkipSlot, CommitSlots,
                        SlotOfDeletedTrigger, RefuseSlot, Released, rows, ScheduleRows
    <3>2. ASSUME NEW o \in Owners, FailTick(o) \/ FailTickKeepingLease(o) \/ Crash(o) PROVE FALSE
      BY <2>a, <3>2 DEF FailTick, FailTickKeepingLease, Crash, Released, rows, ScheduleRows
    <3>3. ASSUME SetStatus \/ Delete \/ Publish \/ PassTime \/ \E i \in Intervals, p \in Policies : Reconfigure(i, p)
          PROVE  FALSE
      BY <2>a, <3>3 DEF SetStatus, Delete, Publish, PassTime, Reconfigure, rows, ScheduleRows
    <3>. QED  BY <3>1, <3>2, <3>3 DEF Next
  <2>2. /\ tick[o] \in Ticks /\ tick[o].pc = "advance" /\ schedule.owner = o
        /\ schedule'.next = NextRun(tick[o])
    BY <2>a, <2>1 DEF AdvanceSchedule, HoldsLease
  <2>3. tick[o].planned = schedule.next
    BY <2>2 DEF LeaseKnowsTheRow
  <2>4. NextRun(tick[o]) >= tick[o].planned + tick[o].interval
    BY <2>2, NextRunType DEF TickInv
  <2>. QED  BY <2>2, <2>3, <2>4
<1>. QED  BY <1>1, <1>2, TickInit, TickStepInv, LeaseStep, PTL DEF Spec, AdvancesFromTheRow
-----------------------------------------------------------------------------
(* Catching up leaves no gap.                                              *)

\* One of the executions es ran the planned time.
Dispatched(es, time) == \E e \in es : e.planned = time

\* Every slot of the interval from one number up to another was dispatched.
SlotsDispatched(es, first, next, interval) ==
    \A k \in Nat : first <= k /\ k < next => Dispatched(es, k * interval)

\* The row stands at a slot, and every earlier one was dispatched.
RowCaughtUp(es, next, interval) ==
    \E p \in Nat : next = p * interval /\ SlotsDispatched(es, 0, p, interval)

\* Every execution ran a slot of the interval.
RanSlots(es, interval) ==
    \A e \in es : e.interval = interval /\ \E k \in Nat : e.planned = k * interval

\* A tick goes without a gap from the slot it claimed, the p-th, to the one it
\* moves the row to: those before the a-th were dispatched, the others are left.
TickCaughtUp(es, t, interval) ==
    /\ t.pc \in {"listed", "slots", "advance"} => t.interval = interval
    /\ t.pc = "advance" => t.left = <<>>
    /\ t.pc \in {"slots", "advance"} =>
         \E p, a \in Nat :
            /\ t.planned = p * interval
            /\ SlotsDispatched(es, p, a, interval)
            /\ \A k \in DOMAIN t.left : t.left[k] = (a + k - 1) * interval
            /\ NextRun(t) = (a + Len(t.left)) * interval

\* A trigger that has kept its first configuration, and catches up.
CatchesUp == edits = 0 /\ trigger.policy = "catch_up"

CatchUpInv ==
    CatchesUp =>
      /\ RowCaughtUp(executions, schedule.next, trigger.interval)
      /\ RanSlots(executions, trigger.interval)
      /\ \A o \in Owners : TickCaughtUp(executions, tick[o], trigger.interval)

(* Multiples of an interval are ordered as their factors are. *)
LEMMA MultiplesInOrder ==
    ASSUME NEW a \in Nat, NEW b \in Nat, NEW i \in Nat \ {0}
    PROVE  /\ a * i < b * i => a < b
           /\ a * i = b * i => a = b
<1>1. ASSUME NEW x \in Nat, NEW y \in Nat, x < y PROVE x * i < y * i
  <2>1. PICK d \in Nat : y = x + d /\ d > 0
    <3>1. y - x \in Nat /\ y = x + (y - x) /\ y - x > 0
      BY <1>1
    <3>. QED  BY <3>1
  <2>2. y * i = x * i + d * i
    BY <2>1
  <2>3. d * i > 0 /\ x * i \in Nat
    BY <2>1
  <2>. QED  BY <2>2, <2>3
<1>2. a * i \in Nat /\ b * i \in Nat
  OBVIOUS
<1>3. CASE a < b
  BY <1>1, <1>2, <1>3
<1>4. CASE b < a
  BY <1>1, <1>2, <1>4
<1>5. CASE a = b
  BY <1>2, <1>5
<1>. QED  BY <1>3, <1>4, <1>5

(* Two slots of one interval have two keys: the idempotency key of a slot  *)
(* tells its planned time (slot_key divides the planned time).             *)
LEMMA KeysTellSlots ==
    ASSUME NEW a \in Nat, NEW b \in Nat, NEW i \in Intervals,
           SlotKey(a * i, i) = SlotKey(b * i, i)
    PROVE  a = b
<1>1. i \in Nat \ {0} /\ Epoch \in Nat
  BY ScheduleAssumption
<1>2. ASSUME NEW x \in Nat, NEW y \in Nat, x < y, SlotKey(x * i, i) = SlotKey(y * i, i) PROVE FALSE
  <2>. DEFINE u == Epoch + x * i
              v == Epoch + y * i
  <2>1. u \in Nat /\ v \in Nat
    BY <1>1
  <2>2. v >= u + i
    <3>1. PICK d \in Nat : y = x + 1 + d
      <4>1. y - x - 1 \in Nat /\ y = x + 1 + (y - x - 1)
        BY <1>2
      <4>. QED  BY <4>1
    <3>2. y * i = x * i + i + d * i
      BY <1>1, <3>1
    <3>3. d * i \in Nat /\ x * i \in Nat
      BY <1>1
    <3>. QED  BY <1>1, <3>2, <3>3
  <2>3. u \div i = v \div i
    BY <1>2 DEF SlotKey
  <2>. HIDE DEF u, v
  <2>. QED  BY <1>1, <2>1, <2>2, <2>3
<1>. QED  BY <1>2

(* More executions take nothing back. *)
LEMMA CaughtUpStays ==
    ASSUME NEW es, NEW fs, es \subseteq fs, NEW i
    PROVE  /\ \A n : RowCaughtUp(es, n, i) => RowCaughtUp(fs, n, i)
           /\ \A t : TickCaughtUp(es, t, i) => TickCaughtUp(fs, t, i)
<1>1. \A p, a : SlotsDispatched(es, p, a, i) => SlotsDispatched(fs, p, a, i)
  BY DEF SlotsDispatched, Dispatched
<1>. QED  BY <1>1 DEF RowCaughtUp, TickCaughtUp

(* A tick that claims a row under catch_up has the claimed slot and those  *)
(* after it to run, and will move the row to the one after the last.       *)
LEMMA ClaimCatchesUp ==
    ASSUME NEW es, NEW p \in Nat, NEW i \in Intervals, NEW t \in Ticks, p * i <= t.now,
           t.pc = "slots", t.interval = i, t.planned = p * i, t.policy = "catch_up",
           t.due = DueSlots(p * i, t.now, i), t.left = Selected(t.due, "catch_up")
    PROVE  TickCaughtUp(es, t, i)
<1>. DEFINE n == SmallerOf(CatchUpLimit + 2, (t.now - p * i) \div i + 1)
            m == SmallerOf(CatchUpLimit, n)
<1>1. i \in Nat \ {0} /\ p * i \in Nat /\ t.now \in Nat
  BY ScheduleAssumption DEF Ticks
<1>2. n \in Nat \ {0} /\ m \in Nat \ {0} /\ m <= n
  <2>1. t.now - p * i \in Nat
    BY <1>1
  <2>2. (t.now - p * i) \div i \in Nat
    BY <1>1, <2>1
  <2>. QED  BY <2>2, ScheduleAssumption DEF SmallerOf
<1>3. t.due = [k \in 1 .. n |-> p * i + (k - 1) * i]
  BY <1>1 DEF DueSlots
<1>. HIDE DEF n
<1>4. t.due \in Seq(Nat) /\ Len(t.due) = n
  <2>1. t.due \in Seq(Nat)
    BY DEF Ticks
  <2>. QED  BY <1>2, <1>3, <2>1
<1>5. \A k \in 1 .. n : t.due[k] = (p + k - 1) * i
  <2>. SUFFICES ASSUME NEW k \in 1 .. n PROVE t.due[k] = (p + k - 1) * i
    OBVIOUS
  <2>1. t.due[k] = p * i + (k - 1) * i /\ k - 1 \in Nat
    BY <1>2, <1>3
  <2>. QED  BY <1>1, <2>1
<1>6. SlotsDispatched(es, p, p, i)
  BY DEF SlotsDispatched
<1>7. CASE n = 1
  <2>1. t.left = t.due
    BY <1>4, <1>7 DEF Selected
  <2>2. NextRun(t) = p * i + i
    <3>1. Len(t.due) = 1
      BY <1>4, <1>7
    <3>2. ~(Len(t.due) > 1)
      <4>1. ~(1 > 1)
        OBVIOUS
      <4>. QED  BY <3>1, <4>1
    <3>. QED  BY <3>2 DEF NextRun
  <2>3. NextRun(t) = (p + Len(t.left)) * i
    <3>1. (p + 1) * i = p * i + i
      BY <1>1
    <3>2. Len(t.left) = 1
      BY <1>4, <1>7, <2>1
    <3>. QED  BY <2>2, <3>1, <3>2
  <2>4. \A k \in DOMAIN t.left : t.left[k] = (p + k - 1) * i
    BY <1>4, <1>5, <2>1
  <2>. QED  BY <1>6, <2>3, <2>4 DEF TickCaughtUp
<1>8. CASE n # 1
  <2>. DEFINE sel == SubSeq(t.due, 1, m)
  <2>1. t.left = sel /\ Selected(t.due, t.policy) = sel
    <3>1. Len(t.due) # 1 /\ t.due # <<>>
      BY <1>2, <1>4, <1>8
    <3>2. Selected(t.due, "catch_up") = SubSeq(t.due, 1, SmallerOf(CatchUpLimit, Len(t.due)))
      BY <3>1 DEF Selected, ChooseMisfireSlots
    <3>3. SmallerOf(CatchUpLimit, Len(t.due)) = m
      BY <1>4
    <3>. QED  BY <3>2, <3>3
  <2>2. Len(sel) = m /\ DOMAIN sel = 1 .. m /\ \A k \in 1 .. m : sel[k] = t.due[k]
    BY <1>2, <1>4
  <2>. HIDE DEF sel, m
  <2>3. \A k \in 1 .. m : sel[k] = (p + k - 1) * i
    BY <1>2, <1>5, <2>2
  <2>4. sel # <<>> /\ sel[m] = (p + m - 1) * i
    BY <1>2, <2>2, <2>3
  <2>5. NextRun(t) = sel[Len(sel)] + i
    BY <1>2, <1>4, <1>8, <2>1, <2>4 DEF NextRun, NextRunAfterMisfire
  <2>6. (p + m - 1) * i + i = (p + m) * i
    <3>1. p + m - 1 \in Nat
      BY <1>2
    <3>. QED  BY <1>1, <1>2, <3>1
  <2>7. NextRun(t) = (p + Len(t.left)) * i
    BY <2>1, <2>2, <2>4, <2>5, <2>6
  <2>. QED  BY <1>6, <2>1, <2>2, <2>3, <2>7 DEF TickCaughtUp
<1>. QED  BY <1>7, <1>8

(* A tick whose next slot was dispatched, by itself or before, goes on     *)
(* with the one after it.                                                  *)
LEMMA NextSlotCatchesUp ==
    ASSUME NEW es, NEW fs, es \subseteq fs, NEW i \in Intervals, NEW t \in Ticks, TickCaughtUp(es, t, i),
           t.pc = "slots", t.left # <<>>, Dispatched(fs, Head(t.left)), NEW b
    PROVE  TickCaughtUp(fs, [t EXCEPT !.left = Tail(t.left), !.binds = b], i)
<1>. DEFINE u == [t EXCEPT !.left = Tail(t.left), !.binds = b]
<1>1. /\ u.pc = "slots" /\ u.interval = t.interval /\ u.planned = t.planned
      /\ u.left = Tail(t.left) /\ NextRun(u) = NextRun(t)
  BY DEF Ticks, NextRun
<1>2. t.left \in Seq(Nat) /\ i \in Nat
  BY ScheduleAssumption DEF Ticks
<1>3. PICK p, a \in Nat :
        /\ t.planned = p * i
        /\ SlotsDispatched(es, p, a, i)
        /\ \A k \in DOMAIN t.left : t.left[k] = (a + k - 1) * i
        /\ NextRun(t) = (a + Len(t.left)) * i
  BY DEF TickCaughtUp
<1>4. 1 \in DOMAIN t.left /\ Head(t.left) = t.left[1]
  BY <1>2
<1>5. Head(t.left) = a * i
  <2>1. t.left[1] = (a + 1 - 1) * i
    BY <1>3, <1>4
  <2>2. a + 1 - 1 = a
    OBVIOUS
  <2>. QED  BY <1>4, <2>1, <2>2
<1>6. SlotsDispatched(fs, p, a + 1, i)
  <2>. SUFFICES ASSUME NEW k \in Nat, p <= k, k < a + 1 PROVE Dispatched(fs, k * i)
    BY DEF SlotsDispatched
  <2>1. CASE k < a
    BY <1>3, <2>1 DEF SlotsDispatched, Dispatched
  <2>2. CASE k = a
    BY <1>5, <2>2
  <2>. QED  BY <2>1, <2>2
<1>7. Tail(t.left) \in Seq(Nat) /\ Len(Tail(t.left)) = Len(t.left) - 1
  BY <1>2
<1>8. \A k \in DOMAIN Tail(t.left) : Tail(t.left)[k] = (a + 1 + k - 1) * i
  <2>. SUFFICES ASSUME NEW k \in DOMAIN Tail(t.left) PROVE Tail(t.left)[k] = (a + 1 + k - 1) * i
    OBVIOUS
  <2>1. k \in Nat /\ k + 1 \in DOMAIN t.left /\ Tail(t.left)[k] = t.left[k + 1]
    BY <1>2, <1>7
  <2>2. t.left[k + 1] = (a + (k + 1) - 1) * i
    BY <1>3, <2>1
  <2>3. a + (k + 1) - 1 = a + 1 + k - 1
    BY <2>1
  <2>. QED  BY <2>1, <2>2, <2>3
<1>9. NextRun(u) = (a + 1 + Len(Tail(t.left))) * i
  <2>1. Len(t.left) \in Nat
    BY <1>2
  <2>2. \A x \in Nat : a + x = a + 1 + (x - 1)
    OBVIOUS
  <2>. QED  BY <1>1, <1>3, <1>7, <2>1, <2>2
<1>10. t.interval = i
  BY DEF TickCaughtUp
<1>. HIDE DEF u
<1>11. TickCaughtUp(fs, u, i)
  BY <1>1, <1>3, <1>6, <1>8, <1>9, <1>10 DEF TickCaughtUp
<1>. QED  BY <1>11 DEF u

(* The row a tick advances stands at the slot the tick has come to. *)
LEMMA AdvanceCatchesUp ==
    ASSUME NEW es, NEW i \in Intervals, NEW t, TickCaughtUp(es, t, i), t.pc = "advance",
           RowCaughtUp(es, t.planned, i)
    PROVE  RowCaughtUp(es, NextRun(t), i)
<1>1. PICK p, a \in Nat :
        /\ t.planned = p * i
        /\ SlotsDispatched(es, p, a, i)
        /\ NextRun(t) = (a + Len(t.left)) * i
  BY DEF TickCaughtUp
<1>2. t.left = <<>>
  BY DEF TickCaughtUp
<1>3. NextRun(t) = a * i
  BY <1>1, <1>2
<1>4. PICK q \in Nat : t.planned = q * i /\ SlotsDispatched(es, 0, q, i)
  BY DEF RowCaughtUp
<1>5. p = q
  BY <1>1, <1>4, MultiplesInOrder, ScheduleAssumption
<1>6. SlotsDispatched(es, 0, a, i)
  BY <1>1, <1>4, <1>5 DEF SlotsDispatched
<1>. QED  BY <1>3, <1>6 DEF RowCaughtUp

(* Every step keeps it: one case per action. *)
LEMMA CatchUpStep ==
    TickInv /\ SlotInv /\ LeaseKnowsTheRow /\ CatchUpInv /\ [Next]_vars => CatchUpInv'
<1>. SUFFICES ASSUME TickInv, SlotInv, LeaseKnowsTheRow, CatchUpInv, [Next]_vars, CatchesUp'
              PROVE  /\ RowCaughtUp(executions', schedule'.next, trigger'.interval)
                     /\ RanSlots(executions', trigger'.interval)
                     /\ \A o \in Owners : TickCaughtUp(executions', tick'[o], trigger'.interval)
  BY DEF CatchUpInv
<1>. DEFINE i == trigger.interval
<1>a. /\ trigger \in TriggerRows /\ schedule \in ScheduleRows /\ tick \in [Owners -> Ticks]
      /\ i \in Intervals /\ edits \in Nat
  BY ScheduleAssumption DEF TickInv, TypeOK, Ticks, TriggerRows
<1>b. ~SetStatus /\ ~Delete /\ \A j \in Intervals, p \in Policies : ~Reconfigure(j, p)
  <2>1. edits' # edits + 1
    BY <1>a DEF CatchesUp
  <2>. QED  BY <2>1 DEF SetStatus, Delete, Reconfigure
<1>c. trigger' = trigger /\ edits' = edits
  <2>1. ASSUME NEW o \in Owners, TickStep(o) PROVE trigger' = trigger /\ edits' = edits
    BY <2>1 DEF TickStep, ListDue, ClaimLease, LoseClaim, DispatchSlot, SkipSlot, CommitSlots,
                AdvanceSchedule, SlotOfDeletedTrigger, RefuseSlot, rows, counts
  <2>2. ASSUME NEW o \in Owners, FailTick(o) \/ FailTickKeepingLease(o) \/ Crash(o)
        PROVE  trigger' = trigger /\ edits' = edits
    BY <2>2 DEF FailTick, FailTickKeepingLease, Crash, rows
  <2>3. ASSUME Publish \/ PassTime \/ UNCHANGED vars PROVE trigger' = trigger /\ edits' = edits
    BY <2>3 DEF Publish, PassTime, vars, rows, counts
  <2>. QED  BY <1>b, <2>1, <2>2, <2>3 DEF Next
<1>d. trigger.policy = "catch_up" /\ CatchesUp
  BY <1>c DEF CatchesUp
<1>e. /\ RowCaughtUp(executions, schedule.next, i)
      /\ RanSlots(executions, i)
      /\ \A o \in Owners : TickCaughtUp(executions, tick[o], i)
  BY <1>d DEF CatchUpInv
<1>. HIDE DEF i
<1>. SUFFICES /\ RowCaughtUp(executions', schedule'.next, i)
              /\ RanSlots(executions', i)
              /\ \A o \in Owners : TickCaughtUp(executions', tick'[o], i)
  BY <1>c DEF i
\* A tick of one scheduler that leaves the others alone.
<1>f. ASSUME NEW o \in Owners, NEW t, tick' = [tick EXCEPT ![o] = t], TickCaughtUp(executions', t, i),
             executions \subseteq executions'
      PROVE  \A q \in Owners : TickCaughtUp(executions', tick'[q], i)
  <2>. TAKE q \in Owners
  <2>1. CASE q = o
    BY <1>a, <1>f, <2>1
  <2>2. CASE q # o
    <3>1. tick'[q] = tick[q]
      BY <1>a, <1>f, <2>2
    <3>2. TickCaughtUp(executions', tick[q], i)
      BY <1>e, <1>f, CaughtUpStays
    <3>. QED  BY <3>1, <3>2
  <2>. QED  BY <2>1, <2>2
<1>g. \A es : TickCaughtUp(es, Idle, i)
  BY DEF TickCaughtUp, Idle
\* A tick that ends, whatever becomes of the lease.
<1>h. ASSUME NEW o \in Owners, tick' = [tick EXCEPT ![o] = Idle], executions' = executions,
             schedule'.next = schedule.next
      PROVE  /\ RowCaughtUp(executions', schedule'.next, i)
             /\ RanSlots(executions', i)
             /\ \A q \in Owners : TickCaughtUp(executions', tick'[q], i)
  BY <1>e, <1>f, <1>g, <1>h
<1>1. ASSUME NEW o \in Owners, ListDue(o)
      PROVE  /\ RowCaughtUp(executions', schedule'.next, i)
             /\ RanSlots(executions', i)
             /\ \A q \in Owners : TickCaughtUp(executions', tick'[q], i)
  <2>. DEFINE t == [Idle EXCEPT !.pc = "listed", !.now = clock, !.interval = trigger.interval,
                             !.version = published]
  <2>1. tick' = [tick EXCEPT ![o] = t] /\ UNCHANGED <<schedule, executions>>
    BY <1>1 DEF ListDue, rows
  <2>2. TickCaughtUp(executions', t, i)
    BY DEF TickCaughtUp, Idle, i
  <2>. HIDE DEF t
  <2>. QED  BY <1>e, <1>f, <2>1, <2>2
<1>2. ASSUME NEW o \in Owners, ClaimLease(o)
      PROVE  /\ RowCaughtUp(executions', schedule'.next, i)
             /\ RanSlots(executions', i)
             /\ \A q \in Owners : TickCaughtUp(executions', tick'[q], i)
  <2>. DEFINE due == DueSlots(schedule.next, tick[o].now, tick[o].interval)
              t == [tick[o] EXCEPT !.pc = "slots", !.planned = schedule.next, !.policy = trigger.policy,
                                   !.due = due, !.left = Selected(due, trigger.policy)]
  <2>1. /\ tick' = [tick EXCEPT ![o] = t] /\ executions' = executions
        /\ tick[o].pc = "listed" /\ schedule.next <= tick[o].now
    BY <1>2 DEF ClaimLease, Leasable
  <2>2. schedule'.next = schedule.next
    BY <1>2, <1>a DEF ClaimLease, ScheduleRows
  <2>3. tick[o] \in Ticks /\ tick[o].interval = i /\ schedule.next \in Nat /\ tick[o].now \in Nat
    BY <1>a, <1>e, <2>1 DEF TickCaughtUp, Ticks, ScheduleRows
  <2>4. due = DueSlots(schedule.next, tick[o].now, i)
    BY <2>3
  <2>5. due \in Seq(Nat) /\ Selected(due, "catch_up") \in Seq(Nat)
    BY <1>a, <2>3, <2>4, DueSlotsType, SelectedType DEF Policies
  <2>. HIDE DEF due
  <2>6. t \in Ticks
    BY <1>d, <2>3, <2>5 DEF Ticks, Policies
  <2>7. /\ t.pc = "slots" /\ t.interval = i /\ t.planned = schedule.next /\ t.policy = "catch_up"
        /\ t.now = tick[o].now /\ t.due = due /\ t.left = Selected(due, "catch_up")
    BY <1>d, <2>3 DEF Ticks
  <2>. HIDE DEF t
  <2>8. PICK p \in Nat : schedule.next = p * i
    BY <1>e DEF RowCaughtUp
  <2>9. TickCaughtUp(executions', t, i)
    BY <1>a, <2>1, <2>4, <2>6, <2>7, <2>8, ClaimCatchesUp
  <2>. QED  BY <1>e, <1>f, <2>1, <2>2, <2>9
<1>3. ASSUME NEW o \in Owners, LoseClaim(o) \/ SlotOfDeletedTrigger(o) \/ FailTickKeepingLease(o)
      PROVE  /\ RowCaughtUp(executions', schedule'.next, i)
             /\ RanSlots(executions', i)
             /\ \A q \in Owners : TickCaughtUp(executions', tick'[q], i)
  BY <1>3, <1>h DEF LoseClaim, SlotOfDeletedTrigger, FailTickKeepingLease, rows
<1>4. ASSUME NEW o \in Owners, DispatchSlot(o)
      PROVE  /\ RowCaughtUp(executions', schedule'.next, i)
             /\ RanSlots(executions', i)
             /\ \A q \in Owners : TickCaughtUp(executions', tick'[q], i)
  <2>. DEFINE t == [tick[o] EXCEPT !.left = Tail(tick[o].left), !.binds = {NextSlot(o)}]
              new == [id |-> Cardinality(executions), key |-> NextSlot(o),
                      planned |-> Head(tick[o].left), interval |-> tick[o].interval]
  <2>1. /\ executions' = executions \cup {new} /\ schedule' = schedule
        /\ tick[o].pc = "slots" /\ tick[o].left # <<>> /\ tick' = [tick EXCEPT ![o] = t]
    BY <1>4 DEF DispatchSlot, AtSlot
  <2>2. tick[o] \in Ticks /\ TickCaughtUp(executions, tick[o], i)
    BY <1>a, <1>e
  <2>3. new.planned = Head(tick[o].left) /\ new.interval = i
    BY <2>1, <2>2 DEF TickCaughtUp
  <2>4. executions \subseteq executions' /\ Dispatched(executions', Head(tick[o].left))
    BY <2>1, <2>3 DEF Dispatched
  <2>5. TickCaughtUp(executions', t, i)
    BY <1>a, <2>1, <2>2, <2>4, NextSlotCatchesUp
  <2>. HIDE DEF t, new
  <2>6. \E k \in Nat : new.planned = k * i
    <3>1. PICK p, a \in Nat : \A k \in DOMAIN tick[o].left : tick[o].left[k] = (a + k - 1) * i
      BY <2>1, <2>2 DEF TickCaughtUp
    <3>2. 1 \in DOMAIN tick[o].left /\ Head(tick[o].left) = tick[o].left[1]
      <4>1. tick[o].left \in Seq(Nat)
        BY <2>2 DEF Ticks
      <4>. QED  BY <2>1, <4>1
    <3>3. a + 1 - 1 \in Nat /\ tick[o].left[1] = (a + 1 - 1) * i
      BY <3>1, <3>2
    <3>. QED  BY <2>3, <3>2, <3>3
  <2>7. RanSlots(executions', i)
    BY <1>e, <2>1, <2>3, <2>6 DEF RanSlots
  <2>8. RowCaughtUp(executions', schedule'.next, i)
    BY <1>e, <2>1, <2>4, CaughtUpStays
  <2>. QED  BY <1>f, <2>1, <2>4, <2>5, <2>7, <2>8
<1>5. ASSUME NEW o \in Owners, SkipSlot(o)
      PROVE  /\ RowCaughtUp(executions', schedule'.next, i)
             /\ RanSlots(executions', i)
             /\ \A q \in Owners : TickCaughtUp(executions', tick'[q], i)
  <2>. DEFINE b == tick[o].binds \cup ({NextSlot(o)} \ bound)
              t == [tick[o] EXCEPT !.left = Tail(tick[o].left), !.binds = b]
  <2>1. /\ tick[o].pc = "slots" /\ tick[o].left # <<>> /\ UNCHANGED <<schedule, executions>>
        /\ tick' = [tick EXCEPT ![o] = t]
    BY <1>5 DEF SkipSlot, AtSlot, rows
  <2>2. tick[o] \in Ticks /\ TickCaughtUp(executions, tick[o], i)
    BY <1>a, <1>e
  <2>3. Dispatched(executions, Head(tick[o].left))
    <3>1. PICK e \in executions : NextSlot(o) = e.key
      BY <1>5 DEF SkipSlot
    <3>2. PICK k \in Nat : e.planned = k * i /\ e.interval = i
      BY <1>e DEF RanSlots
    <3>3. e.key = SlotKey(k * i, i)
      BY <3>2 DEF SlotInv, KeysNameSlots
    <3>4. PICK p, a \in Nat : \A n \in DOMAIN tick[o].left : tick[o].left[n] = (a + n - 1) * i
      BY <2>1, <2>2 DEF TickCaughtUp
    <3>5. 1 \in DOMAIN tick[o].left /\ Head(tick[o].left) = tick[o].left[1]
      <4>1. tick[o].left \in Seq(Nat)
        BY <2>2 DEF Ticks
      <4>. QED  BY <2>1, <4>1
    <3>6. Head(tick[o].left) = a * i
      <4>1. a + 1 - 1 = a /\ tick[o].left[1] = (a + 1 - 1) * i
        BY <3>4, <3>5
      <4>. QED  BY <3>5, <4>1
    <3>7. tick[o].interval = i
      BY <2>1, <2>2 DEF TickCaughtUp
    <3>8. SlotKey(a * i, i) = SlotKey(k * i, i)
      BY <3>1, <3>3, <3>6, <3>7 DEF NextSlot
    <3>9. a = k
      BY <1>a, <3>8, KeysTellSlots
    <3>. QED  BY <3>2, <3>6, <3>9 DEF Dispatched
  <2>. HIDE DEF b
  <2>4. TickCaughtUp(executions, t, i)
    BY <1>a, <2>1, <2>2, <2>3, NextSlotCatchesUp
  <2>. HIDE DEF t
  <2>. QED  BY <1>e, <1>f, <2>1, <2>4
<1>6. ASSUME NEW o \in Owners, CommitSlots(o)
      PROVE  /\ RowCaughtUp(executions', schedule'.next, i)
             /\ RanSlots(executions', i)
             /\ \A q \in Owners : TickCaughtUp(executions', tick'[q], i)
  <2>. DEFINE t == [tick[o] EXCEPT !.pc = "advance", !.binds = {}]
  <2>1. /\ tick[o].pc = "slots" /\ tick[o].left = <<>> /\ UNCHANGED <<schedule, executions>>
        /\ tick' = [tick EXCEPT ![o] = t]
    BY <1>6 DEF CommitSlots
  <2>2. tick[o] \in Ticks /\ TickCaughtUp(executions, tick[o], i)
    BY <1>a, <1>e
  <2>3. /\ t.pc = "advance" /\ t.interval = tick[o].interval /\ t.planned = tick[o].planned
        /\ t.left = tick[o].left /\ NextRun(t) = NextRun(tick[o])
    BY <2>2 DEF Ticks, NextRun
  <2>. HIDE DEF t
  <2>4. TickCaughtUp(executions, t, i)
    BY <2>1, <2>2, <2>3 DEF TickCaughtUp
  <2>. QED  BY <1>e, <1>f, <2>1, <2>4
<1>7. ASSUME NEW o \in Owners, AdvanceSchedule(o)
      PROVE  /\ RowCaughtUp(executions', schedule'.next, i)
             /\ RanSlots(executions', i)
             /\ \A q \in Owners : TickCaughtUp(executions', tick'[q], i)
  <2>1. tick[o].pc = "advance" /\ tick' = [tick EXCEPT ![o] = Idle] /\ executions' = executions
    BY <1>7 DEF AdvanceSchedule
  <2>2. CASE ~HoldsLease(o)
    <3>1. schedule' = schedule
      BY <1>7, <2>2 DEF AdvanceSchedule
    <3>. QED  BY <1>h, <2>1, <3>1
  <2>3. CASE HoldsLease(o)
    <3>1. schedule'.next = NextRun(tick[o])
      BY <1>7, <2>3 DEF AdvanceSchedule
    <3>2. tick[o].planned = schedule.next
      BY <2>1, <2>3 DEF HoldsLease, LeaseKnowsTheRow
    <3>3. RowCaughtUp(executions, NextRun(tick[o]), i)
      BY <1>a, <1>e, <2>1, <3>2, AdvanceCatchesUp
    <3>. QED  BY <1>e, <1>f, <1>g, <2>1, <3>1, <3>3
  <2>. QED  BY <2>2, <2>3
<1>8. ASSUME NEW o \in Owners, FailTick(o) \/ RefuseSlot(o)
      PROVE  /\ RowCaughtUp(executions', schedule'.next, i)
             /\ RanSlots(executions', i)
             /\ \A q \in Owners : TickCaughtUp(executions', tick'[q], i)
  <2>1. schedule'.next = schedule.next
    BY <1>8, <1>a DEF FailTick, RefuseSlot, Released, ScheduleRows
  <2>. QED  BY <1>8, <1>h, <2>1 DEF FailTick, RefuseSlot
<1>9. ASSUME NEW o \in Owners, Crash(o)
      PROVE  /\ RowCaughtUp(executions', schedule'.next, i)
             /\ RanSlots(executions', i)
             /\ \A q \in Owners : TickCaughtUp(executions', tick'[q], i)
  <2>. DEFINE t == [Idle EXCEPT !.pc = "dead"]
  <2>1. tick' = [tick EXCEPT ![o] = t] /\ UNCHANGED <<schedule, executions>>
    BY <1>9 DEF Crash, rows
  <2>2. TickCaughtUp(executions', t, i)
    BY DEF TickCaughtUp, Idle
  <2>. HIDE DEF t
  <2>. QED  BY <1>e, <1>f, <2>1, <2>2
<1>10. CASE Publish \/ PassTime \/ UNCHANGED vars
  <2>1. UNCHANGED <<schedule, executions, tick>>
    BY <1>10 DEF Publish, PassTime, vars, rows
  <2>. QED  BY <1>e, <2>1
<1>. QED
  BY <1>b, <1>1, <1>2, <1>3, <1>4, <1>5, <1>6, <1>7, <1>8, <1>9, <1>10 DEF Next, TickStep

(* A new trigger has nothing to catch up on. *)
LEMMA CatchUpInit == Init => CatchUpInv
<1>. SUFFICES ASSUME Init PROVE /\ RowCaughtUp(executions, schedule.next, trigger.interval)
                               /\ RanSlots(executions, trigger.interval)
                               /\ \A o \in Owners : TickCaughtUp(executions, tick[o], trigger.interval)
  BY DEF CatchUpInv
<1>1. trigger.interval \in Nat /\ schedule.next = 0 /\ executions = {} /\ \A o \in Owners : tick[o] = Idle
  BY ScheduleAssumption DEF Init
<1>2. 0 = 0 * trigger.interval /\ SlotsDispatched(executions, 0, 0, trigger.interval)
  BY <1>1 DEF SlotsDispatched
<1>. QED  BY <1>1, <1>2 DEF RowCaughtUp, RanSlots, TickCaughtUp, Idle

(* Under catch_up the schedule never moves past a planned time that has    *)
(* not been dispatched, whatever leases lapse, ticks fail and schedulers   *)
(* die: the advance starts from the claimed time, which still stands, and  *)
(* every slot between was run by the tick or known by its key to have run  *)
(* (process_due_trigger).                                                  *)
THEOREM CatchUpSkipsNothing == Spec => []CatchUpLeavesNoGap
<1>1. TickInv /\ CatchUpInv => CatchUpLeavesNoGap
  <2>. SUFFICES ASSUME TickInv, CatchUpInv, edits = 0, trigger.policy = "catch_up", NEW t \in Nat,
                       t < schedule.next, t % trigger.interval = 0
                PROVE  \E e \in executions : e.planned = t
    BY ScheduleAssumption DEF CatchUpLeavesNoGap
  <2>. DEFINE i == trigger.interval
              k == t \div i
  <2>1. i \in Nat \ {0}
    BY ScheduleAssumption DEF TickInv, TypeOK, TriggerRows
  <2>2. PICK p \in Nat : schedule.next = p * i /\ SlotsDispatched(executions, 0, p, i)
    BY DEF CatchUpInv, CatchesUp, RowCaughtUp
  <2>. HIDE DEF i
  <2>3. k \in Nat /\ t = k * i
    BY <2>1 DEF i
  <2>. HIDE DEF k
  <2>4. k < p
    BY <2>1, <2>2, <2>3, MultiplesInOrder
  <2>. QED  BY <2>2, <2>3, <2>4 DEF SlotsDispatched, Dispatched
<1>2. Init => LeaseKnowsTheRow
  BY DEF Init, LeaseKnowsTheRow, Idle
<1>3. Init => SlotInv
  BY DEF Init, SlotInv, KeysNameSlots, KeysAreUnique
<1>. QED  BY <1>1, <1>2, <1>3, TickInit, TickStepInv, SlotStep, LeaseStep, CatchUpInit, CatchUpStep, PTL
          DEF Spec

==============================================================================
