---------------------------- MODULE WebhookDelivery ----------------------------
(***************************************************************************)
(* The webhook delivery facts and the worker pool that sends them          *)
(* (services/integration/webhook_delivery.py and                           *)
(* webhook_delivery_repository.py).                                        *)
(*                                                                         *)
(* A delivery row is claimed under a lease, sent outside any transaction,  *)
(* and settled in a second transaction that is fenced by the lease owner   *)
(* alone.  One worker process runs several tasks under ONE owner name.     *)
(* Each repository call runs in a transaction of its own behind a row      *)
(* lock and is one action.  Time only matters through two comparisons, so  *)
(* a lease is live or lapsed and a retry is due or not.                    *)
(*                                                                         *)
(* The module has no Next of its own: AlertNotification creates the rows   *)
(* and receives the outcomes.                                              *)
(***************************************************************************)
EXTENDS Integers, FiniteSets

CONSTANTS
    Deliveries,   \* event x destination, the unique key of a row
    Workers,      \* worker processes; the name is the lease owner
    Tasks,        \* the deliver_once tasks of all workers
    WorkerOf,     \* WorkerOf[t]: the process t runs in
    NoOwner,      \* NULL in lease_owner
    Gone,         \* the owner name of a process that died; a new one gets a new name
    MaxAttempts,  \* max_attempts
    MaxFaults     \* bound: replays (one per delivery), crashes and further disturbances

ASSUME DeliveryAssumption == /\ WorkerOf \in [Tasks -> Workers]
                             /\ NoOwner \notin Workers \cup {Gone}
                             /\ Gone \notin Workers
                             /\ MaxAttempts \in Nat \ {0}
                             /\ MaxFaults \in Nat

VARIABLES
    row,      \* the webhook_deliveries rows
    task,     \* the local state of each deliver_once call
    worker,   \* run_forever of each process: running, or stopping and draining
    replayed, \* history: deliveries an operator replayed
    faults    \* replays, crashes and configuration changes so far

deliveryVars == <<row, task, worker, replayed, faults>>

Settled == {"delivered", "dead_letter"}
RowStates == {"absent", "pending", "running"} \cup Settled
Owners == Workers \cup {NoOwner, Gone}
Rows == [status : RowStates, attempts : 0..MaxAttempts, owner : Owners,
         lease : {"none", "live", "lapsed"}, due : BOOLEAN]
Outcomes == {"none", "retrying"} \cup Settled
TaskStates == [pc : {"idle", "sending", "recording", "writing"}, on : Deliveries,
               attempt : 0..MaxAttempts, outcome : Outcomes]

AbsentRow == [status |-> "absent", attempts |-> 0, owner |-> NoOwner,
              lease |-> "none", due |-> TRUE]
PendingRow == [AbsentRow EXCEPT !.status = "pending"]
Idle == [pc |-> "idle", on |-> CHOOSE d \in Deliveries : TRUE,
         attempt |-> 0, outcome |-> "none"]

DeliveryTypeOK ==
    /\ row \in [Deliveries -> Rows]
    /\ task \in [Tasks -> TaskStates]
    /\ worker \in [Workers -> {"running", "stopping"}]
    /\ replayed \subseteq Deliveries
    /\ faults \in 0..MaxFaults

DeliveryInit ==
    /\ row = [d \in Deliveries |-> AbsentRow]
    /\ task = [t \in Tasks |-> Idle]
    /\ worker = [w \in Workers |-> "running"]
    /\ replayed = {}
    /\ faults = 0

\* The insert of several rows at once; rows the unique constraint already
\* knows are left alone.
Materialised(ds) == [d \in Deliveries |-> IF d \in ds /\ row[d].status = "absent"
                                          THEN PendingRow ELSE row[d]]

-----------------------------------------------------------------------------
(* claim_next: the first task of a running process that finds the row. *)

\* Mutant: an expired lease is not taken over.
Claimable_PendingOnly(r) == r.status = "pending" /\ r.attempts < MaxAttempts /\ r.due

Claimable(r) ==
    /\ \/ r.status = "pending"
       \/ r.status = "running" /\ r.lease = "lapsed"
    /\ r.attempts < MaxAttempts
    /\ r.due

Claim(t, d) ==
    /\ worker[WorkerOf[t]] = "running"
    /\ task[t].pc = "idle"
    /\ Claimable(row[d])
    /\ row' = [row EXCEPT ![d].status = "running", ![d].attempts = @ + 1,
                          ![d].owner = WorkerOf[t], ![d].lease = "live"]
    /\ task' = [task EXCEPT ![t] = [pc |-> "sending", on |-> d,
                                    attempt |-> row[d].attempts + 1, outcome |-> "none"]]
    /\ UNCHANGED <<worker, replayed, faults>>

-----------------------------------------------------------------------------
(* The answer of the endpoint, and the transaction that settles the row. *)

\* Mutants: the row is found by its id, or by id and status.
Holds_ById(t) == TRUE
Holds_ByStatus(t) == row[task[t].on].status = "running"

Holds(t) == /\ row[task[t].on].status = "running"
            /\ row[task[t].on].owner = WorkerOf[t]

Released(r, status) == [r EXCEPT !.status = status, !.owner = NoOwner,
                                 !.lease = "none", !.due = TRUE]

\* retry_at is counted from the claim, so it may already be past.
AfterFailure(r, due) ==
    IF r.attempts >= MaxAttempts THEN Released(r, "dead_letter")
                                 ELSE [Released(r, "pending") EXCEPT !.due = due]

\* A retry the worker computed lies in the future or not; without one it is due.
RetryTimes(t) == IF task[t].attempt < MaxAttempts THEN BOOLEAN ELSE {TRUE}

\* Mutant: only a success is reported back.
ToRecord_SuccessOnly(t, outcome) ==
    [task EXCEPT ![t] = IF outcome = "delivered"
                        THEN [@ EXCEPT !.pc = "recording", !.outcome = outcome] ELSE Idle]

ToRecord(t, outcome) == [task EXCEPT ![t] = [@ EXCEPT !.pc = "recording", !.outcome = outcome]]
Finished(t) == [task EXCEPT ![t] = Idle]

\* _notification_status of the row as the same transaction reads it back.
NotificationStatus(r) == IF r.status = "pending" THEN "retrying" ELSE r.status

Settle(t, r) ==
    /\ task[t].pc = "sending"
    /\ Holds(t)
    /\ row' = [row EXCEPT ![task[t].on] = r]
    /\ task' = ToRecord(t, NotificationStatus(r))
    /\ UNCHANGED <<worker, replayed, faults>>

MarkDelivered(t) == Settle(t, Released(row[task[t].on], "delivered"))
MarkFailed(t) == \E due \in RetryTimes(t) : Settle(t, AfterFailure(row[task[t].on], due))

\* Either answer finds the row settled or owned by another process.
AnswerTooLate(t) ==
    /\ task[t].pc = "sending"
    /\ ~Holds(t)
    /\ task' = Finished(t)
    /\ UNCHANGED <<row, worker, replayed, faults>>

-----------------------------------------------------------------------------
(* The replay request, time, and the life of the processes. *)

Disturb == faults < MaxFaults /\ faults' = faults + 1

Replay(d) ==
    /\ d \notin replayed
    /\ Disturb
    /\ row[d].status \in Settled
    /\ row' = [row EXCEPT ![d] = PendingRow]
    /\ replayed' = replayed \cup {d}
    /\ UNCHANGED <<task, worker>>

LeaseLapses(d) ==
    /\ row[d].lease = "live"
    /\ row' = [row EXCEPT ![d].lease = "lapsed"]
    /\ UNCHANGED <<task, worker, replayed, faults>>

RetryDue(d) ==
    /\ ~row[d].due
    /\ row' = [row EXCEPT ![d].due = TRUE]
    /\ UNCHANGED <<task, worker, replayed, faults>>

\* The process dies with its tasks; its leases stay behind under a name nobody has.
Crash(w) ==
    /\ Disturb
    /\ row' = [d \in Deliveries |-> IF row[d].owner = w THEN [row[d] EXCEPT !.owner = Gone]
                                                         ELSE row[d]]
    /\ task' = [t \in Tasks |-> IF WorkerOf[t] = w THEN Idle ELSE task[t]]
    /\ worker' = [worker EXCEPT ![w] = "running"]
    /\ UNCHANGED replayed

\* An exception left a task: run_forever claims no more, waits for its other
\* tasks, ends, and the process is started again.
Restart(w) ==
    /\ worker[w] = "stopping"
    /\ \A t \in Tasks : WorkerOf[t] = w => task[t].pc = "idle"
    /\ worker' = [worker EXCEPT ![w] = "running"]
    /\ UNCHANGED <<row, task, replayed, faults>>
=============================================================================
