--------------------------- MODULE DurableFrontier ---------------------------
(***************************************************************************)
(* One workflow execution driven through its durable frontiers by the      *)
(* worker pool (services/workflow/frontier*.py, services/workflow/         *)
(* execution.py, services/workflow_worker/frontier_runtime.py and          *)
(* durable_frontier_execution.py).                                         *)
(*                                                                         *)
(* A frontier is a batch of nodes the planner releases together; the       *)
(* execution is the chain of frontiers 1..Steps.  A worker process claims  *)
(* a frontier, runs its nodes inside ONE long transaction while a          *)
(* heartbeat task renews the lease from other transactions, and commits    *)
(* node result, checkpoint, frontier status and next frontier together.    *)
(*                                                                         *)
(* Short transactions are single actions.  The long one is several, since  *)
(* others run between its statements: it reads the execution row unlocked, *)
(* keeps that copy for its whole life (the ORM's identity map), and later  *)
(* takes the row lock.                                                     *)
(*                                                                         *)
(* Time is relative: a lease is the number of ticks it has left, and a     *)
(* `now` some code captured is remembered as its age in ticks, so that     *)
(* "lease_expires_at > now" reads  lease + age > 0.  Nothing counts ticks  *)
(* absolutely, so time never runs out.                                     *)
(***************************************************************************)
EXTENDS Integers, FiniteSets, Sequences

CONSTANTS
    Slots,        \* the frontier tasks of all worker processes
    Owners,       \* worker_owner identities
    OwnerOf,      \* OwnerOf[s]: the process a slot belongs to
    NoOwner,      \* SQL NULL in a worker_owner column
    NoSlot,       \* nobody holds the execution row lock
    Nodes,
    Steps,        \* number of frontiers the planner releases, one after another
    NodesOf,      \* NodesOf[i]: the node_ids column of frontier i
    Batches,      \* the frontiers that run several nodes, one after another
    LeaseTime,    \* lease_seconds, in ticks
    MaxRun,       \* bound: ticks one phase of a task, or one blocked statement, lasts
    MaxAttempts,  \* retry_budget.max_retries + 1
    BaseDelay,    \* base_delay_seconds, in ticks
    MaxDelay,     \* max_delay_seconds, in ticks
    ClaimBound,   \* bound: claims of one frontier
    Faults        \* bound: how many of each fault the environment may inject

StepIds == 1..Steps
FaultKinds == {"crash", "cancel", "probe", "mute", "node"}

ASSUME StepsAssumption == Steps \in Nat \ {0}
ASSUME TimeAssumption == /\ LeaseTime \in Nat \ {0}
                         /\ MaxRun \in Nat \ {0}
                         /\ BaseDelay \in Nat
                         /\ MaxDelay \in Nat
                         /\ MaxAttempts \in Nat \ {0}
                         /\ ClaimBound \in Nat
ASSUME OwnerAssumption == /\ OwnerOf \in [Slots -> Owners]
                          /\ NoOwner \notin Owners
                          /\ NoSlot \notin Slots
ASSUME NodesAssumption == NodesOf \in [1..Steps -> SUBSET Nodes]
\* Only the frontier of a scheduled linear definition runs several nodes, and it
\* names all of them.
ASSUME BatchesAssumption == /\ Batches \subseteq StepIds
                            /\ \A i \in Batches : Steps = 1 /\ Cardinality(NodesOf[i]) > 1
ASSUME FaultAssumption == Faults \in [FaultKinds -> Nat]

VARIABLES
    ex,      \* the workflow_executions row
    fr,      \* the workflow_frontiers rows, by step
    node,    \* committed status of the step's node rows
    ckpt,    \* the frontier_completed checkpoints, in sequence order
    lock,    \* the slot whose long transaction holds the execution row lock
    pc,      \* where each slot's task is
    job,     \* the frontier and the fencing generation each slot claimed
    cache,   \* the execution row as the slot's session loaded it
    age,     \* ticks since the task entered its phase (and captured `now`)
    hb,      \* each task's heartbeat
    hbAge,   \* ticks since the heartbeat captured `now`
    req,     \* an operator's cancel request and the row its session loaded
    budget   \* faults left

vars == <<ex, fr, node, ckpt, lock, pc, job, cache, age, hb, hbAge, req, budget>>

-----------------------------------------------------------------------------
(* Rows and their states. *)

Terminal == {"completed", "failed", "cancelled"}
ExecutionStates == {"pending", "running"} \cup Terminal
Active == {"pending", "retry_wait", "running"}
FrontierStates == Active \cup {"absent", "completed", "failed"}

\* A lease that is NULL, or expired for so long that no captured `now` precedes it.
NoLease == -MaxRun
Leases == NoLease..LeaseTime
ExecutionRows == [status : ExecutionStates, owner : Owners \cup {NoOwner},
                  lease : Leases, attempt : Nat]
\* "partly": some nodes of the frontier are completed and the next one is running.
NodeStates == {"pending", "running", "partly", "completed", "failed"}
FrontierRows == [status : FrontierStates, owner : Owners \cup {NoOwner},
                 lease : Leases, attempt : Nat, wait : 0..MaxDelay]

Expired(lease) == lease <= 0
\* lease_expires_at > the `now` captured `elapsed` ticks ago.
ValidAt(lease, elapsed) == lease + elapsed > 0

Later(lease) == IF lease > NoLease THEN lease - 1 ELSE NoLease

NewExecution == [status |-> "pending", owner |-> NoOwner, lease |-> NoLease, attempt |-> 0]
AbsentFrontier == [status |-> "absent", owner |-> NoOwner, lease |-> NoLease,
                   attempt |-> 0, wait |-> 0]
PendingFrontier == [AbsentFrontier EXCEPT !.status = "pending"]

Mine(s) == OwnerOf[s]
Step(s) == job[s].step
Busy == {"claimed", "verified", "loaded", "run", "rest", "ran", "raised_retry", "raised_fatal"}
Phases == Busy \cup {"idle"}
Raised == {"raised_retry", "raised_fatal"}

\* Rows a session holds are released when its transaction ends.
Unlock(s) == IF lock = s THEN NoSlot ELSE lock

\* The row can be locked now; SKIP LOCKED gives up instead of waiting.
RowFree(s) == lock \in {NoSlot, s}

(* What a session sees when it selects, even FOR UPDATE, a row it has      *)
(* already loaded: the ORM returns the object in its identity map with the *)
(* attributes it was first loaded with (no populate_existing anywhere).    *)
LockedView(loaded, row) == loaded

Overlap(i, j) == NodesOf[i] \cap NodesOf[j] # {}

\* Frontier i still has a sibling that could be consumed.
ActiveSibling(i) == \E j \in StepIds \ {i} : fr[j].status \in Active
ActiveOverlap(i, except) == \E j \in StepIds \ {i, except} :
                               fr[j].status \in Active /\ Overlap(i, j)

NoJob == [step |-> 1, attempt |-> 0]

\* The task ends: its session closes, its heartbeat is cancelled, its locals are gone.
EndTask(s) ==
    /\ pc' = [pc EXCEPT ![s] = "idle"]
    /\ job' = [job EXCEPT ![s] = NoJob]
    /\ cache' = [cache EXCEPT ![s] = NewExecution]
    /\ age' = [age EXCEPT ![s] = 0]
    /\ hb' = [hb EXCEPT ![s] = "off"]
    /\ hbAge' = [hbAge EXCEPT ![s] = 0]
    /\ lock' = Unlock(s)

-----------------------------------------------------------------------------
(* Claiming a frontier. *)

\* Mutant: a running execution nobody owns any more is not taken over.
ExecutionClaimable_NoTakeover(w) ==
    \/ ex.status = "pending" /\ (ex.owner = NoOwner \/ Expired(ex.lease) \/ ex.owner = w)
    \/ ex.status = "running" /\ ex.owner = w

ExecutionClaimable(w) ==
    \/ ex.status = "pending" /\ (ex.owner = NoOwner \/ Expired(ex.lease) \/ ex.owner = w)
    \/ ex.status = "running" /\ (ex.owner = w \/ Expired(ex.lease))

\* The claim starts a new ownership generation of the execution, rather than
\* renewing the lease of a worker that already owns it.
TakesOver(w) == IF ex.status = "pending"
                THEN ex.owner = NoOwner \/ Expired(ex.lease)
                ELSE ex.owner # w

ClaimedExecution(w) ==
    [status |-> "running", owner |-> w, lease |-> LeaseTime,
     attempt |-> IF TakesOver(w) THEN ex.attempt + 1 ELSE ex.attempt]

\* Mutant: a reclaimed frontier keeps its generation.
ClaimGeneration_Reused(i) == IF fr[i].attempt = 0 THEN 1 ELSE fr[i].attempt

ClaimGeneration(i) == fr[i].attempt + 1

Claimable(i) == fr[i].status \in {"pending", "retry_wait"} /\ fr[i].wait = 0

\* claim_one_frontier: one transaction, Execution then Frontier, both SKIP LOCKED.
Claim(s, i) ==
    /\ pc[s] = "idle"
    /\ lock = NoSlot
    /\ Claimable(i)
    /\ fr[i].attempt < ClaimBound
    /\ ExecutionClaimable(Mine(s))
    /\ ~ActiveOverlap(i, i)
    /\ ex' = ClaimedExecution(Mine(s))
    /\ fr' = [fr EXCEPT ![i].status = "running", ![i].owner = Mine(s),
                        ![i].lease = LeaseTime, ![i].attempt = ClaimGeneration(i)]
    /\ pc' = [pc EXCEPT ![s] = "claimed"]
    /\ job' = [job EXCEPT ![s] = [step |-> i, attempt |-> ClaimGeneration(i)]]
    /\ age' = [age EXCEPT ![s] = 0]
    /\ UNCHANGED <<node, ckpt, lock, cache, hb, hbAge, req, budget>>

\* Mutant: the worker_owner alone fences a frontier.
FrontierFence_NoAttempt(s, elapsed) ==
    LET row == fr[Step(s)]
    IN  row.owner = Mine(s) /\ row.status = "running" /\ ValidAt(row.lease, elapsed)

\* The WHERE clause every frontier write of a worker goes through: owner, fencing
\* generation, live status and a lease valid at the `now` it was given.
FrontierFence(s, elapsed) ==
    LET row == fr[Step(s)]
    IN  /\ row.owner = Mine(s)
        /\ row.attempt = job[s].attempt
        /\ row.status = "running"
        /\ ValidAt(row.lease, elapsed)

OwnsExecution(s, elapsed) == ex.owner = Mine(s) /\ ValidAt(ex.lease, elapsed)

ExecutionFence(s, elapsed) == ex.status \in {"pending", "running"} /\ OwnsExecution(s, elapsed)

\* _verify_frontier_consumption_ownership, whose `now` may be up to age[s] old by
\* the time its row locks are granted; success starts the heartbeat.
Verify(s) ==
    /\ pc[s] = "claimed"
    /\ lock = NoSlot
    /\ \E elapsed \in 0..age[s] :
          IF FrontierFence(s, elapsed) /\ ExecutionFence(s, elapsed)
          THEN /\ pc' = [pc EXCEPT ![s] = "verified"]
               /\ hb' = [hb EXCEPT ![s] = "due"]
               /\ age' = [age EXCEPT ![s] = 0]
               /\ UNCHANGED <<lock, job, cache, hbAge>>
          ELSE EndTask(s)
    /\ UNCHANGED <<ex, fr, node, ckpt, req, budget>>

-----------------------------------------------------------------------------
(* Running the claimed frontier in one long transaction. *)

\* An exception rolls the long transaction back; compensation comes next.
Raise(s, kind) ==
    /\ pc' = [pc EXCEPT ![s] = kind]
    /\ lock' = Unlock(s)
    /\ age' = [age EXCEPT ![s] = 0]

\* The session reads the execution row without locking it and captures `now`.
Load(s) ==
    /\ pc[s] = "verified"
    /\ pc' = [pc EXCEPT ![s] = "loaded"]
    /\ cache' = [cache EXCEPT ![s] = ex]
    /\ age' = [age EXCEPT ![s] = 0]
    /\ UNCHANGED <<ex, fr, node, ckpt, lock, job, hb, hbAge, req, budget>>

\* Mutant: any node may be started, so that takeovers find no orphan in their way.
NodeStartable_Any(i) == TRUE

NodeStartable(i) == node[i] \in {"pending", "failed"}

\* transition_node(running): lock the row, refuse a terminal execution or a node
\* that is not startable.
StartNode(s) ==
    /\ pc[s] = "loaded"
    /\ lock = NoSlot
    /\ IF LockedView(cache[s], ex).status \notin Terminal /\ NodeStartable(Step(s))
       THEN /\ pc' = [pc EXCEPT ![s] = "run"]
            /\ lock' = s
            /\ UNCHANGED age
       ELSE Raise(s, "raised_fatal")
    /\ UNCHANGED <<ex, fr, node, ckpt, job, cache, hb, hbAge, req, budget>>

\* In the middle of the frontier's first node, or of a later one.
InNode(s) == pc[s] \in {"run", "rest"}

\* What a commit in the middle of a node makes durable.
ProbedNodes(s) == IF pc[s] = "rest" THEN "partly" ELSE "running"

\* A circuit-breaker probe commits the caller's transaction in the middle of the
\* node: the running node row, and with it every node the session completed before,
\* becomes durable and the execution row is unlocked.
ProbeCommit(s) ==
    /\ InNode(s)
    /\ lock = s
    /\ budget["probe"] > 0
    /\ budget' = [budget EXCEPT !["probe"] = @ - 1]
    /\ node' = [node EXCEPT ![Step(s)] = ProbedNodes(s)]
    /\ lock' = NoSlot
    /\ UNCHANGED <<ex, fr, ckpt, pc, job, cache, age, hb, hbAge, req>>

\* A node leaves "running" only from there.  Once a probe gave the execution row
\* up, the node row is read afresh, and a takeover may have failed it meanwhile.
NodeRunning(s) == lock = s \/ node[Step(s)] \in {"running", "partly"}

\* The node's own retry policy: transition_node(failed), then running again.  After
\* a probe this takes the execution row back; the row's contents stay those the
\* session loaded, so a new owner goes unnoticed here.
RetryNode(s) ==
    /\ InNode(s)
    /\ lock = NoSlot
    /\ IF NodeRunning(s)
       THEN lock' = s /\ UNCHANGED <<pc, age>>
       ELSE Raise(s, "raised_fatal")
    /\ UNCHANGED <<ex, fr, node, ckpt, job, cache, hb, hbAge, req, budget>>

\* _validate_worker_fencing on the loaded row, at the real time.
LoadedLeaseLive(s) == cache[s].owner # NoOwner /\ cache[s].lease > age[s]

\* A frontier of several nodes: transition_node(completed) and then, in the same
\* session, transition_node(running) of the next node.
NextNode(s) ==
    /\ InNode(s)
    /\ Step(s) \in Batches
    /\ RowFree(s)
    /\ IF NodeRunning(s) /\ LoadedLeaseLive(s)
       THEN /\ pc' = [pc EXCEPT ![s] = "rest"]
            /\ lock' = s
            /\ UNCHANGED age
       ELSE Raise(s, "raised_fatal")
    /\ UNCHANGED <<ex, fr, node, ckpt, job, cache, hb, hbAge, req, budget>>

\* transition_node(completed) after the frontier's only or last node returned.
FinishNode(s) ==
    /\ pc[s] = IF Step(s) \in Batches THEN "rest" ELSE "run"
    /\ RowFree(s)
    /\ IF NodeRunning(s) /\ LoadedLeaseLive(s)
       THEN /\ pc' = [pc EXCEPT ![s] = "ran"]
            /\ lock' = s
            /\ UNCHANGED age
       ELSE Raise(s, "raised_fatal")
    /\ UNCHANGED <<ex, fr, node, ckpt, job, cache, hb, hbAge, req, budget>>

\* The node fails for good, as far as its own retry policy goes; the failure is
\* classified as worth a frontier retry or not.
NodeFails(s, kind) ==
    /\ InNode(s)
    /\ RowFree(s)
    /\ kind = "raised_retry" => NodeRunning(s)
    /\ budget["node"] > 0
    /\ budget' = [budget EXCEPT !["node"] = @ - 1]
    /\ Raise(s, kind)
    /\ UNCHANGED <<ex, fr, node, ckpt, job, cache, hb, hbAge, req>>

-----------------------------------------------------------------------------
(* Completing a frontier: everything in the long transaction's commit. *)

\* complete_frontier_with_checkpoint: the execution it loaded is running, owned and
\* leased at the `now` of the task; the frontier row is fenced at that same `now`.
CompletionFence(s) ==
    /\ LockedView(cache[s], ex).status = "running"
    /\ LockedView(cache[s], ex).owner = Mine(s)
    /\ ValidAt(cache[s].lease, 0)
    /\ FrontierFence(s, age[s])

\* append_next_in_transaction: one completion checkpoint per source frontier.
Checkpointed(i) == \E k \in DOMAIN ckpt : ckpt[k] = i
AppendCheckpoint(i) == IF Checkpointed(i) THEN ckpt ELSE Append(ckpt, i)

ClosedFrontier(i, status) == [fr[i] EXCEPT !.status = status, !.owner = NoOwner, !.lease = NoLease]

\* enqueue_frontier: insert, on conflict keep the existing row.
Enqueued(rows, i) ==
    [rows EXCEPT ![i] = IF rows[i].status = "absent" THEN PendingFrontier ELSE rows[i]]

CanAdvance(s) ==
    /\ Step(s) < Steps
    /\ CompletionFence(s)
    /\ LoadedLeaseLive(s)
    /\ ~ActiveOverlap(Step(s) + 1, Step(s))

\* Mutant: the execution is finished without asking whether a frontier is left.
CanFinish_Early(s) ==
    /\ CompletionFence(s)
    /\ ~ActiveSibling(Step(s))

CanFinish(s) ==
    /\ Step(s) = Steps
    /\ CompletionFence(s)
    /\ ~ActiveSibling(Step(s))

\* The frontier completes and releases the next one; the execution stays owned.
CompleteStep(s) ==
    /\ pc[s] = "ran"
    /\ CanAdvance(s)
    /\ fr' = Enqueued([fr EXCEPT ![Step(s)] = ClosedFrontier(Step(s), "completed")], Step(s) + 1)
    /\ node' = [node EXCEPT ![Step(s)] = "completed"]
    /\ ckpt' = AppendCheckpoint(Step(s))
    /\ EndTask(s)
    /\ UNCHANGED <<ex, req, budget>>

\* The last frontier completes the execution with it.
CompleteLast(s) ==
    /\ pc[s] = "ran"
    /\ CanFinish(s)
    /\ fr' = [fr EXCEPT ![Step(s)] = ClosedFrontier(Step(s), "completed")]
    /\ ex' = [ex EXCEPT !.status = "completed", !.owner = NoOwner, !.lease = NoLease]
    /\ node' = [node EXCEPT ![Step(s)] = "completed"]
    /\ ckpt' = AppendCheckpoint(Step(s))
    /\ EndTask(s)
    /\ UNCHANGED <<req, budget>>

CompletionRejected(s) ==
    /\ pc[s] = "ran"
    /\ ~CanAdvance(s)
    /\ ~CanFinish(s)
    /\ Raise(s, "raised_fatal")
    /\ UNCHANGED <<ex, fr, node, ckpt, job, cache, hb, hbAge, req, budget>>

-----------------------------------------------------------------------------
(* Compensating a failed run: _converge_failure, in a transaction of its own. *)

CanRetry(attempt) == 0 < attempt /\ attempt < MaxAttempts

Backoff(attempt) ==
    LET delay == BaseDelay * 2^(attempt - 1)
    IN  IF delay \in 0..MaxDelay THEN delay ELSE MaxDelay

Since(wait, elapsed) == IF wait > elapsed THEN wait - elapsed ELSE 0

RetryWanted(s) == pc[s] = "raised_retry" /\ CanRetry(job[s].attempt)

\* Ownership of both rows; giving up also refuses an execution that is terminal.
MayConverge(s, elapsed) ==
    /\ OwnsExecution(s, elapsed)
    /\ FrontierFence(s, elapsed)
    /\ RetryWanted(s) \/ ex.status \in {"pending", "running"}

\* _persist_failed_node_fact: only a single-node frontier says which node failed.
FailedNodeFact(i) ==
    IF Cardinality(NodesOf[i]) = 1 /\ node[i] # "completed"
    THEN [node EXCEPT ![i] = "failed"] ELSE node

\* schedule_frontier_retry: the same frontier waits, for nobody, until its backoff ends.
RetryScheduled(s, elapsed) ==
    [ClosedFrontier(Step(s), "retry_wait") EXCEPT
       !.wait = Since(Backoff(job[s].attempt), elapsed)]

\* Another attempt of the same frontier, after a backoff; the execution row is
\* given up so that any worker may claim it.
ConvergeRetry(s) ==
    /\ RetryWanted(s)
    /\ lock = NoSlot
    /\ \E elapsed \in 0..age[s] :
          /\ MayConverge(s, elapsed)
          /\ fr' = [fr EXCEPT ![Step(s)] = RetryScheduled(s, elapsed)]
    /\ ex' = [ex EXCEPT !.owner = NoOwner, !.lease = NoLease]
    /\ node' = FailedNodeFact(Step(s))
    /\ EndTask(s)
    /\ UNCHANGED <<ckpt, req, budget>>

\* Mutants: failing closes only what nobody runs, or closes every frontier again.
FailActive_Waiting(rows) ==
    [i \in StepIds |-> IF rows[i].status \in {"pending", "retry_wait"}
                       THEN ClosedFrontier(i, "failed") ELSE rows[i]]
FailActive_All(rows) ==
    [i \in StepIds |-> IF rows[i].status # "absent" THEN ClosedFrontier(i, "failed") ELSE rows[i]]

FailActive(rows) ==
    [i \in StepIds |-> IF rows[i].status \in Active THEN ClosedFrontier(i, "failed") ELSE rows[i]]

\* No retry left or none wanted: frontier, execution and every active sibling fail.
ConvergeFail(s) ==
    /\ pc[s] \in Raised
    /\ ~RetryWanted(s)
    /\ lock = NoSlot
    /\ \E elapsed \in 0..age[s] : MayConverge(s, elapsed)
    /\ fr' = FailActive(fr)
    /\ ex' = [ex EXCEPT !.status = "failed", !.owner = NoOwner, !.lease = NoLease]
    /\ node' = FailedNodeFact(Step(s))
    /\ EndTask(s)
    /\ UNCHANGED <<ckpt, req, budget>>

\* Ownership is gone: nothing is written and recovery has to find the frontier.
ConvergeLost(s) ==
    /\ pc[s] \in Raised
    /\ lock = NoSlot
    /\ \E elapsed \in 0..age[s] : ~MayConverge(s, elapsed)
    /\ EndTask(s)
    /\ UNCHANGED <<ex, fr, node, ckpt, req, budget>>

-----------------------------------------------------------------------------
(* The heartbeat task of a running frontier (_renew_frontier_forever).  Its *)
(* UPDATE waits for the execution row whoever locked it, its own task       *)
(* included, and is then evaluated with the `now` captured before the wait. *)

HeartbeatDue(s) == hb[s] = "due" /\ lock = NoSlot

Renewable(s) == ExecutionFence(s, hbAge[s]) /\ FrontierFence(s, hbAge[s])

\* Mutant: only the frontier's lease is renewed.
RenewedExecution_FrontierOnly(s) == ex

RenewedExecution(s) == [ex EXCEPT !.lease = LeaseTime - hbAge[s]]

HeartbeatRenews(s) ==
    /\ HeartbeatDue(s)
    /\ Renewable(s)
    /\ ex' = RenewedExecution(s)
    /\ fr' = [fr EXCEPT ![Step(s)].lease = LeaseTime - hbAge[s]]
    /\ hb' = [hb EXCEPT ![s] = "asleep"]
    /\ UNCHANGED <<node, ckpt, lock, pc, job, cache, age, hbAge, req, budget>>

\* A terminal execution is not a lost lease: keep the task, renew nothing.
HeartbeatSeesTerminal(s) ==
    /\ HeartbeatDue(s)
    /\ ~ExecutionFence(s, hbAge[s])
    /\ ex.status \in Terminal
    /\ hb' = [hb EXCEPT ![s] = "asleep"]
    /\ UNCHANGED <<ex, fr, node, ckpt, lock, pc, job, cache, age, hbAge, req, budget>>

\* Ownership is lost: the task is cancelled, without compensation.
HeartbeatLost(s) ==
    /\ HeartbeatDue(s)
    /\ ~Renewable(s)
    /\ ExecutionFence(s, hbAge[s]) \/ ex.status \notin Terminal
    /\ EndTask(s)
    /\ UNCHANGED <<ex, fr, node, ckpt, req, budget>>

\* An exception in the heartbeat's transaction ends it silently.
HeartbeatDies(s) ==
    /\ hb[s] # "off"
    /\ budget["mute"] > 0
    /\ budget' = [budget EXCEPT !["mute"] = @ - 1]
    /\ hb' = [hb EXCEPT ![s] = "off"]
    /\ UNCHANGED <<ex, fr, node, ckpt, lock, pc, job, cache, age, hbAge, req>>

-----------------------------------------------------------------------------
(* The scheduler, the operator, crashes and time. *)

\* Mutants: recovery takes frontiers of any status, or knows only "claimed" ones.
Recoverable_AnyStatus(i) ==
    /\ fr[i].status # "absent"
    /\ Expired(fr[i].lease)
    /\ ex.status \in {"pending", "running"}
    /\ ex.owner = NoOwner \/ Expired(ex.lease)
Recoverable_ClaimedOnly(i) ==
    /\ fr[i].status = "claimed"
    /\ Expired(fr[i].lease)
    /\ ex.status \in {"pending", "running"}
    /\ ex.owner = NoOwner \/ Expired(ex.lease)

Recoverable(i) ==
    /\ fr[i].status = "running"
    /\ Expired(fr[i].lease)
    /\ ex.status \in {"pending", "running"}
    /\ ex.owner = NoOwner \/ Expired(ex.lease)

\* recover_expired_frontiers: both rows FOR UPDATE SKIP LOCKED.
Recover(i) ==
    /\ lock = NoSlot
    /\ Recoverable(i)
    /\ fr' = [fr EXCEPT ![i] = [ClosedFrontier(i, "retry_wait") EXCEPT !.wait = 0]]
    /\ UNCHANGED <<ex, node, ckpt, lock, pc, job, cache, age, hb, hbAge, req, budget>>

\* A cancel request loads the execution to authorise it ...
CancelLoad ==
    /\ req.pc = "idle"
    /\ budget["cancel"] > 0
    /\ budget' = [budget EXCEPT !["cancel"] = @ - 1]
    /\ req' = [pc |-> "loaded", row |-> ex]
    /\ UNCHANGED <<ex, fr, node, ckpt, lock, pc, job, cache, age, hb, hbAge>>

\* ... and then locks it and decides on the loaded copy.  The ORM writes only the
\* attributes that differ from that copy.
Cancellable(loaded) == LockedView(loaded, ex).status \in {"pending", "running"}

Cancelled(loaded) ==
    IF loaded.owner = NoOwner
    THEN [ex EXCEPT !.status = "cancelled"]
    ELSE [ex EXCEPT !.status = "cancelled", !.owner = NoOwner, !.lease = NoLease]

CancelApply ==
    /\ req.pc = "loaded"
    /\ lock = NoSlot
    /\ ex' = IF Cancellable(req.row) THEN Cancelled(req.row) ELSE ex
    /\ req' = [req EXCEPT !.pc = "idle"]
    /\ UNCHANGED <<fr, node, ckpt, lock, pc, job, cache, age, hb, hbAge, budget>>

\* The task is lost: its process dies, or the database aborts its compensation as a
\* deadlock victim.  Either way its open transaction is rolled back.
Crash(s) ==
    /\ pc[s] # "idle"
    /\ budget["crash"] > 0
    /\ budget' = [budget EXCEPT !["crash"] = @ - 1]
    /\ EndTask(s)
    /\ UNCHANGED <<ex, fr, node, ckpt, req>>

\* One tick, a third of a lease or more, so every sleeping heartbeat comes due.
\* Heartbeats that can run do so first; no phase and no wait outlasts MaxRun.
TickAllowed ==
    \A s \in Slots : /\ pc[s] # "idle" => age[s] < MaxRun
                     /\ hb[s] = "due" => lock # NoSlot /\ hbAge[s] < MaxRun

Tick ==
    /\ TickAllowed
    /\ ex' = [ex EXCEPT !.lease = Later(@)]
    /\ fr' = [i \in StepIds |-> [fr[i] EXCEPT !.lease = Later(@), !.wait = Since(@, 1)]]
    /\ age' = [s \in Slots |-> IF pc[s] = "idle" THEN age[s] ELSE age[s] + 1]
    /\ hbAge' = [s \in Slots |-> IF hb[s] = "due" THEN hbAge[s] + 1 ELSE 0]
    /\ hb' = [s \in Slots |-> IF hb[s] = "asleep" THEN "due" ELSE hb[s]]
    /\ UNCHANGED <<node, ckpt, lock, pc, job, cache, req, budget>>

-----------------------------------------------------------------------------
\* The trigger commits the pending execution together with its first frontier.
Init ==
    /\ ex = NewExecution
    /\ fr = [i \in StepIds |-> IF i = 1 THEN PendingFrontier ELSE AbsentFrontier]
    /\ node = [i \in StepIds |-> "pending"]
    /\ ckpt = <<>>
    /\ lock = NoSlot
    /\ pc = [s \in Slots |-> "idle"]
    /\ job = [s \in Slots |-> NoJob]
    /\ cache = [s \in Slots |-> NewExecution]
    /\ age = [s \in Slots |-> 0]
    /\ hb = [s \in Slots |-> "off"]
    /\ hbAge = [s \in Slots |-> 0]
    /\ req = [pc |-> "idle", row |-> NewExecution]
    /\ budget = Faults

\* What a task does by itself.
TaskStep(s) ==
    \/ Verify(s) \/ Load(s) \/ StartNode(s) \/ NextNode(s) \/ FinishNode(s)
    \/ CompleteStep(s) \/ CompleteLast(s) \/ CompletionRejected(s)
    \/ ConvergeRetry(s) \/ ConvergeFail(s) \/ ConvergeLost(s)

HeartbeatStep(s) == HeartbeatRenews(s) \/ HeartbeatSeesTerminal(s) \/ HeartbeatLost(s)

Next ==
    \/ \E s \in Slots :
          \/ \E i \in StepIds : Claim(s, i)
          \/ TaskStep(s)
          \/ HeartbeatStep(s)
          \/ RetryNode(s)
          \/ ProbeCommit(s)
          \/ \E kind \in Raised : NodeFails(s, kind)
          \/ HeartbeatDies(s)
          \/ Crash(s)
    \/ \E i \in StepIds : Recover(i)
    \/ CancelLoad
    \/ CancelApply
    \/ Tick

Spec == Init /\ [][Next]_vars

\* The worker and scheduler loops poll for ever and the database serves every
\* statement; nothing is assumed of faults, operators or cancel requests.
Fairness ==
    /\ \A s \in Slots : /\ WF_vars(\E i \in StepIds : Claim(s, i))
                        /\ WF_vars(TaskStep(s))
                        /\ WF_vars(HeartbeatStep(s))
    /\ WF_vars(\E i \in StepIds : Recover(i))
    /\ WF_vars(Tick)

FairSpec == Spec /\ Fairness

-----------------------------------------------------------------------------
(* Type invariant. *)

TypeOK ==
    /\ ex \in ExecutionRows
    /\ fr \in [StepIds -> FrontierRows]
    /\ node \in [StepIds -> NodeStates]
    /\ ckpt \in Seq(StepIds)
    /\ lock \in Slots \cup {NoSlot}
    /\ pc \in [Slots -> Phases]
    /\ job \in [Slots -> [step : StepIds, attempt : Nat]]
    /\ cache \in [Slots -> ExecutionRows]
    /\ age \in [Slots -> 0..MaxRun]
    /\ hb \in [Slots -> {"off", "due", "asleep"}]
    /\ hbAge \in [Slots -> 0..MaxRun]
    /\ req \in [pc : {"idle", "loaded"}, row : ExecutionRows]
    /\ budget \in [FaultKinds -> Nat]

-----------------------------------------------------------------------------
(* Safety. *)

(* Frontiers complete in the planner's order, each exactly once, and the    *)
(* completion checkpoints record exactly that: with n checkpoints, frontiers*)
(* 1..n are completed, n + 1 is the only one that may exist beyond them.    *)
ProgressIsSequential ==
    /\ \A k \in DOMAIN ckpt : ckpt[k] = k
    /\ \A i \in StepIds : /\ fr[i].status = "completed" <=> i <= Len(ckpt)
                          /\ i > Len(ckpt) + 1 => fr[i].status = "absent"

\* No fault of these kinds has happened yet.
Unused(kinds) == \A kind \in kinds : budget[kind] = Faults[kind]

(* The results of a frontier's nodes and its completion become durable      *)
(* together, whatever commits, rollbacks and crashes happen between them:   *)
(* no frontier completes with a node of it unfinished, and a node is        *)
(* completed before its frontier only if a circuit-breaker probe committed  *)
(* a frontier of several nodes half-way.                                    *)
NodeFactsMatchFrontiers ==
    \A i \in StepIds :
        /\ node[i] = "completed" <=> fr[i].status = "completed"
        /\ node[i] = "partly" => i \in Batches /\ ~Unused({"probe"})

(* No work can be consumed on behalf of an execution that completed or      *)
(* failed: both outcomes close every frontier of it.                        *)
ClosedExecutionHasNoActiveFrontier ==
    ex.status \in {"completed", "failed"} =>
        \A i \in StepIds : fr[i].status \notin Active

(* The two layers of ownership never drift apart: while the execution runs, *)
(* a running frontier has the execution's owner and the execution's lease,  *)
(* so neither can expire, or be taken over, without the other.              *)
LeaseLayersAgree ==
    \A i \in StepIds :
        ex.status = "running" /\ fr[i].status = "running" =>
            fr[i].owner = ex.owner /\ fr[i].lease = ex.lease

(* A fencing generation of a frontier is handed to one task only.           *)
GenerationsAreUnique ==
    \A s, t \in Slots :
        pc[s] # "idle" /\ pc[t] # "idle" /\ job[s] = job[t] => s = t

(* Until something is lost or fails, heartbeats keep both leases alive for  *)
(* as long as the nodes run, so no frontier is claimed a second time.       *)
ClaimIsKept == Unused(FaultKinds) => \A i \in StepIds : fr[i].attempt <= 1

(* Crashes, lost leases and takeovers alone never fail an execution, unless *)
(* a probe committed a node in the middle of its frontier.                  *)
OnlyNodesFail == Unused({"node", "probe"}) => ex.status # "failed"

(* Completed and failed frontiers are final: no late worker, retry or       *)
(* recovery ever changes one again.                                         *)
FrontiersAreFinal ==
    [][\A i \in StepIds : fr[i].status \in {"completed", "failed"} => fr'[i] = fr[i]]_vars

(* Only the task that made the latest claim of a frontier can decide it,    *)
(* even against another task of the same worker process.                    *)
OnlyLatestClaimDecides ==
    [][\A i \in StepIds :
         fr[i].status = "running" /\ fr'[i].status \in {"completed", "failed"} =>
            \E s \in Slots : /\ pc[s] \in Raised \cup {"ran"}
                             /\ job[s] = [step |-> i, attempt |-> fr[i].attempt]]_vars

-----------------------------------------------------------------------------
(* The promise, and progress.  Both are about executions nobody cancels.    *)

Undecided == ex.status \in {"pending", "running"}

Progress == INSTANCE WorkflowProgress
            WITH done <- Len(ckpt),
                 outcome <- IF Undecided THEN "open" ELSE ex.status

(* Claims, retries, recoveries and crashes implement the plain chain of     *)
(* exactly-once frontiers.                                                  *)
RefinesProgress == Progress!Spec

(* With the worker, scheduler and heartbeat loops running, every execution  *)
(* is decided: no crash, lost heartbeat or failed node leaves it hanging.   *)
EventuallyDecided == <>~Undecided

(* Frontier work is never stranded: what a lost worker was running is       *)
(* claimed again or decided.                                                *)
LostFrontiersReturn ==
    \A i \in StepIds :
        fr[i].status = "running" /\ (\A s \in Slots : job[s] # [step |-> i, attempt |-> fr[i].attempt])
            ~> fr[i].status # "running" \/ \E s \in Slots : job[s] = [step |-> i, attempt |-> fr[i].attempt]

-----------------------------------------------------------------------------
(* What the repository's documents say and the code does not do.            *)

(* "A terminal execution cannot transition again": completed, failed and    *)
(* cancelled executions keep their status.                                  *)
TerminalExecutionIsFinal ==
    [][ex.status \in Terminal => ex'.status = ex.status]_vars

(* A lease that has expired is not brought back by the worker that lost it: *)
(* a running frontier becomes leased again only under a new generation.     *)
ExpiredLeaseIsNotRevived ==
    [][\A i \in StepIds :
         fr[i].status = "running" /\ Expired(fr[i].lease) /\ ~Expired(fr'[i].lease) =>
            fr'[i].attempt > fr[i].attempt]_vars

(* An expired lease does not entitle its worker to commit: a frontier       *)
(* completes only while its lease is live.                                  *)
CompletionNeedsLiveLease ==
    [][\A i \in StepIds :
         fr[i].status = "running" /\ fr'[i].status = "completed" => ~Expired(fr[i].lease)]_vars

(* A worker that crashes does not fail the execution: whoever takes over    *)
(* brings the node it left running back to a startable state.               *)
CrashDoesNotFailExecution == Unused({"node"}) => ex.status # "failed"

(* A heartbeat that meets a transient database error retries: its task keeps*)
(* its frontier.                                                            *)
ClaimSurvivesDatabaseErrors ==
    Unused({"crash", "node"}) => \A i \in StepIds : fr[i].attempt <= 1
=============================================================================
