--------------------------- MODULE AgentDelegation ---------------------------
(***************************************************************************)
(* Delegations of one workflow execution to other agents                   *)
(* (services/agent_delegation and the delegation path of                   *)
(* services/workflow_worker).                                              *)
(*                                                                         *)
(* A worker claims a pending delegation, which creates a worker execution  *)
(* with one frontier, and activates that frontier in a second transaction. *)
(* The run reads the execution into its session, locks the row with the    *)
(* first node transition and holds the lock until the execution ends,      *)
(* unless the circuit breaker makes the node's call a probe: that commits  *)
(* the running node and lets the lock go for the time of the call.  The    *)
(* delegation is ended afterwards, from the execution's status, in a       *)
(* session of its own.  A crash between any two of these transactions      *)
(* leaves them to the recovery scan and to the next worker.                *)
(*                                                                         *)
(* Leases and timeouts are the ticks they have left.  One worker is one    *)
(* process with one task, since worker_owner names the process.            *)
(***************************************************************************)
EXTENDS Integers, FiniteSets

CONSTANTS
    Delegations,      \* delegation keys of the source execution
    Workers,
    NoWorker,         \* SQL NULL in a worker_owner column
    MaxActive,        \* max_active_delegations
    Timeout,          \* timeout_seconds, in ticks
    WorkflowTimeout,  \* timeout of the runtime itself, in ticks
    LeaseTime,        \* lease_seconds, in ticks
    AttemptBound,     \* bound: claims of one frontier
    Faults            \* the faults a run injects, each once

FaultKinds == {"crash", "crash_late", "stall", "cancel_execution", "republish", "probe"}

ASSUME WorkersAssumption == NoWorker \notin Workers /\ Delegations # {}
ASSUME LimitsAssumption == {MaxActive, Timeout, WorkflowTimeout, LeaseTime, AttemptBound}
                             \subseteq Nat \ {0}
ASSUME FaultsAssumption == Faults \subseteq FaultKinds

VARIABLES
    source,      \* the source execution: "running" or "ended"
    published,   \* the target version is still the published one
    delegation,  \* agent_delegations rows
    execution,   \* the worker executions the delegations are bound to
    frontier,    \* their frontiers
    probed,      \* generation of the frontier whose probe left the node running (0: none)
    job,         \* what each worker's task does
    cancelling,  \* which row an operator's request read as still open
    faults       \* faults still to come

vars == <<source, published, delegation, execution, frontier, probed, job, cancelling, faults>>

Ended == {"completed", "failed", "timed_out", "cancelled"}
Closed == {"completed", "failed", "cancelled"}    \* terminal execution states
Live(row) == row.lease > 0
Longer(a, b) == IF a > b THEN a ELSE b
Shorter(a, b) == IF a < b THEN a ELSE b

DelegationRows == [status : {"absent", "pending", "running"} \cup Ended, timer : 0..Timeout]
ExecutionRows == [status : {"absent", "running"} \cup Closed, owner : Workers \cup {NoWorker},
                  lease : 0..Longer(LeaseTime, Timeout), attempt : 0..AttemptBound + 1]
FrontierRows == [status : {"absent", "pending", "running", "retry_wait", "completed", "failed"},
                 owner : Workers \cup {NoWorker}, lease : 0..LeaseTime,
                 attempt : 0..AttemptBound + 1]
Phases == {"idle", "claimed", "held", "entered", "loaded", "running", "probing",
           "finalize", "close", "dead"}
Outcomes == {"completed", "failed", "timed_out"}

\* A task: its delegation, the generation of the frontier it holds, and its session's
\* copy of the execution (the generation, and the lease as it was when loaded).
Jobs == [pc : Phases, d : Delegations, attempt : 0..AttemptBound + 1,
         copy : 0..AttemptBound + 1, copyLease : 0..Longer(LeaseTime, Timeout),
         deadline : 0..Longer(WorkflowTimeout, Timeout), bound : BOOLEAN,
         outcome : Outcomes, slow : BOOLEAN]

NoTask == [pc |-> "idle", d |-> CHOOSE d \in Delegations : TRUE, attempt |-> 0, copy |-> 0,
           copyLease |-> 0, deadline |-> 0, bound |-> FALSE, outcome |-> "failed",
           slow |-> FALSE]

Init ==
    /\ source = "running"
    /\ published = TRUE
    /\ delegation = [d \in Delegations |-> [status |-> "absent", timer |-> 0]]
    /\ execution = [d \in Delegations |->
                      [status |-> "absent", owner |-> NoWorker, lease |-> 0, attempt |-> 0]]
    /\ frontier = [d \in Delegations |->
                     [status |-> "absent", owner |-> NoWorker, lease |-> 0, attempt |-> 0]]
    /\ probed = [d \in Delegations |-> 0]
    /\ job = [w \in Workers |-> NoTask]
    /\ cancelling = [d \in Delegations |-> "nothing"]
    /\ faults = Faults

Unlocked_Always(d) == TRUE

\* The row lock of the worker execution is held from the first node transition to
\* the end of the run, but for the call of a probe.
Unlocked(d) == ~\E w \in Workers : job[w].pc = "running" /\ job[w].d = d

At(w, phase) == job[w].pc = phase
Goto(w, phase) == job' = [job EXCEPT ![w].pc = phase]
EndTask(w) == job' = [job EXCEPT ![w] = NoTask]

-----------------------------------------------------------------------------
(* The API. *)

CountActive == Cardinality({d \in Delegations : delegation[d].status \in {"pending", "running"}})

\* The target is the version its agent has published.
TargetServed == published

\* Locks the source execution, so that counting and inserting are one step.
Create(d) ==
    /\ source = "running"
    /\ TargetServed
    /\ delegation[d].status = "absent"
    /\ CountActive < MaxActive
    /\ delegation' = [delegation EXCEPT ![d] = [status |-> "pending", timer |-> Timeout]]
    /\ UNCHANGED <<source, published, execution, frontier, probed, job, cancelling, faults>>

SourceEnds ==
    /\ source = "running"
    /\ source' = "ended"
    /\ UNCHANGED <<published, delegation, execution, frontier, probed, job, cancelling, faults>>

\* Cancelling reads the row without a lock ...
ReadToCancel(d) ==
    /\ cancelling[d] = "nothing"
    /\ delegation[d].status \in {"pending", "running"}
    /\ cancelling' = [cancelling EXCEPT ![d] = "delegation"]
    /\ UNCHANGED <<source, published, delegation, execution, frontier, probed, job, faults>>

\* ... and writes the status over whatever the row holds by then.
Cancel(d) ==
    /\ cancelling[d] = "delegation"
    /\ delegation' = [delegation EXCEPT ![d].status = "cancelled"]
    /\ cancelling' = [cancelling EXCEPT ![d] = "nothing"]
    /\ UNCHANGED <<source, published, execution, frontier, probed, job, faults>>

\* An operator cancels the worker execution itself: the same, but the write waits for
\* the row lock (and then still decides on what was read).
ReadToCancelExecution(d) ==
    /\ "cancel_execution" \in faults
    /\ cancelling[d] = "nothing"
    /\ execution[d].status = "running"
    /\ cancelling' = [cancelling EXCEPT ![d] = "execution"]
    /\ faults' = faults \ {"cancel_execution"}
    /\ UNCHANGED <<source, published, delegation, execution, frontier, probed, job>>

Closing(row, status) == [row EXCEPT !.status = status, !.owner = NoWorker, !.lease = 0]

CancelExecution(d) ==
    /\ cancelling[d] = "execution"
    /\ Unlocked(d)
    /\ execution' = [execution EXCEPT ![d] = Closing(@, "cancelled")]
    /\ cancelling' = [cancelling EXCEPT ![d] = "nothing"]
    /\ UNCHANGED <<source, published, delegation, frontier, probed, job, faults>>

\* The target agent publishes another version.
Republish ==
    /\ "republish" \in faults
    /\ published' = FALSE
    /\ faults' = faults \ {"republish"}
    /\ UNCHANGED <<source, delegation, execution, frontier, probed, job, cancelling>>

-----------------------------------------------------------------------------
(* Claiming. *)

TimeoutDue(d) == delegation[d].timer = 0

\* Only a pending delegation in time and of a live source; it becomes running, bound
\* to a running execution whose lease lasts as long as the delegation may.
ClaimDelegation(w, d) ==
    /\ At(w, "idle")
    /\ delegation[d].status = "pending"
    /\ ~TimeoutDue(d)
    /\ source = "running"
    /\ delegation' = [delegation EXCEPT ![d].status = "running"]
    /\ execution' = [execution EXCEPT ![d] =
                       [status |-> "running", owner |-> w, lease |-> Timeout, attempt |-> 1]]
    /\ frontier' = [frontier EXCEPT ![d].status = "pending"]
    /\ job' = [job EXCEPT ![w].pc = "claimed", ![w].d = d]
    /\ UNCHANGED <<source, published, probed, cancelling, faults>>

HeldFrontier(w, row) == [status |-> "running", owner |-> w, lease |-> LeaseTime,
                         attempt |-> row.attempt + 1]

\* The second transaction takes the frontier if it is still unclaimed.
Activate(w) == LET d == job[w].d IN
    /\ At(w, "claimed")
    /\ IF frontier[d].status \in {"pending", "retry_wait"}
       THEN /\ frontier' = [frontier EXCEPT ![d] = HeldFrontier(w, @)]
            /\ job' = [job EXCEPT ![w].pc = "held", ![w].attempt = frontier[d].attempt + 1]
       ELSE EndTask(w) /\ UNCHANGED frontier
    /\ UNCHANGED <<source, published, delegation, execution, probed, cancelling, faults>>

Available_NoTakeover(w, d) ==
    /\ execution[d].status = "running"
    /\ execution[d].owner = w
    /\ Unlocked(d)

\* The worker execution is the worker's own or its lease has run out; rows somebody
\* has locked are skipped.
Available(w, d) ==
    /\ execution[d].status = "running"
    /\ execution[d].owner = w \/ ~Live(execution[d])
    /\ Unlocked(d)

\* The ordinary claim of a frontier, which also picks up what a dead worker left.
ClaimFrontier(w, d) ==
    /\ At(w, "idle")
    /\ frontier[d].status \in {"pending", "retry_wait"}
    /\ frontier[d].attempt < AttemptBound
    /\ Available(w, d)
    /\ execution' = [execution EXCEPT ![d] =
                       [status |-> "running", owner |-> w, lease |-> LeaseTime,
                        attempt |-> IF @.owner = w THEN @.attempt ELSE @.attempt + 1]]
    /\ frontier' = [frontier EXCEPT ![d] = HeldFrontier(w, @)]
    /\ job' = [job EXCEPT ![w].pc = "held", ![w].d = d, ![w].attempt = frontier[d].attempt + 1]
    /\ UNCHANGED <<source, published, delegation, probed, cancelling, faults>>

HoldsFrontier(w, d) == /\ frontier[d].status = "running"
                       /\ frontier[d].owner = w
                       /\ frontier[d].attempt = job[w].attempt
                       /\ Live(frontier[d])
HoldsExecution(w, d) == /\ execution[d].status = "running"
                        /\ execution[d].owner = w
                        /\ Live(execution[d])

\* Both rows are still this worker's before anything runs; the heartbeat starts.
VerifyOwnership(w) == LET d == job[w].d IN
    /\ At(w, "held")
    /\ IF HoldsFrontier(w, d) /\ HoldsExecution(w, d)
       THEN Goto(w, "entered")
       ELSE EndTask(w)
    /\ UNCHANGED <<source, published, delegation, execution, frontier, probed, cancelling, faults>>

-----------------------------------------------------------------------------
(* The run. *)

\* AgentDelegationRuntimeBridge: the work is the delegation's, its target is served.
Bridged(d) == delegation[d].status = "running" /\ published

\* The session's copy of the execution, and the nearer of the two time limits.
\* Refused: a delegation that is not running, a target no longer published; then the
\* task only gets to close its frontier.
Load(w) == LET d == job[w].d IN
    /\ At(w, "entered")
    /\ IF /\ execution[d].status = "running" /\ execution[d].owner = w
          /\ Bridged(d)
       THEN job' = [job EXCEPT ![w].pc = "loaded",
                               ![w].copy = execution[d].attempt,
                               ![w].copyLease = execution[d].lease,
                               ![w].deadline = Shorter(delegation[d].timer, WorkflowTimeout),
                               ![w].bound = delegation[d].timer <= WorkflowTimeout]
       ELSE Goto(w, "close")
    /\ UNCHANGED <<source, published, delegation, execution, frontier, probed, cancelling, faults>>

\* A heartbeat renews both leases in one transaction; it waits for the row lock, so it
\* gets through only while no run has it.
Heartbeat(w) == LET d == job[w].d IN
    /\ job[w].pc \in {"entered", "loaded", "probing"}
    /\ Unlocked(d)
    /\ HoldsExecution(w, d) /\ HoldsFrontier(w, d)
    /\ execution' = [execution EXCEPT ![d].lease = LeaseTime]
    /\ frontier' = [frontier EXCEPT ![d].lease = LeaseTime]
    /\ UNCHANGED <<source, published, delegation, probed, job, cancelling, faults>>

\* The frontier's heartbeat finds an open execution it does not hold: it cancels the
\* task, and the run with it.
HeartbeatCancels(w) == LET d == job[w].d IN
    /\ job[w].pc \in {"entered", "loaded", "probing"}
    /\ Unlocked(d)
    /\ execution[d].status = "running"
    /\ ~(HoldsExecution(w, d) /\ HoldsFrontier(w, d))
    /\ Goto(w, "close")
    /\ UNCHANGED <<source, published, delegation, execution, frontier, probed, cancelling, faults>>

\* The lease guard stops the run, and looks at the execution once more: one that has
\* completed or failed is still reported, any other is left alone.
EndedMeanwhile(d) == execution[d].status \in {"completed", "failed"}
LeaseLost(w) == LET d == job[w].d IN
    /\ job[w].pc \in {"loaded", "probing"}
    /\ Unlocked(d)
    /\ ~HoldsExecution(w, d)
    /\ IF EndedMeanwhile(d)
       THEN job' = [job EXCEPT ![w].pc = "finalize", ![w].outcome = execution[d].status]
       ELSE Goto(w, "close")
    /\ UNCHANGED <<source, published, delegation, execution, frontier, probed, cancelling, faults>>

\* The node transition locks the execution (again, after a probe's call); what it then
\* compares with the session's copy is that copy.
StartNode(w) ==
    /\ job[w].pc \in {"loaded", "probing"}
    /\ Unlocked(job[w].d)
    /\ Goto(w, "running")
    /\ UNCHANGED <<source, published, delegation, execution, frontier, probed, cancelling, faults>>

\* Ending the execution ends its frontier, if that is the run's own and of the same
\* generation.  A frontier that is no longer active is no obstacle.
FrontierActive(d) == frontier[d].status \in {"pending", "retry_wait", "running"}
MayTerminalize(w, d) ==
    FrontierActive(d) => HoldsFrontier(w, d) /\ frontier[d].attempt = job[w].copy

Terminalize(w, d, status) ==
    /\ execution' = [execution EXCEPT ![d] = Closing(@, status)]
    /\ frontier' = [frontier EXCEPT ![d] = IF FrontierActive(d) THEN Closing(@, status) ELSE @]

Report(w, outcome) == job' = [job EXCEPT ![w].pc = "finalize", ![w].outcome = outcome]

\* Once the delegation's own time limit is reached nothing else ends the run.
InTime(w) == job[w].bound => job[w].deadline > 0

\* What a run makes of the node's row: left running by an earlier run it is neither
\* left out, as completed, nor retried, as failed, but started, which is a conflict.
NodeAdmits(w) == probed[job[w].d] \in {0, job[w].attempt}

\* The circuit breaker lets the node's call through as a probe of its half-open
\* circuit and commits the session before it: the node is running for good.
RunProbes(w) ==
    /\ "probe" \in faults
    /\ At(w, "running")
    /\ NodeAdmits(w)
    /\ job[w].deadline > 0
    /\ probed' = [probed EXCEPT ![job[w].d] = job[w].attempt]
    /\ Goto(w, "probing")
    /\ faults' = faults \ {"probe"}
    /\ UNCHANGED <<source, published, delegation, execution, frontier, cancelling>>

\* The node's checkpoint still compares the lease of the session's copy.
RunCompletes(w) == LET d == job[w].d IN
    /\ At(w, "running")
    /\ NodeAdmits(w)
    /\ job[w].deadline > 0
    /\ job[w].copyLease > 0
    /\ MayTerminalize(w, d)
    /\ Terminalize(w, d, "completed")
    /\ Report(w, "completed")
    /\ UNCHANGED <<source, published, delegation, probed, cancelling, faults>>

\* The agent, the circuit breaker, the checkpoint or the runtime's own time limit
\* raises, and the handler fails the execution.
RunFails(w) == LET d == job[w].d IN
    /\ At(w, "running")
    /\ InTime(w)
    /\ MayTerminalize(w, d)
    /\ Terminalize(w, d, "failed")
    /\ Report(w, "failed")
    /\ UNCHANGED <<source, published, delegation, probed, cancelling, faults>>

\* Neither ending is accepted: the conflict leaves the handler as well, nothing is
\* committed and nothing reported.
RunRejected(w) ==
    /\ At(w, "running")
    /\ InTime(w)
    /\ ~MayTerminalize(w, job[w].d)
    /\ Goto(w, "close")
    /\ UNCHANGED <<source, published, delegation, execution, frontier, probed, cancelling, faults>>

RunTimesOut_Leaving(w) ==
    /\ At(w, "running")
    /\ job[w].bound /\ job[w].deadline = 0
    /\ Report(w, "timed_out")
    /\ UNCHANGED <<source, published, delegation, execution, frontier, probed, cancelling, faults>>

\* The delegation's own time limit cancels the execution, whatever its frontier is.
RunTimesOut(w) == LET d == job[w].d IN
    /\ At(w, "running")
    /\ job[w].bound /\ job[w].deadline = 0
    /\ execution' = [execution EXCEPT ![d] = Closing(@, "cancelled")]
    /\ Report(w, "timed_out")
    /\ UNCHANGED <<source, published, delegation, frontier, probed, cancelling, faults>>

-----------------------------------------------------------------------------
(* After the run. *)

\* Under the delegation's row lock and for the worker execution it is bound to:
\* still running, and the execution is as the outcome needs it.  Otherwise a
\* conflict, and the row stays as it is.
LockAndEnd(d, status, admitted) ==
    delegation' = IF delegation[d].status = "running" /\ execution[d].status \in admitted
                  THEN [delegation EXCEPT ![d].status = status]
                  ELSE delegation

CompleteDelegation(d) == LockAndEnd(d, "completed", {"completed"})
FailDelegation(d) == LockAndEnd(d, "failed", {"failed"})
TimeoutDelegation(d) == LockAndEnd(d, "timed_out", {"pending", "running", "cancelled"})

\* A session of its own, after the run's.
Finalize(w) == LET d == job[w].d IN
    /\ At(w, "finalize")
    /\ \/ job[w].outcome = "completed" /\ CompleteDelegation(d)
       \/ job[w].outcome = "failed" /\ FailDelegation(d)
       \/ job[w].outcome = "timed_out" /\ TimeoutDelegation(d)
    /\ Goto(w, "close")
    /\ UNCHANGED <<source, published, execution, frontier, probed, cancelling, faults>>

\* The task's finally block ends a frontier the run has left running.
Close(w) == LET d == job[w].d IN
    /\ At(w, "close")
    /\ frontier' = IF execution[d].status \in Closed /\ HoldsFrontier(w, d)
                   THEN [frontier EXCEPT ![d] =
                           Closing(@, IF execution[d].status = "completed"
                                      THEN "completed" ELSE "failed")]
                   ELSE frontier
    /\ EndTask(w)
    /\ UNCHANGED <<source, published, delegation, execution, probed, cancelling, faults>>

\* The recovery scan: both leases have run out; rows somebody has locked are skipped.
Recover(d) ==
    /\ frontier[d].status = "running" /\ ~Live(frontier[d])
    /\ execution[d].status = "running" /\ ~Live(execution[d])
    /\ Unlocked(d)
    /\ frontier' = [frontier EXCEPT ![d].status = "retry_wait", ![d].owner = NoWorker,
                                    ![d].lease = 0]
    /\ UNCHANGED <<source, published, delegation, execution, probed, job, cancelling, faults>>

-----------------------------------------------------------------------------
(* Faults and time. *)

\* The process is gone; its transaction is rolled back.  "crash_late" hits between the
\* commit that ended the execution and the one that ends the delegation.
Crash(w) == \E kind \in {"crash", "crash_late"} \cap faults :
    /\ job[w].pc \notin {"idle", "dead"}
    /\ (kind = "crash_late") <=> At(w, "finalize")
    /\ job' = [job EXCEPT ![w] = [NoTask EXCEPT !.pc = "dead"]]
    /\ faults' = faults \ {kind}
    /\ UNCHANGED <<source, published, delegation, execution, frontier, probed, cancelling>>

\* The process stops answering for a while between two of its transactions.
Stall(w) ==
    /\ "stall" \in faults
    /\ job[w].pc \notin {"idle", "dead", "running"}
    /\ job' = [job EXCEPT ![w].slow = TRUE]
    /\ faults' = faults \ {"stall"}
    /\ UNCHANGED <<source, published, delegation, execution, frontier, probed, cancelling>>

Less(n) == IF n > 0 THEN n - 1 ELSE 0

\* A tick is longer than the steps of a task that is not stalled, other than its run,
\* and no run outlasts its deadline.  During a probe's call the heartbeat renews the
\* leases, or cancels the task, before they run out.
Prompt(w) == LET d == job[w].d IN
    \/ job[w].pc \in {"idle", "dead"}
    \/ job[w].slow
    \/ At(w, "running") /\ job[w].deadline > 0
    \/ /\ At(w, "probing") /\ job[w].deadline > 0
       /\ HoldsExecution(w, d) /\ HoldsFrontier(w, d)
       /\ Shorter(execution[d].lease, frontier[d].lease) > 1

Tick ==
    /\ \A w \in Workers : Prompt(w)
    /\ delegation' = [d \in Delegations |-> [delegation[d] EXCEPT !.timer = Less(@)]]
    /\ execution' = [d \in Delegations |-> [execution[d] EXCEPT !.lease = Less(@)]]
    /\ frontier' = [d \in Delegations |-> [frontier[d] EXCEPT !.lease = Less(@)]]
    /\ job' = [w \in Workers |-> [job[w] EXCEPT !.copyLease = Less(@), !.deadline = Less(@)]]
    /\ UNCHANGED <<source, published, probed, cancelling, faults>>

WorkerStep(w) ==
    \/ Activate(w) \/ VerifyOwnership(w) \/ Load(w) \/ StartNode(w)
    \/ RunCompletes(w) \/ RunFails(w) \/ RunRejected(w) \/ RunTimesOut(w)
    \/ Finalize(w) \/ Close(w)

\* What the router lets a client ask of a delegation.
DelegationRequests(d) == Create(d) \/ ReadToCancel(d) \/ Cancel(d)

Next ==
    \/ SourceEnds \/ Republish \/ Tick
    \/ \E d \in Delegations : \/ DelegationRequests(d)
                              \/ ReadToCancelExecution(d) \/ CancelExecution(d) \/ Recover(d)
    \/ \E w \in Workers : \/ WorkerStep(w) \/ Heartbeat(w) \/ HeartbeatCancels(w)
                          \/ LeaseLost(w) \/ RunProbes(w) \/ Crash(w) \/ Stall(w)
                          \/ \E d \in Delegations : ClaimDelegation(w, d) \/ ClaimFrontier(w, d)

Spec == Init /\ [][Next]_vars

\* Workers poll and go on, the recovery scan runs, an operator's request ends, time
\* passes.  What the environment may choose not to do has no fairness.
Fairness ==
    /\ WF_vars(Tick)
    /\ \A d \in Delegations : WF_vars(Recover(d)) /\ WF_vars(Cancel(d))
    /\ \A w \in Workers : /\ WF_vars(WorkerStep(w))
                          /\ WF_vars(\E d \in Delegations : ClaimFrontier(w, d))

FairSpec == Spec /\ Fairness

-----------------------------------------------------------------------------
(* Properties. *)

\* Every row and every task is well formed (the models and the locals of a run).
TypeOK ==
    /\ source \in {"running", "ended"} /\ published \in BOOLEAN
    /\ delegation \in [Delegations -> DelegationRows]
    /\ execution \in [Delegations -> ExecutionRows]
    /\ frontier \in [Delegations -> FrontierRows]
    /\ probed \in [Delegations -> 0..AttemptBound + 1]
    /\ job \in [Workers -> Jobs]
    /\ cancelling \in [Delegations -> {"nothing", "delegation", "execution"}]
    /\ faults \subseteq Faults

\* The faults of these kinds that a run injects have not happened so far.
Unused(kinds) == kinds \cap Faults \subseteq faults

\* No run lasts longer than the leases it starts with: a probe, which lets the row lock
\* go in the middle of a run, then still has them.
RunsFitTheLease == Shorter(Timeout, WorkflowTimeout) <= LeaseTime

\* Nothing makes a worker go on with work whose leases have run out.
Timely == Unused({"stall"}) /\ (RunsFitTheLease \/ Unused({"probe"}))

\* Two workers never have the same delegation's work in hand, from the moment they load
\* it to the report of its end, as long as they are timely: claims and recovery
\* wait for both leases and for the row lock of the run.
RunsAreExclusive ==
    Timely =>
      \A v, w \in Workers :
        /\ job[v].pc \in {"loaded", "running", "probing", "finalize"}
        /\ job[w].pc \in {"loaded", "running", "probing", "finalize"}
        /\ job[v].d = job[w].d
        => v = w

\* What a delegation says of its work is what the execution that did it says, as long
\* as the workers are timely and no operator touches that execution: completed and
\* failed ended alike, timed out with the execution cancelled.
OutcomesMatchTheWork ==
    Timely /\ Unused({"cancel_execution"}) =>
      \A d \in Delegations :
        /\ delegation[d].status \in {"completed", "failed"}
             => execution[d].status = delegation[d].status
        /\ delegation[d].status = "timed_out" => execution[d].status = "cancelled"

\* A delegation a worker has claimed ends, through a crash of the worker as well: the
\* frontier is recovered and the work repeated, timed out or, with a probe's node left
\* running, refused.  Not so if the crash hits
\* between the two final commits, if a worker stalls, if the worker execution is
\* cancelled or if the target is republished.
ClaimedDelegationsEnd ==
    []Unused(FaultKinds \ {"crash", "probe"}) =>
      \A d \in Delegations : delegation[d].status = "running" ~> delegation[d].status \in Ended

\* runtime_entry.py: a run that has lost its lease looks at the execution again, and
\* gives up reporting "only if the execution is still not terminal".
GivesUpOnlyOpenWork ==
    [][\A w \in Workers : At(w, "loaded") /\ job'[w].pc = "close"
                             => execution[job[w].d].status \notin Closed]_vars
=============================================================================
