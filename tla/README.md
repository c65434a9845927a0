# Formal specifications of the agent platform

TLA+ modules, TLC configurations and TLAPS proofs for the enterprise AI agent platform
(`src/backend/app`): durable workflow execution by several worker processes with leases, heartbeats,
retries and crashes, what starts an execution (schedules, triggers, webhooks, delegations, operators), what
resumes it, what it calls (models behind a circuit breaker), what it tells the outside (alerts, webhook
deliveries), and the services around it (knowledge, chats, registries, organizations), on one PostgreSQL database.

- [The system](#the-system): its components, their state, what is hard about them, what makes them correct
- [What is modelled](#what-is-modelled): modules and how they correspond to the code
- [What is checked](#what-is-checked): runs, bounds, fairness
- [What is proved](#what-is-proved)
- [Where code and documents disagree](#where-code-and-documents-disagree)
- [What is not modelled](#what-is-not-modelled)
- [Plan](#plan)

## Running

    tlc -config Frontier_progress.cfg MCDurableFrontier.tla
    tlapm DurableFrontier_proofs.tla

`PROJECT.json` lists every run with its module and cfg, the source lines behind every definition
("map"), the hazards of the code and the properties that cover them, and for every checked property a
mutant: a plausible bug in one definition that makes the property fail.

## The system

A backend service (FastAPI, SQLAlchemy async, PostgreSQL) accepts requests, a *scheduler* process fires
schedules and recovers what was lost, and *worker* processes execute. The processes share nothing but the
database; they coordinate by rows: status columns, `worker_owner` + `lease_expires_at` + an attempt
counter, `FOR UPDATE SKIP LOCKED`, unique constraints. Inside a process many asyncio tasks run
concurrently, each with a session of its own.

    trigger / schedule / API          scheduler                       worker processes
          |                               |                                |
          | create execution +            | recover expired frontiers,     | claim frontier -> verify ->
          | first frontier                | resume failed executions       | run nodes -> complete / converge
          v                               v                                v   (heartbeat task alongside)
    workflow_executions -- workflow_frontiers -- workflow_node_executions -- workflow_execution_checkpoints
                                                        |
                                 workflow_circuit_states (model calls) ; webhook deliveries ; delegations

### Components

| Component | State it keeps | Operations | What is hard | What makes it correct |
|---|---|---|---|---|
| Durable frontier execution (`services/workflow/frontier*.py`, `services/workflow_worker/frontier_runtime.py`, `durable_frontier_execution.py`) | a row per frontier: status, owner, lease, attempt, available_at; a task, its session and its heartbeat per claim | claim, verify, execute, complete, retry or fail, renew, recover | one long transaction next to short ones; two leases; tasks of one process share an owner; values captured before waits; crash anywhere | frontiers take effect in order and once; only the latest claim decides; both leases agree; nothing is stranded |
| Workflow execution state machine (`services/workflow/execution.py`) | execution and node rows | create, transition_node, retry, cancel, resume | rows are read, then locked, without a refresh | terminal is final; a closed execution has no work |
| Execution checkpoints (`services/workflow/checkpoint/`) | append-only rows with a sequence number | append, recover | the append is part of the completing transaction | one `frontier_completed` per frontier, in order |
| Circuit breaker (`runtime/workflow/circuit_breaker.py`) | a row per tenant and circuit key; a probe token per caller | before_call, record_success, record_failure | it commits in the middle of its caller's transaction; probes outlive their window; calls that never report | slots are not handed out twice; only successful windows close the circuit; failures open it; half-open ends |
| Workflow runtime (`runtime/workflow/`) | none of its own | execute_node with retries and time-outs, run | a time-out cancels what is between two writes | node rows follow the frontier's outcome |
| Legacy execution-level worker (`services/workflow_worker/runtime.py`, `runtime_entry.py`, `lease_guard.py`) | lease columns of the execution | claim, renew, recover orphans; today reached for delegations only | second owner of the same rows | one owner per generation |
| Scheduler (`services/workflow_scheduler/`) | schedule rows with a lease, slot rows | tick: list, lease, misfire policy, dispatch, bind, advance | commits in the middle of the tick; a tick longer than its lease | each slot dispatched once, none lost except by the misfire policy, the schedule moves on |
| Triggers (`services/trigger/`) | trigger rows, executions by key | invoke, invoke_scheduled, webhook, administration | concurrent identical requests; two transactions per request | one start per webhook event; an answer stands; every started execution ends |
| Agent delegation (`services/agent_delegation/`) | delegation rows, a worker generation | create, claim, activate, run, report, time out, cancel | decided in another transaction than its execution | one worker at a time; the outcome is that of the work; claimed ones end |
| Webhook delivery (`services/integration/webhook_delivery*.py`) | delivery rows: status, owner, lease, attempts | enqueue, claim, deliver, retry, dead-letter, replay | at-least-once posts; late answers; the owner is the only fence | attempts bounded; nothing stuck; answers belong to their attempt |
| Integration events, alert notification (`services/integration/`, `services/runtime_operations/alerting.py`) | event, alert, group and notification rows | evaluate, publish, route, record outcome, fall back | the outcome is recorded in a second transaction, without a lock | outbox and alert agree; dead letters fall back; outcomes arrive |
| Checkpoint recovery and resume (`services/workflow/checkpoint/recovery/`) | resume executions, lineage | scan, automatic and manual resume, bootstrap | resume of a resume, concurrent scans and requests | one resume per failure, with all of its work; failed work is resumed |
| DAG planner (`dag_planner.py`, `dag_contract.py`, `condition.py`) | none (pure) | contract, selection, joins, frontier | selection of branches interacts with joins | frontiers are the plan of the facts; plans accept the work |
| Operator actions (`services/runtime_operations/operator_governance.py`) | idempotency rows | run, cancel, retry, resume, invoke, batches | a failed action commits its key, or rolls everything back | an action is applied once |
| Organizations (`services/organization/`) | membership rows | add, change, remove, transfer | decisions on rows read without a lock | an owner remains |
| Knowledge (`services/knowledge/`) | versions, chunks, vectors | ingest, index, rebuild, search, delete | indexing commits batch by batch while chunks are replaced | a ready index is whole; indexing settles |
| Agents and chats (`services/agent/`, `api/v1/agents/chat.py`) | agent, session, execution, message rows | publish, archive, chat | three commits per chat, stale copies | archived stays archived; the conversation is accounted for |
| Workflow registry (`services/workflow/registry.py`) | workflow and version rows, the schedule's flag | publish, archive, delete, administration of triggers | stale copies | what breaks publishing is only a stale copy |
| Model providers (`services/model/`, `services/usage_accounting/`) | profiles, defaults, usage rows | resolve, invoke, fall back, bill; administration | accounting fails after the answer; unlocked defaults | answers are billed; second defaults are races |

The remaining components (tools, memory, diagnostics and query, frontend) are single calls, row-at-a-time
requests or read-only views; `PROJECT.json` lists them with the reason they are left out.

## What is modelled

| Module | Models | Run in |
|---|---|---|
| `DurableFrontier` | one execution driven through its frontiers by worker tasks, with heartbeat, scheduler recovery, an operator's cancel, crashes and time | `MCDurableFrontier` |
| `WorkflowProgress` | the abstract promise: a chain of frontiers, each taking effect once, until completed or failed | refined by `DurableFrontier` |
| `CircuitBreaker` | one circuit row under concurrent callers, including their transactions | `MCCircuitBreaker` |
| `ModelGovernance` | model profiles under overlapping requests, and one node that calls a model through them | `MCStartedWork` |
| `ScheduledTrigger` | one schedule, its slots, its executions, and the scheduler processes | `MCScheduledTrigger` |
| `AgentDelegation` | delegations of one execution, their worker executions and frontiers, workers, operators, time | `MCStartedWork` |
| `TriggerInvocation` | webhook, manual and governed requests for one trigger | `MCStartedWork` |
| `DagPlanner` | the DAG contract, branch selection, joins, frontiers: operators only | `ResumeLineage` |
| `ResumeLineage`, `OperatorActions` | the lineage of executions that resume each other; the operators' keyed actions on them | `MCResumeLineage` |
| `WebhookDelivery`, `AlertNotification` | delivery rows and the worker pool; alerts, events, notifications, and the outcomes that come back | `MCAlertNotification` |
| `KnowledgeIndex`, `AgentChat`, `WorkflowRegistry` | a document's index; an agent and its chats; a workflow, its versions and its trigger | `MCServices` |
| `Organization` | the memberships of one organization | directly |
| `*_proofs` | theorems about the module they are named for | |

`MCStartedWork` and `MCServices` put parts that share no row into one instance: a `scene` variable, chosen
at the start, says which of them moves in a behaviour. They are no composition, only one run for
questions of the same kind. What does interact is composed: `AlertNotification` extends
`WebhookDelivery`, whose tasks bring outcomes back to it; `OperatorActions` extends `ResumeLineage`, which extends
`DagPlanner`; `AgentDelegation` contains the frontier and the execution its delegation is bound to.

Conventions. A short transaction is one action. A request that reads rows without a lock and writes them
later is two, and keeps its copy: SQLAlchemy writes the columns that differ from what was *read*, so that a column whose
new value equals the copy's is left as it is (`Written`, `Changed`). A transaction that holds row
locks across calls is several actions between which nobody else gets the row. Definitions named with an underscore
(`Claim_...`) are mutants.

### DurableFrontier

State: `ex` is the `workflow_executions` row (status, `worker_owner`, lease, `worker_attempt`), `fr[i]` the
i-th `workflow_frontiers` row (`wait` is `available_at`), `node[i]` the committed status of the node row that
frontier i executes, `ckpt` the `frontier_completed` checkpoints by source frontier. `pc[s]`, `job[s]`,
`cache[s]`, `age[s]` belong to the task in slot `s`: where it is, the frontier and generation it claimed, the
execution row its session loaded, and how long ago it captured `now`. `hb[s]`, `hbAge[s]` are its heartbeat.
`lock` is the slot whose long transaction holds the execution row.

| Action | Code |
|---|---|
| `Claim` | `claim_one_frontier`: execution and frontier in one transaction, both SKIP LOCKED; take-over or renewal of the execution |
| `Verify` | `_verify_frontier_consumption_ownership`; success starts the heartbeat |
| `Load`, `StartNode` | `execute_frontier` reads the execution without a lock; `transition_node(running)` locks it |
| `ProbeCommit`, `RetryNode` | a circuit-breaker probe commits the shared session, and with it every node the frontier has completed before; the next attempt of the node takes the row back |
| `NextNode`, `FinishNode`, `NodeFails` | `transition_node(completed)` of a node with others behind it, and of the last; a node's failure, retryable or not |
| `CompleteStep`, `CompleteLast`, `CompletionRejected` | `complete_frontier_with_checkpoint` and `append_next_in_transaction`, committed as one transaction |
| `ConvergeRetry`, `ConvergeFail`, `ConvergeLost` | `_converge_failure`: retry with back-off, fail execution and active frontiers, or ownership lost |
| `HeartbeatRenews`, `HeartbeatSeesTerminal`, `HeartbeatLost`, `HeartbeatDies` | `_renew_frontier_forever` |
| `Recover` | `recover_expired_frontiers` of the scheduler |
| `CancelLoad`, `CancelApply` | the cancel route: load, then lock and decide on the loaded object |
| `Crash`, `Tick` | a lost task; time |

Granularity. The long transaction (load ... commit) is several actions, because
other transactions run in between; what it writes becomes visible when it commits, so its writes appear in the
completing action, and in `ProbeCommit`, which really commits. `LockedView` states the one ORM fact the model
depends on: a `SELECT ... FOR UPDATE` of a row that the session already holds returns the object with the
attributes it was loaded with (nothing in the code asks for `populate_existing` or expires it).

Time. `now` is read by every process from its own clock; clocks are taken to agree. Leases count down and a
captured `now` is its age, so `lease_expires_at > now` is `lease + age > 0`, and states do not grow with time.
`TickAllowed` says what the deployment is assumed to satisfy: a heartbeat that
can run does so before the next tick, and no phase of a task, and no lock wait, outlasts `MaxRun` ticks. With `MaxRun` below
`LeaseTime` heartbeats keep a lease alive; the two safety runs set it as high as the lease.

Nodes. A scheduled linear definition has one frontier that names all of its nodes, executed one after the other in one
session; a graph's frontiers run a node each. `Batches` are the frontiers of several nodes, of which `run` is the first and `rest`
any later one. `node[i]` sums their rows up: `partly` means that a probe's commit in a later node has made
earlier ones durable as completed while the frontier itself is not, and `completed` that all of them are.

Simplifications. The execution has a chain of frontiers, `NodesOf` gives their `node_ids`; several active
frontiers of one execution do not occur, and the conditions on siblings and overlaps are kept as in
the code. A crash empties a slot but the process identity
(`worker_owner`) is kept, which is the more permissive choice for safety: a restarted worker gets a fresh identity in the code,
which can claim no more than the old one.

### CircuitBreaker

State: `row` is the committed `workflow_circuit_states` row, `work` the row as its lock's holder sees it,
`lock` the transaction that holds it, `token[c]` the probe a caller carries in its ContextVar. `success_count` is
named `inflight`, which is what the code uses it for. `streak`, `recent` and `spoiled` are history variables that no action reads:
the failures in a row that were committed, the same as the holder sees them, and whether a probe of the window ended otherwise than well.

`FindNoRow`, `Insert`, `CallClosed`, `ProbeFirst`, `ProbeMore`, `Rejected` are the branches of `before_call`;
`RecordSuccess`, `RecordFailure` those methods; `CallUncounted` a call that ends without either of them;
`End` and `Abort` the end of the caller's transaction. `Durable` callers are durable frontiers, which roll back
after a failure, and their record of it with it; synchronous runs commit it with the failure of their execution. An ordinary call keeps the row locked from `before_call` to the end
of the transaction, which is why the model can treat it as one holder at a time. `lag` is the time a
statement waited for the row after its `now` was taken. The policy is constant, as it is for one circuit key
in the code (a different one is answered with 409).

### WorkflowProgress

`done` and `outcome` only. `DurableFrontier` implements it under `done <- Len(ckpt)` and
`outcome <- "open"` while the execution is pending or running, its status otherwise; for executions that nobody cancels.

### ScheduledTrigger

`trigger`, `schedule`, `slots`/`bound` and `executions` are rows; `tick[o]` is what one scheduler's tick has read. `ListDue`
takes the time and the trigger's configuration, both used by every later step; `ClaimLease` is the conditional UPDATE;
`DispatchSlot` commits slot, execution and frontier, together with the bindings written since the last commit; `CommitSlots`,
`AdvanceSchedule` end the tick. `FailTick` (release), `FailTickKeepingLease` and `Crash` interrupt it anywhere;
`SetStatus`, `Reconfigure`, `Delete` are the administration, which takes no lease. The lease is compared with the tick's
own time, so a tick that is late takes a lease that has lapsed by then, or renews one it has lost.

`published` is the version the workflow has published: none, a legacy one, or an executable one. A schedule is due as soon as its
trigger exists but is listed only when there is a published version with nodes; the dispatch reads it again and refuses a legacy version, or one that
is not the listed one any more (`Accepted`, `RefuseSlot`), which ends the tick like an error: the lease is given back and the next
tick starts from the same time. So a schedule whose workflow never gets an executable version is due for ever, and either never
listed or refused again and again; `Publish` is what ends it.

### AgentDelegation

Rows `delegation`, `execution` (the worker execution), `frontier`; `job[w]` is the task of one worker with the session's
copy of the execution. The transactions are: claim (creates the execution and its frontier), activation, verification, load, the
run from its first node transition (which locks the execution) to the end of the execution, the delegation's end in a session of its own, and the
close of the frontier. Every agent node asks the circuit breaker first, and when its call becomes a probe the breaker
commits the run's session (`RunProbes`): the row lock is gone for the time of the call, and the node stays `running`
(`probed`) for whoever takes over, whose start of it is a conflict (`NodeAdmits`). Heartbeat and lease guard act while no
run holds the lock; the operator's two cancels read without a lock and write later. Leases and time-outs are what is left of them. `Prompt` says that a step
that is no run takes less than a tick, unless the worker has stalled.

### TriggerInvocation

`keyed[k]` is the execution of an idempotency key, `operations[k]` the operator's own row, `call[c]` a request with
its copy. A webhook inserts with ON CONFLICT and commits, then runs in a second transaction; a manual call looks the key up, inserts, and when it
loses the insert goes on with what it finds; an operator claims, creates, runs and records in one transaction. Every run ends failed (`EndRun`, and see
[below](#where-code-and-documents-disagree)): a request has no `worker_owner`, and the checkpoint of the first node it completes is refused. `starts` counts
how often a key's execution was started and is read by no action.

### DagPlanner, ResumeLineage, OperatorActions

A definition is its nodes, their order, and edges with a mode; what a node outputs is abstracted to the edges its conditions select,
`taken`. `PlanFrontier` and `PlanFails` are `WorkflowDagResumePlanner.plan`, with the OR-join that any conditional edge
makes of a join, and the refusal of completed nodes whose predecessors are missing.

`ex[e]` joins an execution row with its nodes (`done`), its selected edges, its frontier, whether it has a
checkpoint, a trace link, a frontier at all. One run of a frontier is one step (`WorkerRuns`, `WorkerFails`):
its leases are the subject of `DurableFrontier`. `InlineStarts`, `InlineEnds` are the run a request makes itself, from the copy it
holds. `Stops` lists how it can end: the plan refuses its facts, its first node fails, or that node completes and its checkpoint is refused,
which fails the execution with that node completed and nothing a resume could start from; only a DAG resume that has nothing left to run is completed inline.
`Listed` is the scan's query, the failed executions without an owner in the order of `ended_at` (`before`), `ScanLimit` of them:
a failure that was handled stays failed and keeps its place. `ManualResume`, `Retry`, `Cancel` the routes; `Recovers`, `FindsIncomplete`, `Repairs` the recovery scan, whose repair of a
resume without frontier runs in a second transaction under the source's lock. `overrun` marks executions to which an inline run
wrote after somebody else had ended them, or beside their frontier. `OperatorActions` adds the key rows: which action claims a key, which only writes
its result, and what is committed when an action fails: a key's row marked failed commits the failed run with it, and so does the first
plan's decision when a trace links the execution to its source (`Decides`).

### WebhookDelivery, AlertNotification

A delivery `row` has status, attempts, owner, a lease that is live or lapsed, and whether its retry is due. `Claim`,
`MarkDelivered`, `MarkFailed`, `AnswerTooLate` are the worker's two transactions around a request outside any; `Holds` is the fence, the
owner alone, which the tasks of one process share (four by default). `Replay`, `Crash`, `Restart` are an operator and the process.

Above it, `EvaluateMatched` and `EvaluateRecovered` are one evaluation of an alert rule in one transaction: the alert row, the event (unique by
`fire_count`), the notification group, the chosen destination's delivery and notification. Recording an outcome is two steps,
because the notification is read without a lock; a dead letter plans the next provider, which excludes the one that just failed and no other: a provider
that has a delivery already, dead or not, answers with it, and only when there is no candidate left is the `notification.dlq` metric written (`dlq`). A group whose
window has passed still holds its unique key, so that its successor's insert, and the transaction with it, fails.

### KnowledgeIndex, AgentChat, WorkflowRegistry, ModelGovernance, Organization

`KnowledgeIndex`: a version's `chunks` come from a numbered cut; `Ingest` replaces them in one transaction and deletes their vectors;
indexing (`BeginIndex`, `LoadChunks`, `UpsertBatch` ..., `IndexReady`) is a transaction per step. Searches read in two statements.

`AgentChat`: `LoadAgent` and `Publish`, `Archive`, `CreateAgentVersion` are the two halves of a registry request; a chat commits the question with the
execution's start, the execution's end, and the answer.

`WorkflowRegistry`: the same for a workflow's versions and its trigger, whose schedule row is written in the same transaction.

`ModelGovernance`: `ReadDefaults` and `MakeDefault`, `CountProfiles` and `DeleteProvider` are the halves of managers' requests; a node resolves
candidates, calls at most two, and accounts each (`AccountAttempt`) in its own transaction, which commits or is lost with the
node.

`Organization`: every request reads role, status and the other owners without a lock, and writes in a later step.


## What is checked

Nine runs hold on the whole state space of their instance; three end in a violation, which is a disagreement of the code with its
documents (below).

| Run | Instance | Questions | States |
|---|---|---|---|
| `Frontier_two_workers` | 2 processes, 2 frontiers that share a node; at most one crash, dead heartbeat, failed node and mid-node probe commit; leases as long as the longest phase | is durable progress made in order and once (`ProgressIsSequential`); has a closed execution no work left (`ClosedExecutionHasNoActiveFrontier`); do the two lease layers agree when several faults meet (`LeaseLayersAgree`) | 2.1 M |
| `Frontier_one_worker` | 2 tasks of one process, same `worker_owner`, and the one frontier of a linear definition, with two nodes; a cancel, a lost task, a failed node, a probe's commit; leases expire within a phase | does the generation alone tell the tasks apart (`GenerationsAreUnique`, `OnlyLatestClaimDecides`); are node facts those of the frontier, but for what a probe commits half-way (`NodeFactsMatchFrontiers`) | 1.3 M |
| `Frontier_progress` | 2 processes, heartbeats on time; a crash, a dead heartbeat, a failed node, a probe's commit; fair | does it implement `WorkflowProgress` (`RefinesProgress`); is every execution decided (`EventuallyDecided`), every lost frontier picked up (`LostFrontiersReturn`) | 80 k |
| `Circuit_calls` | 3 callers, one of them a durable frontier; 2 probes per window, threshold 2; uncounted and lost calls; 4 window identities; fair | are probe slots accounted for (`ProbesAccounted`); does only a successful window close (`AllProbesSucceedBeforeClosing`); do failures open the circuit (`FailuresOpenTheCircuit`); does half-open end (`HalfOpenEnds`) | 39 k |
| `Schedule_dispatch` | 2 schedulers, intervals of 1 and 2, a lease of 1, catch-up limit 1, time to 3; a workflow with no, a legacy or an executable published version, and its publication; one edit and one fault (an error that releases the lease, one that does not, a crash); fair | is a slot run once (`SlotsRunOnce`), does catch-up leave no slot out (`CatchUpLeavesNoGap`), do due schedules of executable workflows move on (`DueSchedulesAdvance`) | 1.2 M |
| `Delegation_runs` | one delegation, 2 workers, two crashes, a stall, a cancelled execution, a target published again and a probe, at most three of them; three requests with one key, one lost; 3 profiles of 2 providers, 2 managers, 2 edits, 2 rounds; fair | is a delegation run by one worker at a time, told as it went, and ended (`RunsAreExclusive`, `OutcomesMatchTheWork`, `ClaimedDelegationsEnd`); is an event started once, does an answer stand, do invocations end (`EventsRunOnce`, `AnswersStand`, `InvocationsEnd`); are answers billed, are two defaults a race (`AnswersAreBilled`, `SecondDefaultsAreRaces`) | 886 k |
| `Resume_lineage` | 3 definitions of 3 nodes, 3 executions, 2 scanners, one operator key, 2 attempts; fair | is a failure resumed once (`OneResumePerFailure`) with all that was done (`ResumesCarryTheWork`); are frontiers those of the plan (`FrontiersFollowThePlan`); is failed work that a scan lists resumed (`FailedWorkIsResumed`) | 201 k |
| `Alert_deliveries` | 3 tasks, two of them in one process; 2 providers, 2 attempts; one alert that fires at most twice, or a general event; a fault; fair | does an answer settle its own attempt or that of a sibling task (`AnswersSettleTheirAttempt`); does the only dead letter of an event fall back (`DeadLettersFallBack`); do outbox, alert and notifications agree (`EventsTellTheAlert`, `OutcomesReachTheAlert`); is everything delivered or given up (`DeliveriesSettle`) | 196 k |
| `Services_overlap` | one document version with 2 cuts of 2 chunks, 2 index tasks, one loss; 2 chats, 2 registry requests on their agent, one loss; 3 workflow versions of which 2 can run, 2 requests; fair | is a quiet index whole, does indexing settle (`QuietIndexIsWhole`, `IndexingSettles`); is each chat accounted for and ended (`ConversationIsAccounted`, `ChatsEnd`); is everything that goes wrong in the registries the work of a stale copy (`OnlyDraftsComeBack`, `OnlyStaleCopiesBreakPublishing`, `SchedulesDriftOnlyByStaleCopies`) | 713 k |
| `Resume_join` | `Resume_lineage` with 2 executions and one scanner | violation of `PlansAcceptTheWork` | |
| `Organization_owner` | 3 users, 2 requests | violation of `AnOwnerRemains` | |
| `Alert_exhausted` | `Alert_deliveries` without faults, one firing to both providers | violation of `ExhaustedFallbackIsCounted` | |

Each property has a mutant in `PROJECT.json`, which the run finds.

### Bounds, and why they are enough

- *Frontiers: two slots, two frontiers.* The execution row serialises everything between frontiers of one execution, so what
  can go wrong happens between a task and the one that superseded it, and between a frontier and its
  successor. The theorems remove this bound for the safety properties. The frontier of two nodes is in the run of one process,
  where a probe's commit, a retry, a lost task and a takeover meet in it; the other two have frontiers of one node. `ClaimBound` (2, 3, 5) is at least the number of claims the
  faults of the run can cause; in `Frontier_progress` it is larger, so that it never stops a claim and liveness is not an
  artefact of it. Each fault happens at most once; what was never used is visible in `budget`, which `Unused` reads.
  With `MaxRun < LeaseTime` heartbeats are in time; with `MaxRun = LeaseTime` a task, or a
  blocked statement, outlives a lease. The back-off reaches its cap within the claims allowed.
- *Circuit: `Windows`* exceeds by one what the callers can still carry, so a fresh window always exists; no symmetry is used, since the
  run has liveness properties. Two probes per window are the fewest of which one can be lost and the other report. *`MaxLag`* 1 distinguishes a `now` taken before a wait from one
  taken after it.
- *Schedule.* Time to 3 holds three slots of interval 1, more than the catch-up limit, and a lease of 1 lapses within a tick. The
  edit changes the interval, so that slots of both grids meet; one fault at any step interrupts a tick, and another scheduler takes over.
  `LastVersion` 2 is the first executable version after a legacy one: a version can appear before or within a tick.
- *Delegation.* Lease, workflow's time-out and delegation's time-out differ (2, 2, 3), and each of the six faults happens at most once,
  three of them (`MaxFaults`) in one behaviour, in any combination. `AttemptBound` 4 leaves room for a claim after every fault. With one delegation the limit of active ones never
  binds; it is kept as a guard.
- *Requests.* Three calls for one key: the one that inserts, the one that loses the insert, the one that comes later.
- *Models.* Two profiles of one provider and one of another, the fewest in which a chain has a fallback and deleting a provider takes
  more than one profile. Two rounds reach the second call of a chain and a retry of the node.
- *Resume.* Three executions are a failure, its resume, and the resume of that; an attempt limit of 2 stops the third.
  Three nodes are the least with a join, a skipped node and a fork. One operator key, since keys do not meet. `ScanLimit` 2 keeps a third failure
  off the list, but with three executions nothing could be created for it: the run shows that what is listed is resumed, and that what is behind a full list
  is not rests on the query (below).
- *Alerts.* `MCNext` keeps the alert's events and general ones in different behaviours, and lets a behaviour have a second
  firing or a fault: two firings meet in the group and in the alert's row, a fault in a delivery. The first task works beside its sibling, or
  beside the other process (`TwoWork`), and of two idle siblings the first claims (`FirstClaims`): neither stops a delivery for good, since the first
  task may claim it. `BatchSize` 1 lets one delivery overtake another.
  The general event fans out to one provider, so that an event with several deliveries and one with a fallback both occur.
- *Services.* Two requests that overlap are what stale copies need. `CutSize` 2 splits a batch from the rest of its cut; `MaxMinor` 2
  lets an agent be published twice. One lost request each.

Deadlock is checked in the `Frontier_*` and `Circuit_*` runs, where time can always pass or somebody can act, and in
`Organization_owner`. The others are bounded in what is ever asked of them and may stop when everything is done.

### Fairness

- `DurableFrontier!Fairness`: weak fairness of claiming, of every task's next step, of its heartbeat, of the
  scheduler's recovery and of time. Worker and scheduler processes poll in endless loops
  (`entrypoints/worker.py`, `entrypoints/scheduler.py`), and the database serves each statement.
- `CircuitBreaker!Fairness`: strong fairness of a call's return and of the end of a transaction, since they wait for a row
  that others take and release; PostgreSQL queues waiters for a row. Calls return because models are called with
  time-outs; a call that times out returns without a report. Nobody is assumed to make another call, so `HalfOpenEnds` does not rely on new traffic. It says
  that every window is decided, with two exceptions that it names: a slot whose probe reports no more (`SlotLost`: a time-out, a lost task, a report rolled back with its
  transaction), and new probes that join the window for ever (`ProbesKeepComing`), of which the last to report always finds another one in flight.
- `ScheduledTrigger!Fairness`: time, and every next step of a scheduler's tick. A scheduler polls for ever. Nobody is assumed to publish.
- `MCStartedWork!MCFairness`: time, the delegation's recovery and time-out scan, a worker's claim and its next step, and the steps of a request
  that has arrived.
- `ResumeLineage!Fairness`: the recovery scan of each execution and the second transaction of its repair, by some scheduler. Workers' runs
  and inline runs are not assumed to make progress: `FailedWorkIsResumed` asks for the resume.
- `AlertNotification!Fairness`: the worker pool's steps, the passing of a delivery's lease or back-off, and the restart of a crashed worker.
- `KnowledgeFairness`, `ChatFairness`: the steps of an index task and of a chat that has begun.

Nothing is assumed of faults, of operators, of new requests, of nodes' own retries or of probes.

## What is proved

All proofs hold for every value of the constants the named assumptions allow: `StepsAssumption`, `TimeAssumption`,
`OwnerAssumption`, `NodesAssumption`, `FaultAssumption` (frontiers); `PolicyAssumption`, `CallerAssumption` (circuit);
`ScheduleAssumption`; `DeliveryAssumption`, `AlertAssumption`; `ChatBounds`, `KnowledgeBounds`, `RegistryBounds`;
`CallBounds`, `GovernanceBounds`; `WorkersAssumption`, `LimitsAssumption`, `FaultsAssumption` (delegations); `LineageAssumption`
(resumes: every definition satisfies the contract the code validates). They say that numbers are naturals of the right sign, that
functions have the right domains and that NULL is no owner; TLC evaluates them in every run.

| Module | Theorem | States |
|---|---|---|
| `DurableFrontier_proofs` | `TypeCorrect` | `TypeOK` |
| | `SequentialProgress`, `ClosedMeansClosed`, `DecidedFrontiersStay` | `ProgressIsSequential`, `ClosedExecutionHasNoActiveFrontier`, `FrontiersAreFinal` |
| | `LayersAgree`, `NodeFactsAreAtomic` | `LeaseLayersAgree`, `NodeFactsMatchFrontiers` |
| | `FencingIsUnique`, `LatestClaimDecides` | `GenerationsAreUnique`, `OnlyLatestClaimDecides` |
| | `ImplementsProgress` | with no cancel request, `Spec => Progress!Spec` |
| `CircuitBreaker_proofs` | `TypeCorrect`, `SlotsCoverProbes`, `ClosedByItsProbes`, `LateSuccessChangesNothing` | `TypeOK`, `ProbesAccounted`, `AllProbesSucceedBeforeClosing`, `StaleSuccessIsIgnored` |
| | `StreaksOpenTheCircuit` | `FailuresOpenTheCircuit`, synchronous and durable callers together |
| `ScheduledTrigger_proofs` | `SlotsNeverRunTwice`, `TypeCorrect`, `ScheduleNeverStepsBack` | `SlotsRunOnce`, `TypeOK`, `AdvancesFromTheRow` |
| | `CatchUpSkipsNothing` | `CatchUpLeavesNoGap` |
| `AgentDelegation_proofs` | `ExclusiveRuns`, `OutcomesAreTrue` | `RunsAreExclusive`, `OutcomesMatchTheWork` |
| `ResumeLineage_proofs` | `FailuresResumeOnce`, `ResumesAreWhole`, `PlansAreCurrent` | `OneResumePerFailure`, `ResumesCarryTheWork`, `FrontiersFollowThePlan` |
| | `EndedIsEnded` | `EndedExecutionsStay` |
| `AlertNotification_proofs` | `OutboxTellsTheAlert`, `SettledDeliveriesAreReported` | `EventsTellTheAlert`, `OutcomesReachTheAlert` |
| | `SettledDeliveriesStay`, `OldAnswersAreLate`, `NoDeadLetterIsDropped` | `SettledUntilReplayed`, `AnswersSettleTheirAttempt`, `DeadLettersFallBack` |
| `StartedWork_proofs` | `EventsNeverRunTwice`, `FailedAnswersStand` | `EventsRunOnce`, `AnswersStand` |
| | `SecondDefaultsNeedARace`, `AcceptedAnswersAreBilled` | `SecondDefaultsAreRaces`, `AnswersAreBilled` |
| `Services_proofs` | `PublishingBreaksByStaleCopiesOnly`, `SchedulesDriftByStaleCopiesOnly` | `OnlyStaleCopiesBreakPublishing`, `SchedulesDriftOnlyByStaleCopies` |
| | `ArchivedAgentsStay`, `ConversationsAreAccounted` | `OnlyDraftsComeBack`, `ConversationIsAccounted` |
| | `QuietIndexesAreWhole` | `QuietIndexIsWhole` |

The theorems about alerts and services are of the modules' own specifications, without the bounds and scenes of the MC modules.
`FrontiersAreFinal`, `StaleSuccessIsIgnored`, `AdvancesFromTheRow`, `SettledUntilReplayed`, `EndedExecutionsStay` and the type invariants are stated by
theorems only.

The arguments.

- *Frontiers.* `ProgressInv` joins the type invariant, the order of the frontiers, the closing of decided
  executions, and `DecidedRowsAreClear`: a decided frontier keeps neither lease nor back-off. The last part
  is what makes `FrontiersAreFinal` inductive, since time changes every lease that is still there. From the order follows
  `ActiveIsNext`: at most one frontier has work in it. With that, failing every active sibling closes
  exactly the frontier of the task that fails, and the two lease layers move together. `FenceInv` (no task
  is ahead of its frontier's generation, and a row that does not exist yet has none) gives unique generations.
  `LockInv` (who has run its nodes holds the row; whoever holds it works on a frontier whose nodes are not all completed) and `BatchInv` (only
  the probe's commit of a task that is past the first node of several leaves them half completed) say what node facts can be: those of the frontier, or `partly`
  after a probe. `LockInv` is where the row lock matters. The refinement adds that without a cancel request nothing cancels.
- *Circuit.* `ProbeInv` adds to the types: the two views of the row agree unless it is locked, both cover the
  probes in flight with slots, a caller carries a token only while it calls, and a holder that
  has closed the circuit without committing did so with no probe left. It needs both views because a
  rollback restores the committed one. `StreakInv` adds that the failures a closed circuit has counted include the
  streak, again in both views: the streak a commit leaves is the one its holder saw, and a rollback takes back the count and the streak alike. So a failure
  that a durable frontier rolls back is no part of what the theorem counts (see below).
- *Schedule.* `SlotInv`: an execution's key names its slot, and keys are unique because the insert does nothing when the key exists.
  `TickInv` says what a tick carries when it advances the schedule: a planned time that is not in its future, and slots none of which lies before it.
  `CatchUpInv`, of a trigger that has kept its first configuration and catches up: the schedule's next time is a multiple of the interval, every multiple before it has run,
  and the slots a tick has still to dispatch are the consecutive multiples before the time the row will have next. A tick whose lease
  was taken over carries old slots, all of which have run; the proof needs that it finds the row's time moved on.
- *Delegations.* `DelegationInv`. `WorkExists`: a delegation somebody runs has its execution and its frontier. `FaultsShow`: what a task has
  done by a fault (a probe, a stall) has used the fault up, which gives `Timely` its meaning. `TasksHold`: while workers are timely, a task whose execution
  is still running owns it, its frontier is taken, and the lease has not run down between claim and run, in a probe's call, or before the
  deadline of a run. Claims and recovery need a lapsed lease and an unlocked row, so that nobody else gets what a task holds: that is `RunsAreExclusive`,
  itself a part of the invariant. `ReportsHold` ties what a task is about to report to the execution as its run left it; the report is a transaction of
  its own, and only exclusive runs keep another task from ending the execution differently in between.
- *Resumes.* A step writes one row (`StepCases`), and nodes and edges of a row only grow (`Grows`). `Sourced`: who is resumed has ended, and
  stays so, so that whatever adds to its nodes overruns it. `OneResume`: no two executions have one source. `Unframed`: without a frontier row
  an execution that is open has done nothing, so that a repair that frames it copies the source's facts into nothing. An inline run adds its first node at most (`RunGrows`), by a request or by an operator. `RepairsHold`: a source is
  held by one scanner, and its resume has no frontier until that scanner gives it one; the lock of the source, not of the resume, is enough.
  With these `ResumesCarryTheWork` (for edges too: `Carries`) and `FrontiersFollowThePlan` are inductive. The proofs use nothing of what the planner
  computes: whoever writes the frontier and whoever loads the facts call it with the same two sets.
- *Alerts.* `LifeInv` ties the events in the outbox to the alert's firings and recoveries. `RowsMove` lists the seven ways a delivery row changes, so
  that every property of a row needs seven cases instead of one per action. `SettledInv`: a settled row has no owner and no lease, so that nobody's
  fence holds there. `AttemptInv`: of a row that a living process holds, some task of that process sends the latest attempt. It may be a sibling of the one that
  answers, which is all the fence can say. `FallInv`: a dead letter whose notification says so is counted in the dlq, or another provider has a delivery of
  its event; when it is the event's only dead one, that delivery is not known dead. Two dead letters can answer each other, which `Alert_exhausted` shows. `ReportInv`: a settled delivery whose notification is open
  has a task that still reports it, unless that task's report was lost with its process or overtaken, which `lost` records.
- *Requests.* `EventInv`: a webhook request that has inserted the event and not yet run it is the only one that does. `ToldInv`:
  a request told "failed" finds it so, or some other request still holds a pending copy. The copy stays, which makes the invariant inductive.
- *Models.* `ManagersInv`: a request that is idle holds nothing it has read. `BillsInv`: an answer that is on its way to the node
  has its usage row in the transaction that takes it there.
- *Services.* The registries' theorems are action properties over weak invariants (what a copy may say). `ConversationInv` lists the shapes the
  rows of a chat take between its three commits. `Covered`: while nothing was lost or refused, a version whose vectors are incomplete has an index task
  that still has to upsert what is missing, or to load the chunks again.

*Only model-checked*: the liveness properties (`EventuallyDecided`, `LostFrontiersReturn`, `HalfOpenEnds`, `DeliveriesSettle`,
`DueSchedulesAdvance`, `ClaimedDelegationsEnd`, `InvocationsEnd`, `FailedWorkIsResumed`, `IndexingSettles`, `ChatsEnd`), since the
prover does not reason about fairness and ENABLED. Every safety property of the passing runs is a theorem. The type invariants of `AgentDelegation` and
`ResumeLineage` are not: the first has the bounds of the runs in it, and the proofs use the types without bounds (`Shape`); those of the second use `Rows`, which
leaves out what the planner computes. TLC finds both to hold on the instances of the runs.


## Where code and documents disagree

With a run that ends in a short counterexample, and a finding in `PROJECT.json` with the quoted lines:

| Run | What happens |
|---|---|
| `Resume_join` | one conditional edge in a definition makes every join an OR-join for the planner; the next plan refuses the join that has run, because its unselected predecessor has not, and the execution fails with all of its selected nodes completed |
| `Organization_owner` | a change of a member who was no owner when it was read is written after an overlapping transfer, and demotes the only owner |
| `Alert_exhausted` | when both providers of a notification dead-letter, the second fallback excludes its own provider only, finds the first one's dead delivery and is recorded as routed to it; the exhaustion is never counted in the dlq |

One more, which is visible in a single run and needs no property: **a synchronous run with a node never completes.** `transition_node(completed)` appends
the node's checkpoint with the execution's `worker_owner` and `worker_attempt or 0` as the expected generation (`execution.py:387-394`). A request has no
owner, and `None` together with `0` is what `checkpoint/service.py:69-72` answers with 409 ("fencing 参数不完整"). The run commits the execution as failed with its
first node completed and without a checkpoint, so that no resume starts from it either. Webhooks, manual invocations, `run` of the API and of the operators
all take that way; only scheduled triggers, delegations and resumes with a frontier reach a worker. `TriggerInvocation`, `ResumeLineage` and `OperatorActions` model what the
code does. Tests that ask a running server for the opposite: `backend/tests/api_real/test_workflow_governance_api.py:138` and
`test_workflow_checkpoint_api.py:51` expect `completed`.

Found with a property that the modules still define and no run checks; it may be added to the cfg of the run named.

| Property | Run | What happens |
|---|---|---|
| `TerminalExecutionIsFinal` | `Frontier_one_worker` | `_lock_execution` does not refresh the loaded object, so a cancel request overtaken by the completion cancels a completed execution |
| `ExpiredLeaseIsNotRevived` | `Frontier_two_workers` | the heartbeat's `now` is older than its row lock, so it renews a lease that expired while it waited |
| `CompletionNeedsLiveLease` | `Frontier_one_worker` | completion compares leases with the `now` of the task's start and commits after the lease expired |
| `CrashDoesNotFailExecution` | `Frontier_progress` | a crash after a mid-node probe commit leaves a running node; the takeover gets 409 and fails the execution |
| `ClaimSurvivesDatabaseErrors` | `Frontier_progress` | one database error ends the heartbeat for good; a healthy task loses its frontier |
| `GivesUpOnlyOpenWork` | `Delegation_runs` | a run that has lost its lease and finds its execution cancelled reports nothing, although the execution is terminal |
| `FinalNotesStay` | `Alert_deliveries` | the notification is read without a lock, and an older overlapping "retrying" overwrites `delivered` or `dead_letter` |
| `PublishedIsServed` | `Services_overlap` | of two overlapping publishes the later one deprecates the version that the workflow names; launching it answers 409 from then on |
| `IndexingFailsAlone` | `Services_overlap` | an indexing error that is not the embedding provider's reaches the ingestion, which marks the ingested version as failed |
| `KeysKeepTheirResult` | `Resume_lineage` | a run or a cancel sent with a key that a retry or a resume claimed writes its own result over theirs |

Named as exceptions in properties that hold: a probe that times out, is lost or is rolled back never gives its slot back, and with all slots of a window
lost the circuit rejects for ever (`SlotLost` in `HalfOpenEnds`); probes that keep overlapping leave a circuit half open although every one of them
succeeds (`ProbesKeepComing`); a durable frontier rolls back the failure it counted with its transaction, so that their failures do not open the circuit
(`FailuresOpenTheCircuit` counts what was committed); a probe's commit makes nodes durable before their frontier (`NodeFactsMatchFrontiers`); an answer
settles the newer attempt of a sibling task (`AnswersSettleTheirAttempt`); a delivery whose last attempt died with its process is never settled (`DeliveriesSettle`);
a schedule whose workflow has no executable version is due for ever (`DueSchedulesAdvance`).

Known, without a property of their own: the recovery scan reads the 50 failed executions that ended first (`recovery.py:82-90`), and those it has handled
stay among them, so that a newer failure behind 50 old ones is never recovered automatically (`FailedWorkIsResumed` speaks of listed ones); the key of a notification leaves out the
`fire_count` that `PHASE_2_10_I_RUNTIME_NOTIFICATION_LIFECYCLE.md:43` lists, so that a second firing within a group's window has no notification of its own; a late failure of an old probe counts once the circuit is not half open
any more; a cancel decided on a copy without owner leaves a later owner in the row; completion does not compare the
execution's and the frontier's generations; a delegation or workflow time-out longer than the lease lets a run whose call is a probe
outlast its leases while no row lock protects it, and another worker takes the work over (`RunsFitTheLease` in `AgentDelegation`: the default run of
`DEFAULT_TIMEOUT_MS` = 30 s fits `DEFAULT_LEASE_SECONDS` = 60, the longest allowed, `MAX_TIMEOUT_MS` = 300 s, does not); a trigger disabled after the schedule was listed is still dispatched; a crash between a webhook's
commit and its run leaves a pending execution without frontier for ever; a call that times out has no usage record. The hazards in
`PROJECT.json` give the lines.

## What is not modelled

- Lock order *inside* short transactions: they are atomic here, and deadlocks between a heartbeat and a completion appear only as
  `Crash` (the victim's transaction is rolled back).
- Several active frontiers of one execution: the worker refuses a DAG's fork for good (`dag_executor.py:103`), so that they do not occur.
- A worker that claims an execution between the commit of an inline `run` and its `db.refresh`, which would lend the run the worker's owner; the commits of a
  circuit's probe within an inline run.
- Two circuits in one transaction: the commit of a probe of one also commits, and unlocks, what the transaction has written to the row of the other.
- Node payloads, checksums, traces, audit records, metrics, scores, costs: data that no decision here depends on.
- Node kinds other than model calls and delegations; tools; the retrieval inside a chat.
- Delegation budgets, depth and tenant checks; the recovery scan's cool-down; batch replay of deliveries.
- Policy selection and escalation of alerts, consumer groups, `IntegrationEventDeliveryService` and the outbox's `claim_next`, which
  no shipped process calls; likewise `WorkflowDagFrontierProgressionService`, `dag_join`, `dag_runtime_sequence`, and the execution-level
  poll loop of `services/workflow_worker/runtime.py`.
- The execution and node transition routes, by which a client may write any status that the table of transitions allows.
- Authentication, secrets, address checks of webhook destinations.
- Clock differences between hosts.
- Read-only views and the user interface.

## Plan

What is left, in this order:

1. An abstract specification of what a delegation promises (one outcome, that of its work), and `AgentDelegation` as a refinement,
   from the lemmas `StatusMoves` and `ReportsHoldStep`.
2. `RowLocks`: the order in which claim, heartbeat, completion, convergence, cancel and recovery lock rows, and which of them can
   wait for each other. TLC only.
