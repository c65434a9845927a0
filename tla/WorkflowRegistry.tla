-------------------------- MODULE WorkflowRegistry --------------------------
(***************************************************************************)
(* One workflow, its versions and one scheduled trigger with its schedule  *)
(* row, under management requests that overlap: each loads the rows it     *)
(* works on without a lock (api/v1/workflows/router.py) and decides and    *)
(* writes by that copy (services/workflow/registry.py,                     *)
(* services/trigger/service.py).  Version numbers are unique by constraint:*)
(* a second request with the same number changes nothing.                  *)
(***************************************************************************)
EXTENDS Naturals, FiniteSets

CONSTANTS
    WorkflowVersions,   \* versions, as numbers from 1
    RunnableVersions,         \* those whose definition the runtime accepts
    Requests            \* slots for requests that overlap

ASSUME RegistryBounds == WorkflowVersions \subseteq Nat \ {0} /\ RunnableVersions \subseteq WorkflowVersions

VARIABLES
    workflow,       \* its row: status ("gone" when deleted), published version (0: none)
    versionStatus,  \* status of each version, "none" before it is created
    trigger,        \* status of the scheduled trigger, "none" when there is none
    schedule,       \* status of its schedule row
    request         \* the request in each slot and the copies it loaded

registryVars == <<workflow, versionStatus, trigger, schedule, request>>

NoRegistryRequest == [op |-> "none"]

\* WorkflowRegistry.create.
RegistryInit ==
    /\ workflow = [status |-> "draft", published |-> 0]
    /\ versionStatus = [v \in WorkflowVersions |-> "none"]
    /\ trigger = "none" /\ schedule = "none"
    /\ request = [r \in Requests |-> NoRegistryRequest]

Here == workflow.status # "gone"
Free(r) == request[r] = NoRegistryRequest
Release(r) == request' = [request EXCEPT ![r] = NoRegistryRequest]

-----------------------------------------------------------------------------
CreateWorkflowVersion(v) ==
    /\ Here /\ versionStatus[v] = "none"
    /\ \A u \in WorkflowVersions : u < v => versionStatus[u] # "none"
    /\ versionStatus' = [versionStatus EXCEPT ![v] = "draft"]
    /\ UNCHANGED <<workflow, trigger, schedule, request>>

LoadVersion(r, v) ==
    /\ Free(r) /\ Here /\ versionStatus[v] # "none"
    /\ request' = [request EXCEPT ![r] = [op |-> "publish", version |-> v, copy |-> workflow,
                                          seen |-> versionStatus[v]]]
    /\ UNCHANGED <<workflow, versionStatus, trigger, schedule>>

\* Only what differs from the copy is written.
Changed(copy, value, row) == IF copy = value THEN row ELSE value

MayPublish(q) ==
    /\ ~(q.copy.published = q.version /\ q.seen = "published")
    /\ q.seen \in {"draft", "published"}
    /\ q.version \in RunnableVersions

\* The version published before, as the copy knows it, is read once more.
\* Mutant: it keeps its status.
StatusesAfter_KeepPrevious(q) ==
    [versionStatus EXCEPT ![q.version] = Changed(q.seen, "published", @)]
StatusesAfter(q) ==
    [v \in WorkflowVersions |->
        IF v = q.version THEN Changed(q.seen, "published", versionStatus[v])
        ELSE IF v = q.copy.published /\ versionStatus[v] = "published" THEN "deprecated"
        ELSE versionStatus[v]]

\* A workflow deleted meanwhile has no row to write.
PublishVersion(r) ==
    LET q == request[r]
    IN /\ q.op = "publish" /\ Release(r)
       /\ IF Here /\ MayPublish(q)
          THEN /\ versionStatus' = StatusesAfter(q)
               /\ workflow' = [status |-> Changed(q.copy.status, "published", workflow.status),
                               published |-> Changed(q.copy.published, q.version, workflow.published)]
          ELSE UNCHANGED <<workflow, versionStatus>>
       /\ UNCHANGED <<trigger, schedule>>

LoadWorkflow(r) ==
    /\ Free(r) /\ Here
    /\ request' = [request EXCEPT ![r] = [op |-> "delete", copy |-> workflow]]
    /\ UNCHANGED <<workflow, versionStatus, trigger, schedule>>

\* Versions, triggers and schedules go with the workflow.
DeleteWorkflow(r) ==
    /\ request[r].op = "delete" /\ Release(r)
    /\ IF request[r].copy.status = "published"
       THEN UNCHANGED <<workflow, versionStatus, trigger, schedule>>
       ELSE /\ workflow' = [status |-> "gone", published |-> 0]
            /\ versionStatus' = [v \in WorkflowVersions |-> "none"]
            /\ trigger' = "none" /\ schedule' = "none"

-----------------------------------------------------------------------------
(* The trigger; its schedule row is written in the same transaction. *)
CreateTrigger ==
    /\ Here /\ trigger = "none"
    /\ trigger' = "enabled" /\ schedule' = "enabled"
    /\ UNCHANGED <<workflow, versionStatus, request>>

LoadTrigger(r) ==
    /\ Free(r) /\ trigger # "none"
    /\ request' = [request EXCEPT ![r] = [op |-> "trigger", seen |-> trigger]]
    /\ UNCHANGED <<workflow, versionStatus, trigger, schedule>>

\* An update without a status keeps the copy's; _sync_scheduler_state takes the
\* copy's status for the schedule whichever of the two it is.
\* Mutant: the schedule follows a status that was given only when it is "enabled".
SyncSchedulerState_EnableOnly(status) == IF status = "enabled" THEN "enabled" ELSE schedule
SyncSchedulerState(status) == status
UpdateTrigger(r, status) ==
    /\ request[r].op = "trigger" /\ Release(r)
    /\ IF trigger = "none" THEN UNCHANGED <<trigger, schedule>>
       ELSE /\ trigger' = Changed(request[r].seen, status, trigger)
            /\ schedule' = SyncSchedulerState(status)
    /\ UNCHANGED <<workflow, versionStatus>>

DeleteTrigger ==
    /\ trigger # "none"
    /\ trigger' = "none" /\ schedule' = "none"
    /\ UNCHANGED <<workflow, versionStatus, request>>

-----------------------------------------------------------------------------
\* What the router lets a client do to the workflow, its versions and its trigger.
WorkflowRequests(r) == LoadWorkflow(r) \/ DeleteWorkflow(r)

VersionRequests(r) ==
    \/ \E v \in WorkflowVersions : LoadVersion(r, v)
    \/ PublishVersion(r)

TriggerRequests(r) ==
    \/ LoadTrigger(r)
    \/ \E s \in {"enabled", "disabled"} : UpdateTrigger(r, s)

RegistryNext ==
    \/ \E r \in Requests : WorkflowRequests(r) \/ VersionRequests(r) \/ TriggerRequests(r)
    \/ \E v \in WorkflowVersions : CreateWorkflowVersion(v)
    \/ CreateTrigger \/ DeleteTrigger

RegistrySpec == RegistryInit /\ [][RegistryNext]_registryVars

-----------------------------------------------------------------------------
Published == {v \in WorkflowVersions : versionStatus[v] = "published"}

(* _get_published_version (services/trigger/service.py:193-201): a published
   workflow can be launched. *)
PublishedIsServed ==
    workflow.status = "published" => workflow.published \in Published \cap RunnableVersions

\* The published version, and no other, has that status.
OneIsPublished ==
    Published = IF workflow.status = "published" THEN {workflow.published} ELSE {}

\* What the request in slot r loaded is no longer so.
Stale(r) == \/ request[r].copy # workflow
            \/ request[r].op = "publish" /\ request[r].seen # versionStatus[request[r].version]

(* Publishing deprecates the version published before
   (tests/unit/test_workflow_publish_governance.py:34), and a published workflow
   is never deleted (registry.py:66): a second published version, a workflow
   whose version is not published, or the end of a published workflow comes only
   of a request that loaded its rows before another one wrote them. *)
OnlyStaleCopiesBreakPublishing ==
    [][(OneIsPublished /\ ~OneIsPublished') \/ (workflow.status = "published" /\ workflow'.status = "gone")
          => \E r \in Requests : /\ request[r].op \in {"publish", "delete"} /\ Free(r)'
                                 /\ Stale(r)]_registryVars

(* "The trigger and its one schedule stay within one transaction"
   (services/trigger/service.py:85): one of them is enabled and the other not
   only by a request that read the trigger before its status was changed. *)
SchedulesDriftOnlyByStaleCopies ==
    [][(trigger = schedule /\ trigger' # schedule')
          => \E r \in Requests : /\ request[r].op = "trigger" /\ Free(r)'
                                 /\ request[r].seen # trigger]_registryVars
=============================================================================
