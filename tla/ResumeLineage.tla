---------------------------- MODULE ResumeLineage ----------------------------
(***************************************************************************)
(* How a failed workflow execution goes on as another execution: the       *)
(* recovery scan (workflow_scheduler/recovery.py), the resume contract and *)
(* its bootstrap (checkpoint/recovery/automatic.py, resume_contract.py,    *)
(* resume_bootstrap.py), the manual resume, retry, run and cancel of the   *)
(* API (services/workflow/execution.py) and the two ways an execution      *)
(* runs: a worker that takes one durable frontier after the other          *)
(* (durable_frontier_execution.py) and the inline run of a request         *)
(* (runtime/workflow/runtime.py).                                          *)
(*                                                                         *)
(* One run of a frontier is one step here: leases, heartbeats and retries  *)
(* of a frontier are the subject of DurableFrontier. Executions are        *)
(* numbered in the order they are created.                                 *)
(***************************************************************************)
EXTENDS DagPlanner

CONSTANTS
  Definitions,      \* the workflow versions considered
  MaxExecutions,    \* bound: executions ever created
  MaxAttempts,      \* WorkflowExecutionRecoveryPolicy.max_attempts
  ScanLimit,        \* WorkflowRecoveryScheduler.scan_limit
  Scanner           \* recovery scan loops (scheduler processes)

ASSUME LineageAssumption ==
  /\ MaxExecutions \in Nat \ {0}
  /\ MaxAttempts \in Nat
  /\ ScanLimit \in Nat \ {0}
  /\ Definitions \subseteq Definition
  /\ \A d \in Definitions : Valid(d)

Execution == 1 .. MaxExecutions

None == 0

VARIABLES
  definition,   \* the workflow version of every execution (it never changes)
  ex,           \* the workflow_executions rows with their node and frontier rows
  before,       \* the failed executions that ended before each one (ended_at)
  inline,       \* executions a request is running
  repairs       \* scanner -> the source it holds while it repairs its resume

vars == <<definition, ex, before, inline, repairs>>

Ended == {"completed", "failed", "cancelled"}

Row ==
  [status: {"absent", "pending", "running"} \union Ended,
   kind: {"fresh", "resume", "retry"},
   source: Execution \union {None},   \* resume_of_execution_id
   done: SUBSET Node,                 \* completed node executions
   taken: SUBSET Edge,                \* edges their outputs select
   checkpoint: BOOLEAN,               \* a resumable checkpoint was appended
   frontier: SUBSET Node,             \* node ids of its active frontier row
   framed: BOOLEAN,                   \* a frontier row exists
   traced: BOOLEAN,                   \* a recovery trace is linked to it
   cause: {"none", "node", "plan", "stale", "fork", "checkpoint"},  \* what made it fail
   overrun: BOOLEAN]                  \* (history) written to after it had ended
                                      \* or beside its frontier

Absent == [status |-> "absent", kind |-> "fresh", source |-> None, done |-> {},
           taken |-> {}, checkpoint |-> FALSE, frontier |-> {}, framed |-> FALSE,
           traced |-> FALSE, cause |-> "none", overrun |-> FALSE]

Created == {e \in Execution : ex[e].status # "absent"}

Next1 == Cardinality(Created) + 1

Room == Next1 <= MaxExecutions

\* The completed nodes the runtime loads: its own and its resume source's.
Sources(e) == {e} \union ({ex[e].source} \ {None})

Done(e) == UNION {ex[x].done : x \in Sources(e)}

Taken(e) == UNION {ex[x].taken : x \in Sources(e)}

Failed == {e \in Execution : ex[e].status = "failed"}

\* ended_at of execution e is set anew when it ends, also when it ended before.
Ends(e) ==
  before' = [x \in Execution |->
              IF x # e THEN before[x] \ {e}
              ELSE IF ex'[e].status = "failed" THEN Failed \ {e} ELSE {}]

-----------------------------------------------------------------------------
Fresh == [Absent EXCEPT !.status = "pending"]

\* The first execution is created by the API, without a frontier, or by a
\* scheduled trigger, whose frontier names every node.
Init ==
  /\ definition \in Definitions
  /\ \E scheduled \in BOOLEAN :
       ex = [e \in Execution |->
              IF e # 1 THEN Absent
              ELSE [Fresh EXCEPT !.framed = scheduled,
                                 !.frontier = IF scheduled THEN definition.nodes ELSE {}]]
  /\ before = [e \in Execution |-> {}]
  /\ inline = {}
  /\ repairs = [s \in Scanner |-> None]

Fails(e, cause) == [ex[e] EXCEPT !.status = "failed", !.frontier = {}, !.cause = cause]

\* A worker claims the active frontier of a live execution.
Runnable(e) ==
  /\ ex[e].status \in {"pending", "running"}
  /\ ex[e].frontier # {}

\* execute_frontier of a linear definition: the frontier's nodes that are not
\* completed, or the first uncompleted node, run in one transaction.
RunLinear(e) ==
  LET left == ex[e].frontier \ Done(e)
      now == IF left # {} THEN left ELSE NextLinear(definition, Done(e))
      done == ex[e].done \union now
      next == NextLinear(definition, Done(e) \union now)
  IN /\ Linear(definition)
     /\ ex' = [ex EXCEPT ![e] =
                 [ex[e] EXCEPT !.status = IF next = {} THEN "completed" ELSE "running",
                               !.done = done,
                               !.checkpoint = TRUE,
                               !.frontier = next]]

\* execute_frontier of a DAG with one node ready: it runs, its output selects
\* edges, and the next frontier is planned before anything is committed.
RunNode(e, n, selected) ==
  LET done == Done(e) \union {n}
      taken == Taken(e) \union selected
      next == PlanFrontier(definition, done, taken)
  IN /\ PlanFrontier(definition, Done(e), Taken(e)) = {n}
     /\ selected \in Choices(definition, n)
     /\ IF PlanFails(definition, done)
          THEN ex' = [ex EXCEPT ![e] = Fails(e, "plan")]
          ELSE ex' = [ex EXCEPT ![e] =
                        [ex[e] EXCEPT !.status = IF next = {} THEN "completed" ELSE "running",
                                      !.done = @ \union {n},
                                      !.taken = @ \union selected,
                                      !.checkpoint = TRUE,
                                      !.frontier = next]]

\* The plan of the facts no longer accepts the frontier, or wants several
\* nodes at once: WorkflowDagMultiFrontierExecutor reads an attribute the plan
\* does not have, so a fork ends the execution.
RefuseFrontier(e) ==
  LET plan == PlanFrontier(definition, Done(e), Taken(e))
      stale == Done(e) # {} /\ ex[e].frontier # plan
  IN \/ /\ PlanFails(definition, Done(e))
        /\ ex' = [ex EXCEPT ![e] = Fails(e, "plan")]
     \/ /\ ~ PlanFails(definition, Done(e))
        /\ stale
        /\ ex' = [ex EXCEPT ![e] = Fails(e, "stale")]
     \/ /\ ~ PlanFails(definition, Done(e))
        /\ ~ stale
        /\ Cardinality(plan) > 1
        /\ ex' = [ex EXCEPT ![e] = Fails(e, "fork")]

RunDag(e) ==
  /\ ~ Linear(definition)
  /\ \/ RefuseFrontier(e)
     \/ /\ ~ PlanFails(definition, Done(e))
        /\ Done(e) # {} => ex[e].frontier = PlanFrontier(definition, Done(e), Taken(e))
        /\ \E n \in definition.nodes : \E selected \in SUBSET OutOf(definition, n) :
             RunNode(e, n, selected)

\* A frontier runs to its end; the row lock held by an inline run excludes it.
WorkerRuns(e) ==
  /\ Runnable(e)
  /\ RunLinear(e) \/ RunDag(e)
  /\ Ends(e)
  /\ UNCHANGED <<definition, inline, repairs>>

\* A node fails for good: everything the frontier did is rolled back and the
\* execution is failed in a transaction of its own.
WorkerFails(e) ==
  /\ Runnable(e)
  /\ ex' = [ex EXCEPT ![e] = Fails(e, "node")]
  /\ Ends(e)
  /\ UNCHANGED <<definition, inline, repairs>>

-----------------------------------------------------------------------------
\* The row lock a scan holds on the source while it repairs its resume.
Unlocked(e) == \A s \in Scanner : repairs[s] # e

\* run() of the API: the execution is running as soon as this commits.
InlineStarts(e) ==
  /\ ex[e].status = "pending"
  /\ ex' = [ex EXCEPT ![e].status = "running"]
  /\ inline' = inline \union {e}
  /\ UNCHANGED <<definition, before, repairs>>

\* The nodes of a frontier run in the order of the definition.
First(frontier) == {n \in frontier : \A m \in frontier : definition.rank[n] <= definition.rank[m]}

\* How an inline run of e stops, and what it adds to the facts: the plan refuses
\* them, nothing is left to run, the first node of the plan fails, or it is done
\* and its checkpoint is refused: a request has no owner that could fence it. A
\* linear run starts from the first node whatever its source completed, and a
\* node the execution has completed already refuses to run again.
Stops(e) ==
  LET done == IF Linear(definition) THEN {} ELSE Done(e)
      ready == Frontier(definition, done, Taken(e))
      adding(cause) == {[done |-> {}, taken |-> {}, cause |-> cause]}
  IN IF ~ Plannable(definition, done) THEN adding("plan")
     ELSE IF ready = {} THEN adding("none")
     ELSE adding("node") \union
          UNION {{[done |-> {n}, taken |-> c, cause |-> "checkpoint"] : c \in Choices(definition, n)} :
                   n \in First(ready) \ ex[e].done}

\* What a run that stops with p leaves in the rows of e.
Ran(e, p) == [ex[e] EXCEPT !.done = @ \union p.done, !.taken = @ \union p.taken]

Over(e, p) == [Ran(e, p) EXCEPT !.status = IF p.cause = "none" THEN "completed" ELSE "failed",
                                !.cause = p.cause]

\* The end of an inline run. Its copy of the execution still says "running"
\* whatever happened since. A frontier somebody enqueued meanwhile refuses
\* both terminal transitions, and the transaction is lost.
InlineEnds(e) ==
  /\ e \in inline
  /\ Unlocked(e)
  /\ inline' = inline \ {e}
  /\ \/ /\ ex[e].frontier # {}
        /\ UNCHANGED <<ex, before>>
     \/ /\ ex[e].frontier = {}
        /\ \E p \in Stops(e) :
             ex' = [ex EXCEPT ![e] =
                      [Over(e, p) EXCEPT !.overrun = ex[e].overrun \/ ex[e].status \in Ended]]
        /\ Ends(e)
  /\ UNCHANGED <<definition, repairs>>

\* cancel(): frontiers stay as they are, no worker claims them any more.
Cancel(e) ==
  /\ ex[e].status \in {"pending", "running"}
  /\ ex' = [ex EXCEPT ![e].status = "cancelled"]
  /\ Ends(e)
  /\ UNCHANGED <<definition, inline, repairs>>

\* retry(): a new pending execution without a frontier; every call makes one.
Retry(e) ==
  /\ ex[e].status = "failed"
  /\ Unlocked(e)
  /\ Room
  /\ ex' = [ex EXCEPT ![Next1] = [Fresh EXCEPT !.kind = "retry"]]
  /\ UNCHANGED <<definition, before, inline, repairs>>

-----------------------------------------------------------------------------
\* assess(): a failed execution without an owner whose latest checkpoint is a
\* completed node or frontier.
Resumable(e) == ex[e].status = "failed" /\ ex[e].checkpoint

\* The executions that carry the key resume:{source}:checkpoint:{sequence}:
\* a failed execution appends no checkpoint, so its sequence stays.
ResumesOf(e) == {r \in Created : ex[r].source = e}

Resume(e) == [Fresh EXCEPT !.kind = "resume", !.source = e]

\* Mutant: a second manual resume does not look the key up.
ManualResume_Again(e) ==
  /\ Resumable(e)
  /\ Unlocked(e)
  /\ Room
  /\ ex' = [ex EXCEPT ![Next1] = Resume(e)]
  /\ UNCHANGED <<definition, before, inline, repairs>>

\* resume() of the API and of the operator actions: the execution of the key,
\* or a new one, which gets no frontier.
ManualResume(e) ==
  /\ Resumable(e)
  /\ Unlocked(e)
  /\ ResumesOf(e) = {}
  /\ Room
  /\ ex' = [ex EXCEPT ![Next1] = Resume(e)]
  /\ UNCHANGED <<definition, before, inline, repairs>>

\* _count_resume_ancestors.
Ancestors(e) ==
  LET up[k \in 0 .. MaxExecutions] ==
        IF k = 0 THEN {e}
        ELSE LET below == up[k - 1] IN below \union {ex[x].source : x \in below \ {None}}
  IN up[MaxExecutions] \ {e, None}

\* The policy: the cooldown since the failure has passed when a scan sees it.
Allows(e) == Cardinality(Ancestors(e)) < MaxAttempts

\* evaluate(): checkpoint, policy, and nobody running the execution.
Eligible(e) == Resumable(e) /\ Allows(e)

\* bootstrap() gives resume row r the completed nodes of its source e and the
\* frontier that follows from them.
Bootstrappable(e) ==
  /\ Plannable(definition, ex[e].done)
  /\ Frontier(definition, ex[e].done, ex[e].taken) # {}

\* Mutant: the frontier is enqueued and the nodes are not copied.
Bootstrapped_NoCopy(r, e) ==
  [r EXCEPT !.framed = TRUE,
            !.frontier = Frontier(definition, ex[e].done, ex[e].taken)]

\* Mutant: the frontier is planned from the nodes of the resume itself.
Bootstrapped_OwnFacts(r, e) ==
  [r EXCEPT !.done = @ \union ex[e].done,
            !.taken = @ \union ex[e].taken,
            !.framed = TRUE,
            !.frontier = Frontier(definition, r.done, r.taken)]

Bootstrapped(r, e) ==
  [r EXCEPT !.done = @ \union ex[e].done,
            !.taken = @ \union ex[e].taken,
            !.framed = TRUE,
            !.frontier = Frontier(definition, ex[e].done, ex[e].taken)]

\* A scan visits the failed executions without an owner, ScanLimit of them, those
\* that ended first. The end of an execution clears its owner; one that was handled
\* stays failed and in its place.
Listed(e) == e \in Failed /\ Cardinality(before[e] \cap Failed) < ScanLimit

\* link() adds the resume to the trace of the scan, in the transaction that
\* frames it. (A later scan that meets it again only adds its own trace.)
Linked(r) == [r EXCEPT !.traced = TRUE]

\* recover() of one of the failed executions a scan lists: the resume, its
\* nodes and its frontier are committed together. One that is rejected or has its
\* resume already is left as it is.
Recovers(s, e) ==
  /\ Room
  /\ Listed(e)
  /\ Eligible(e)
  /\ ResumesOf(e) = {}
  /\ Bootstrappable(e)
  /\ repairs[s] = None
  /\ Unlocked(e)
  /\ ex' = [ex EXCEPT ![Next1] = Linked(Bootstrapped(Resume(e), e))]
  /\ UNCHANGED <<definition, before, inline, repairs>>

\* Mutant: any resume of the key is an idempotency hit.
FindsIncomplete_Hit(s, e) ==
  /\ repairs[s] = None
  /\ \E r \in ResumesOf(e) : ~ ex[r].framed /\ ex[r].status = "pending"
  /\ UNCHANGED vars

\* The key has a resume without a frontier that is still pending: it is going
\* to be repaired under the lock of the source; the resume itself is not locked.
FindsIncomplete(s, e) ==
  /\ Listed(e)
  /\ Eligible(e)
  /\ repairs[s] = None
  /\ Unlocked(e)
  /\ \E r \in ResumesOf(e) : ~ ex[r].framed /\ ex[r].status = "pending"
  /\ repairs' = [repairs EXCEPT ![s] = e]
  /\ UNCHANGED <<definition, ex, before, inline>>

\* The repair. Node facts the resume completed itself in the meantime are
\* kept when they agree with the source's and abort the repair otherwise.
Repairs(s, e) ==
  /\ repairs[s] = e
  /\ repairs' = [repairs EXCEPT ![s] = None]
  /\ \E r \in ResumesOf(e) :
       \/ /\ Bootstrappable(e)
          /\ ex' = [ex EXCEPT ![r] = [Linked(Bootstrapped(ex[r], e)) EXCEPT
                                         !.overrun = @ \/ ex[r].status \in Ended]]
       \/ /\ ~ Bootstrappable(e) \/ ex[r].done \cap ex[e].done # {}
          /\ UNCHANGED ex
  /\ UNCHANGED <<definition, before, inline>>

\* What the router lets a client ask of an execution.
ExecutionRequests(e) == InlineStarts(e) \/ Cancel(e) \/ Retry(e) \/ ManualResume(e)

Next ==
  \E e \in Execution :
    \/ WorkerRuns(e) \/ WorkerFails(e)
    \/ ExecutionRequests(e) \/ InlineEnds(e)
    \/ \E s \in Scanner : Recovers(s, e) \/ FindsIncomplete(s, e) \/ Repairs(s, e)

Spec == Init /\ [][Next]_vars

\* Some recovery scan runs for ever (run_forever); nothing is asked of the
\* workers and of the requests.
Fairness ==
  \A e \in Execution :
    /\ WF_vars(\E s \in Scanner : Recovers(s, e) \/ FindsIncomplete(s, e))
    /\ WF_vars(\E s \in Scanner : Repairs(s, e))

FairSpec == Spec /\ Fairness

-----------------------------------------------------------------------------
\* Every row has the shape of its table.
TypeOK ==
  /\ definition \in Definitions
  /\ ex \in [Execution -> Row]
  /\ before \in [Execution -> SUBSET Execution]
  /\ inline \subseteq Execution
  /\ repairs \in [Scanner -> Execution \union {None}]

\* Two scans, a request and an operator that resume the same failure make one
\* resume (resume_contract.py: the lock on the source and the key).
OneResumePerFailure == \A e \in Execution : Cardinality(ResumesOf(e)) <= 1

\* The exception to the next two: an inline run that a worker or a cancel
\* overtook, or a repair that an inline run overtook, wrote to an execution
\* after it had ended, when it may have been resumed already; or an operator's run
\* committed a node its frontier still names.
Overrun(e) == \E x \in Sources(e) : ex[x].overrun

\* An execution that has ended is never open again, although an inline run or a repair
\* may write to it afterwards: whoever resumed it resumed something that is over.
EndedExecutionsStay ==
  [][\A e \in Execution : ex[e].status \in Ended => ex'[e].status \in Ended]_vars

\* Work is carried over whole: a resume with a frontier has every node its
\* source completed, whoever created and bootstrapped it
\* (resume_bootstrap.py: the copied node facts).
ResumesCarryTheWork ==
  \A r \in Created : ex[r].source # None /\ ex[r].framed /\ ~ Overrun(r) =>
    ex[ex[r].source].done \subseteq ex[r].done

\* The worker never meets a frontier that is not the plan of the facts it
\* loads (the 409 of execute_frontier), although those facts come from two
\* executions and the frontier from the worker or from a bootstrap.
FrontiersFollowThePlan ==
  \A e \in Created :
    Runnable(e) /\ Done(e) # {} /\ ~ Overrun(e) =>
      /\ Plannable(definition, Done(e))
      /\ ex[e].frontier = Frontier(definition, Done(e), Taken(e))

\* A worker's node that ran is never refused by the next plan: an execution
\* fails because of its nodes or its forks, never because of a join that did
\* not need all of its predecessors.
PlansAcceptTheWork == \A e \in Created : ex[e].cause # "plan"

\* A listed failure the policy lets resume, from facts the planner accepts, gets
\* a resume that can run: it has a frontier, or somebody took it out of pending.
\* Not owed when the bound on executions is reached, as it always is for the last
\* one, or when an overtaken inline run changes the facts. Nor is it owed to a
\* failure behind ScanLimit older ones: those stay listed when they are handled.
Owed(e) == Listed(e) /\ Eligible(e) /\ Bootstrappable(e)

FailedWorkIsResumed ==
  \A e \in 1 .. MaxExecutions - 1 :
    Owed(e) ~> (\/ \E r \in ResumesOf(e) : ex[r].framed \/ ex[r].status # "pending"
                \/ ~ Room /\ ResumesOf(e) = {}
                \/ ~ Owed(e))
=============================================================================
