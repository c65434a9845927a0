------------------------ MODULE AgentDelegation_proofs ------------------------
(***************************************************************************)
(* Proofs about AgentDelegation for any number of delegations and workers, *)
(* any time limits and any of the faults.                                  *)
(*                                                                         *)
(* The argument: the execution of a delegation names one owner while it is *)
(* running, and whoever has claimed the work is that owner, because nobody *)
(* takes an execution over before its lease has run out or while its row   *)
(* is locked, and time does not pass between the prompt steps of a task.   *)
(* A run therefore ends the execution of the work it did itself, and the   *)
(* report that follows finds it as the run left it.                        *)
(***************************************************************************)
EXTENDS AgentDelegation, TLAPS

-----------------------------------------------------------------------------
(* Types. *)

DelegationShape == [status : {"absent", "pending", "running"} \cup Ended, timer : 0 .. Timeout]
ExecutionShape == [status : {"absent", "running"} \cup Closed, owner : Workers \cup {NoWorker},
                   lease : Nat, attempt : Nat]
FrontierShape == [status : {"absent", "pending", "running", "retry_wait", "completed", "failed",
                            "cancelled"},
                  owner : Workers \cup {NoWorker}, lease : Nat, attempt : Nat]
JobShape == [pc : Phases, d : Delegations, attempt : Nat, copy : Nat, copyLease : Nat,
             deadline : Nat, bound : BOOLEAN, outcome : Outcomes, slow : BOOLEAN]

\* The types without the bounds of the counters.
Shape ==
    /\ delegation \in [Delegations -> DelegationShape]
    /\ execution \in [Delegations -> ExecutionShape]
    /\ frontier \in [Delegations -> FrontierShape]
    /\ job \in [Workers -> JobShape]
    /\ cancelling \in [Delegations -> {"nothing", "delegation", "execution"}]
    /\ faults \subseteq Faults

(* Time limits are numbers, and a clock that has run out stays at 0. *)
LEMMA TimeTypes ==
    /\ {MaxActive, Timeout, WorkflowTimeout, LeaseTime, AttemptBound} \subseteq Nat \ {0}
    /\ \A n \in Nat : Less(n) \in Nat
    /\ \A m, n \in Nat : /\ Shorter(m, n) \in Nat
                         /\ Shorter(m, n) <= m /\ Shorter(m, n) <= n
                         /\ Shorter(m, n) \in {m, n}
BY LimitsAssumption DEF Less, Shorter

(* No task is a job. *)
LEMMA NoTaskShape ==
    /\ NoTask \in JobShape /\ [NoTask EXCEPT !.pc = "dead"] \in JobShape
    /\ NoTask.pc = "idle" /\ [NoTask EXCEPT !.pc = "dead"].pc = "dead"
    /\ ~NoTask.slow /\ ~[NoTask EXCEPT !.pc = "dead"].slow
BY WorkersAssumption DEF NoTask, JobShape, Phases, Outcomes

(* Initially every variable has its type. *)
LEMMA ShapeInit == Init => Shape
BY NoTaskShape, TimeTypes, FaultsAssumption
   DEF Init, Shape, DelegationShape, ExecutionShape, FrontierShape

(* Every step keeps the types: one case per action. *)
LEMMA ShapeStep == Shape /\ [Next]_vars => Shape'
<1>. SUFFICES ASSUME Shape, [Next]_vars PROVE Shape'
  OBVIOUS
<1>. USE DEF Shape
<1>t. Timeout \in Nat /\ WorkflowTimeout \in Nat /\ LeaseTime \in Nat
  BY TimeTypes
<1>a. \A w \in Workers : /\ job[w] \in JobShape /\ job[w].d \in Delegations
                         /\ delegation[job[w].d] \in DelegationShape
                         /\ execution[job[w].d] \in ExecutionShape
                         /\ frontier[job[w].d] \in FrontierShape
  BY DEF JobShape
\* Moving a task on is a matter of its new record.
<1>b. ASSUME NEW w \in Workers, NEW t \in JobShape, job' = [job EXCEPT ![w] = t]
      PROVE  job' \in [Workers -> JobShape]
  BY <1>b
<1>c. ASSUME NEW w \in Workers, NEW phase \in Phases, Goto(w, phase)
      PROVE  job' \in [Workers -> JobShape]
  <2>1. [job[w] EXCEPT !.pc = phase] \in JobShape
    BY <1>a DEF JobShape
  <2>. QED  BY <1>b, <1>c, <2>1 DEF Goto
<1>d. ASSUME NEW w \in Workers, EndTask(w) PROVE job' \in [Workers -> JobShape]
  BY <1>b, <1>d, NoTaskShape DEF EndTask
<1>e. \A d \in Delegations, status \in Closed : Closing(execution[d], status) \in ExecutionShape
  BY DEF Closing, ExecutionShape
<1>f. \A d \in Delegations, status \in Closed : Closing(frontier[d], status) \in FrontierShape
  BY DEF Closing, FrontierShape, Closed
<1>g. \A w \in Workers, d \in Delegations : HeldFrontier(w, frontier[d]) \in FrontierShape
  BY <1>t DEF HeldFrontier, FrontierShape
<1>1. ASSUME NEW d \in Delegations, Create(d) \/ Cancel(d) PROVE Shape'
  <2>1. \A x \in Delegations : /\ [status |-> "pending", timer |-> Timeout] \in DelegationShape
                               /\ [delegation[x] EXCEPT !.status = "cancelled"] \in DelegationShape
    BY <1>t DEF DelegationShape, Ended
  <2>2. CASE Create(d)
    BY <2>1, <2>2 DEF Create
  <2>3. CASE Cancel(d)
    BY <2>1, <2>3 DEF Cancel
  <2>. QED  BY <1>1, <2>2, <2>3
<1>2. ASSUME NEW d \in Delegations, ReadToCancel(d) \/ ReadToCancelExecution(d) PROVE Shape'
  BY <1>2 DEF ReadToCancel, ReadToCancelExecution
<1>3. ASSUME NEW d \in Delegations, CancelExecution(d) PROVE Shape'
  BY <1>3, <1>e DEF CancelExecution, Closed
<1>4. ASSUME SourceEnds \/ Republish PROVE Shape'
  BY <1>4 DEF SourceEnds, Republish
<1>5. ASSUME NEW w \in Workers, NEW d \in Delegations, ClaimDelegation(w, d) PROVE Shape'
  <2>1. [job[w] EXCEPT !.pc = "claimed", !.d = d] \in JobShape
    BY <1>a DEF JobShape, Phases
  <2>2. job' \in [Workers -> JobShape]
    BY <1>5, <1>b, <2>1 DEF ClaimDelegation
  <2>3. [delegation[d] EXCEPT !.status = "running"] \in DelegationShape
    BY <1>t DEF DelegationShape
  <2>4. [status |-> "running", owner |-> w, lease |-> Timeout, attempt |-> 1] \in ExecutionShape
    BY <1>t DEF ExecutionShape
  <2>5. [frontier[d] EXCEPT !.status = "pending"] \in FrontierShape
    BY <1>t DEF FrontierShape
  <2>. QED  BY <1>5, <2>2, <2>3, <2>4, <2>5 DEF ClaimDelegation
<1>6. ASSUME NEW w \in Workers, Activate(w) PROVE Shape'
  <2>. DEFINE d == job[w].d
  <2>1. [job[w] EXCEPT !.pc = "held", !.attempt = frontier[d].attempt + 1] \in JobShape
    <3>1. frontier[d].attempt + 1 \in Nat
      BY <1>a DEF FrontierShape
    <3>. QED  BY <1>a, <3>1 DEF JobShape, Phases
  <2>2. job' \in [Workers -> JobShape]
    BY <1>6, <1>b, <1>d, <2>1 DEF Activate
  <2>3. frontier' \in [Delegations -> FrontierShape]
    BY <1>6, <1>a, <1>g DEF Activate
  <2>. QED  BY <1>6, <2>2, <2>3 DEF Activate
<1>7. ASSUME NEW w \in Workers, NEW d \in Delegations, ClaimFrontier(w, d) PROVE Shape'
  <2>1. [job[w] EXCEPT !.pc = "held", !.d = d, !.attempt = frontier[d].attempt + 1] \in JobShape
    <3>1. frontier[d].attempt + 1 \in Nat
      BY <1>a DEF FrontierShape
    <3>. QED  BY <1>a, <3>1 DEF JobShape, Phases
  <2>2. job' \in [Workers -> JobShape]
    BY <1>7, <1>b, <2>1 DEF ClaimFrontier
  <2>3. \A n \in Nat : [status |-> "running", owner |-> w, lease |-> LeaseTime, attempt |-> n]
                          \in ExecutionShape
    BY <1>t DEF ExecutionShape
  <2>4. execution[d].attempt \in Nat /\ execution[d].attempt + 1 \in Nat
    BY DEF ExecutionShape
  <2>5. execution' \in [Delegations -> ExecutionShape]
    BY <1>7, <2>3, <2>4 DEF ClaimFrontier
  <2>6. frontier' \in [Delegations -> FrontierShape]
    BY <1>7, <1>g DEF ClaimFrontier
  <2>. QED  BY <1>7, <2>2, <2>5, <2>6 DEF ClaimFrontier
<1>8. ASSUME NEW w \in Workers, VerifyOwnership(w) \/ StartNode(w) \/ HeartbeatCancels(w) \/ RunRejected(w)
      PROVE  Shape'
  <2>1. job' \in [Workers -> JobShape]
    BY <1>8, <1>c, <1>d DEF VerifyOwnership, StartNode, HeartbeatCancels, RunRejected, Phases
  <2>. QED  BY <1>8, <2>1 DEF VerifyOwnership, StartNode, HeartbeatCancels, RunRejected
<1>9. ASSUME NEW w \in Workers, Load(w) PROVE Shape'
  <2>. DEFINE d == job[w].d
              t == [job[w] EXCEPT !.pc = "loaded", !.copy = execution[d].attempt,
                                  !.copyLease = execution[d].lease,
                                  !.deadline = Shorter(delegation[d].timer, WorkflowTimeout),
                                  !.bound = delegation[d].timer <= WorkflowTimeout]
  <2>1. /\ execution[d].attempt \in Nat /\ execution[d].lease \in Nat
        /\ Shorter(delegation[d].timer, WorkflowTimeout) \in Nat
        /\ (delegation[d].timer <= WorkflowTimeout) \in BOOLEAN
    <3>1. execution[d].attempt \in Nat /\ execution[d].lease \in Nat /\ delegation[d].timer \in Nat
      BY <1>a DEF ExecutionShape, DelegationShape
    <3>2. Shorter(delegation[d].timer, WorkflowTimeout) \in Nat
      BY <1>t, <3>1, TimeTypes
    <3>. QED  BY <3>1, <3>2
  <2>2. t \in JobShape
    BY <1>a, <2>1 DEF JobShape, Phases
  <2>3. job' = [job EXCEPT ![w] = t] \/ Goto(w, "close")
    BY <1>9 DEF Load
  <2>. HIDE DEF t
  <2>4. job' \in [Workers -> JobShape]
    BY <1>b, <1>c, <2>2, <2>3 DEF Phases
  <2>. QED  BY <1>9, <2>4 DEF Load
<1>10. ASSUME NEW w \in Workers, Heartbeat(w) PROVE Shape'
  <2>1. /\ [execution[job[w].d] EXCEPT !.lease = LeaseTime] \in ExecutionShape
        /\ [frontier[job[w].d] EXCEPT !.lease = LeaseTime] \in FrontierShape
    BY <1>a, <1>t DEF ExecutionShape, FrontierShape
  <2>. QED  BY <1>10, <1>a, <2>1 DEF Heartbeat
<1>h. \A w \in Workers, o \in Outcomes : [job[w] EXCEPT !.pc = "finalize", !.outcome = o] \in JobShape
  BY <1>a DEF JobShape, Phases
<1>11. ASSUME NEW w \in Workers, LeaseLost(w) PROVE Shape'
  <2>1. job' \in [Workers -> JobShape]
    <3>1. CASE EndedMeanwhile(job[w].d)
      <4>1. execution[job[w].d].status \in Outcomes
        BY <3>1 DEF EndedMeanwhile, Outcomes
      <4>2. job' = [job EXCEPT ![w] = [job[w] EXCEPT !.pc = "finalize",
                                                     !.outcome = execution[job[w].d].status]]
        BY <1>11, <3>1 DEF LeaseLost
      <4>3. [job[w] EXCEPT !.pc = "finalize", !.outcome = execution[job[w].d].status] \in JobShape
        BY <1>h, <4>1
      <4>. QED  BY <1>b, <4>2, <4>3
    <3>2. CASE ~EndedMeanwhile(job[w].d)
      BY <1>11, <1>c, <3>2 DEF LeaseLost, Phases
    <3>. QED  BY <3>1, <3>2
  <2>. QED  BY <1>11, <2>1 DEF LeaseLost
<1>12. ASSUME NEW w \in Workers, RunProbes(w) PROVE Shape'
  <2>1. job' \in [Workers -> JobShape]
    BY <1>12, <1>c DEF RunProbes, Phases
  <2>. QED  BY <1>12, <2>1 DEF RunProbes
<1>13. ASSUME NEW w \in Workers, RunCompletes(w) \/ RunFails(w) PROVE Shape'
  <2>1. PICK status \in {"completed", "failed"} : Terminalize(w, job[w].d, status) /\ Report(w, status)
    BY <1>13 DEF RunCompletes, RunFails
  <2>2. job' \in [Workers -> JobShape]
    BY <1>b, <1>h, <2>1 DEF Report, Outcomes
  <2>3. execution' \in [Delegations -> ExecutionShape] /\ frontier' \in [Delegations -> FrontierShape]
    BY <1>a, <1>e, <1>f, <2>1 DEF Terminalize, Closed
  <2>. QED  BY <1>13, <2>2, <2>3 DEF RunCompletes, RunFails
<1>14. ASSUME NEW w \in Workers, RunTimesOut(w) PROVE Shape'
  <2>1. job' \in [Workers -> JobShape]
    BY <1>14, <1>b, <1>h DEF RunTimesOut, Report, Outcomes
  <2>2. execution' \in [Delegations -> ExecutionShape]
    BY <1>14, <1>a, <1>e DEF RunTimesOut, Closed
  <2>. QED  BY <1>14, <2>1, <2>2 DEF RunTimesOut
<1>15. ASSUME NEW w \in Workers, Finalize(w) PROVE Shape'
  <2>1. \A d \in Delegations, o \in Outcomes : [delegation[d] EXCEPT !.status = o] \in DelegationShape
    BY DEF DelegationShape, Outcomes, Ended
  <2>2. \E o \in Outcomes, admitted \in {{"completed"}, {"failed"}, {"pending", "running", "cancelled"}} :
           LockAndEnd(job[w].d, o, admitted)
    BY <1>15 DEF Finalize, CompleteDelegation, FailDelegation, TimeoutDelegation, Outcomes
  <2>3. delegation' \in [Delegations -> DelegationShape]
    BY <1>a, <2>1, <2>2 DEF LockAndEnd
  <2>4. job' \in [Workers -> JobShape]
    BY <1>15, <1>c DEF Finalize, Phases
  <2>. QED  BY <1>15, <2>3, <2>4 DEF Finalize
<1>16. ASSUME NEW w \in Workers, Close(w) PROVE Shape'
  <2>1. frontier' \in [Delegations -> FrontierShape]
    BY <1>16, <1>a, <1>f DEF Close, Closed
  <2>. QED  BY <1>16, <1>d, <2>1 DEF Close
<1>17. ASSUME NEW d \in Delegations, Recover(d) PROVE Shape'
  <2>1. [frontier[d] EXCEPT !.status = "retry_wait", !.owner = NoWorker, !.lease = 0] \in FrontierShape
    BY DEF FrontierShape
  <2>. QED  BY <1>17, <2>1 DEF Recover
<1>18. ASSUME NEW w \in Workers, Crash(w) PROVE Shape'
  BY <1>18, <1>b, NoTaskShape DEF Crash
<1>19. ASSUME NEW w \in Workers, Stall(w) PROVE Shape'
  <2>1. [job[w] EXCEPT !.slow = TRUE] \in JobShape
    BY <1>a DEF JobShape
  <2>. QED  BY <1>19, <1>b, <2>1 DEF Stall
<1>20. ASSUME Tick PROVE Shape'
  <2>1. \A d \in Delegations : /\ [delegation[d] EXCEPT !.timer = Less(@)] \in DelegationShape
                               /\ [execution[d] EXCEPT !.lease = Less(@)] \in ExecutionShape
                               /\ [frontier[d] EXCEPT !.lease = Less(@)] \in FrontierShape
    <3>. TAKE d \in Delegations
    <3>1. \A n \in 0 .. Timeout : Less(n) \in 0 .. Timeout
      BY <1>t DEF Less
    <3>2. [delegation[d] EXCEPT !.timer = Less(@)] \in DelegationShape
      BY <3>1 DEF DelegationShape
    <3>3. Less(execution[d].lease) \in Nat /\ Less(frontier[d].lease) \in Nat
      BY TimeTypes DEF ExecutionShape, FrontierShape
    <3>4. [execution[d] EXCEPT !.lease = Less(@)] \in ExecutionShape
      BY <3>3 DEF ExecutionShape
    <3>5. [frontier[d] EXCEPT !.lease = Less(@)] \in FrontierShape
      BY <3>3 DEF FrontierShape
    <3>. QED  BY <3>2, <3>4, <3>5
  <2>2. \A w \in Workers : [job[w] EXCEPT !.copyLease = Less(@), !.deadline = Less(@)] \in JobShape
    <3>. TAKE w \in Workers
    <3>1. job[w] \in JobShape /\ Less(job[w].copyLease) \in Nat /\ Less(job[w].deadline) \in Nat
      BY TimeTypes DEF JobShape
    <3>. QED  BY <3>1 DEF JobShape
  <2>. QED  BY <1>20, <2>1, <2>2 DEF Tick
<1>21. CASE UNCHANGED vars
  BY <1>21 DEF vars
<1>. QED
  BY <1>1, <1>2, <1>3, <1>4, <1>5, <1>6, <1>7, <1>8, <1>9, <1>10, <1>11, <1>12, <1>13, <1>14, <1>15,
     <1>16, <1>17, <1>18, <1>19, <1>20, <1>21
  DEF Next, DelegationRequests, WorkerStep

-----------------------------------------------------------------------------
(* What a task in progress tells about its rows. *)

\* Nothing has begun on a delegation that is not yet claimed, and whoever works on
\* one, or reports its end, has its execution.
WorkExists ==
    /\ \A d \in Delegations :
          /\ delegation[d].status \in {"absent", "pending"} => execution[d].status = "absent"
          /\ cancelling[d] = "execution" => execution[d].status # "absent"
    /\ \A w \in Workers :
          /\ job[w].pc \notin {"idle", "dead"} => execution[job[w].d].status # "absent"
          /\ job[w].pc = "finalize" => execution[job[w].d].status \in Closed

\* A fault that has left its trace has happened.
FaultsShow ==
    /\ \A w \in Workers : /\ job[w].slow => ~Unused({"stall"})
                          /\ job[w].pc = "probing" => "probe" \notin faults
    /\ \A d \in Delegations : cancelling[d] = "execution" => ~Unused({"cancel_execution"})

(* Faults are used up. *)
LEMMA FaultsShrink ==
    ASSUME Shape, [Next]_vars
    PROVE  faults' \subseteq faults /\ \A kinds : Unused(kinds)' => Unused(kinds)
<1>1. ASSUME NEW w \in Workers, WorkerStep(w) PROVE faults' = faults
  BY <1>1 DEF WorkerStep, Activate, VerifyOwnership, Load, StartNode, RunCompletes, RunFails,
              RunRejected, RunTimesOut, Finalize, Close
<1>2. ASSUME NEW w \in Workers, Heartbeat(w) \/ HeartbeatCancels(w) \/ LeaseLost(w) \/ RunProbes(w)
                                \/ Crash(w) \/ Stall(w)
      PROVE  faults' \subseteq faults
  BY <1>2 DEF Heartbeat, HeartbeatCancels, LeaseLost, RunProbes, Crash, Stall
<1>3. ASSUME NEW w \in Workers, NEW d \in Delegations, ClaimDelegation(w, d) \/ ClaimFrontier(w, d)
      PROVE  faults' = faults
  BY <1>3 DEF ClaimDelegation, ClaimFrontier
<1>4. ASSUME NEW d \in Delegations, DelegationRequests(d) \/ ReadToCancelExecution(d)
                                    \/ CancelExecution(d) \/ Recover(d)
      PROVE  faults' \subseteq faults
  BY <1>4 DEF DelegationRequests, Create, ReadToCancel, Cancel, ReadToCancelExecution,
              CancelExecution, Recover
<1>5. ASSUME SourceEnds \/ Republish \/ Tick \/ UNCHANGED vars PROVE faults' \subseteq faults
  BY <1>5 DEF SourceEnds, Republish, Tick, vars
<1>6. faults' \subseteq faults
  BY <1>1, <1>2, <1>3, <1>4, <1>5 DEF Next
<1>. QED  BY <1>6 DEF Unused

(* An injected fault that happens has been used. *)
LEMMA FaultHappens ==
    ASSUME Shape, NEW kind \in faults, faults' = faults \ {kind}
    PROVE  ~Unused({kind})'
BY DEF Shape, Unused

(* What the steps of a task do to the tasks: one of them changes.           *)
LEMMA OneTaskMoves ==
    ASSUME Shape, NEW w \in Workers,
           \/ WorkerStep(w) \/ Heartbeat(w) \/ HeartbeatCancels(w) \/ LeaseLost(w) \/ RunProbes(w)
           \/ Crash(w) \/ Stall(w)
           \/ \E d \in Delegations : ClaimDelegation(w, d) \/ ClaimFrontier(w, d)
    PROVE  \A v \in Workers \ {w} : job'[v] = job[v]
<1>. USE DEF Shape
<1>1. CASE WorkerStep(w)
  BY <1>1 DEF WorkerStep, Activate, VerifyOwnership, Load, StartNode, RunCompletes, RunFails,
              RunRejected, RunTimesOut, Finalize, Close, Goto, EndTask, Report
<1>2. CASE Heartbeat(w) \/ HeartbeatCancels(w) \/ LeaseLost(w) \/ RunProbes(w)
  BY <1>2 DEF Heartbeat, HeartbeatCancels, LeaseLost, RunProbes, Goto
<1>3. CASE Crash(w) \/ Stall(w)
  BY <1>3 DEF Crash, Stall
<1>4. ASSUME NEW d \in Delegations, ClaimDelegation(w, d) \/ ClaimFrontier(w, d)
      PROVE  \A v \in Workers \ {w} : job'[v] = job[v]
  BY <1>4 DEF ClaimDelegation, ClaimFrontier
<1>. QED  BY <1>1, <1>2, <1>3, <1>4

(* How the task of the step itself changes. *)
LEMMA TaskMoves ==
    ASSUME Shape, NEW w \in Workers
    PROVE  /\ VerifyOwnership(w) => job[w].pc = "held" /\ job'[w].pc \in {"entered", "idle"}
           /\ Load(w) => job[w].pc = "entered" /\ job'[w].pc \in {"loaded", "close"}
           /\ StartNode(w) => job[w].pc \in {"loaded", "probing"} /\ job'[w].pc = "running"
           /\ HeartbeatCancels(w) =>
                job[w].pc \in {"entered", "loaded", "probing"} /\ job'[w].pc = "close"
           /\ LeaseLost(w) => job[w].pc \in {"loaded", "probing"} /\ job'[w].pc \in {"finalize", "close"}
           /\ RunProbes(w) => job[w].pc = "running" /\ job'[w].pc = "probing"
           /\ RunRejected(w) => job[w].pc = "running" /\ job'[w].pc = "close"
           /\ RunCompletes(w) \/ RunFails(w) \/ RunTimesOut(w) =>
                job[w].pc = "running" /\ job'[w].pc = "finalize"
           /\ Finalize(w) => job[w].pc = "finalize" /\ job'[w].pc = "close"
           /\ Close(w) => job[w].pc = "close" /\ job'[w].pc = "idle"
           /\ Crash(w) => job[w].pc \notin {"idle", "dead"} /\ job'[w].pc = "dead"
           /\ Activate(w) => job[w].pc = "claimed" /\ job'[w].pc \in {"held", "idle"}
           /\ Heartbeat(w) => job[w].pc \in {"entered", "loaded", "probing"} /\ job'[w] = job[w]
<1>. USE DEF Shape
<1>0. job[w] \in JobShape
  OBVIOUS
<1>1. VerifyOwnership(w) => job[w].pc = "held" /\ job'[w].pc \in {"entered", "idle"}
  BY <1>0, NoTaskShape DEF VerifyOwnership, At, Goto, EndTask, JobShape
<1>2. Load(w) => job[w].pc = "entered" /\ job'[w].pc \in {"loaded", "close"}
  BY <1>0 DEF Load, At, Goto, JobShape
<1>3. /\ StartNode(w) => job[w].pc \in {"loaded", "probing"} /\ job'[w].pc = "running"
      /\ HeartbeatCancels(w) =>
           job[w].pc \in {"entered", "loaded", "probing"} /\ job'[w].pc = "close"
  BY <1>0 DEF StartNode, HeartbeatCancels, Goto, JobShape
<1>4. LeaseLost(w) => job[w].pc \in {"loaded", "probing"} /\ job'[w].pc \in {"finalize", "close"}
  BY <1>0 DEF LeaseLost, Goto, JobShape
<1>5. /\ RunProbes(w) => job[w].pc = "running" /\ job'[w].pc = "probing"
      /\ RunRejected(w) => job[w].pc = "running" /\ job'[w].pc = "close"
  BY <1>0 DEF RunProbes, RunRejected, At, Goto, JobShape
<1>6. RunCompletes(w) \/ RunFails(w) \/ RunTimesOut(w) =>
        job[w].pc = "running" /\ job'[w].pc = "finalize"
  BY <1>0 DEF RunCompletes, RunFails, RunTimesOut, At, Report, JobShape
<1>7. Finalize(w) => job[w].pc = "finalize" /\ job'[w].pc = "close"
  BY <1>0 DEF Finalize, At, Goto, JobShape
<1>8. Close(w) => job[w].pc = "close" /\ job'[w].pc = "idle"
  BY NoTaskShape DEF Close, At, EndTask
<1>9. Crash(w) => job[w].pc \notin {"idle", "dead"} /\ job'[w].pc = "dead"
  BY NoTaskShape DEF Crash
<1>10. Activate(w) => job[w].pc = "claimed" /\ job'[w].pc \in {"held", "idle"}
  BY <1>0, NoTaskShape DEF Activate, At, EndTask, JobShape
<1>11. Heartbeat(w) => job[w].pc \in {"entered", "loaded", "probing"} /\ job'[w] = job[w]
  BY DEF Heartbeat
<1>. QED  BY <1>1, <1>2, <1>3, <1>4, <1>5, <1>6, <1>7, <1>8, <1>9, <1>10, <1>11

(* A task stays with its delegation until it ends. *)
LEMMA TaskStays ==
    ASSUME Shape, NEW w \in Workers,
           \/ VerifyOwnership(w) \/ Load(w) \/ StartNode(w) \/ HeartbeatCancels(w) \/ LeaseLost(w)
           \/ RunProbes(w) \/ RunRejected(w) \/ RunCompletes(w) \/ RunFails(w) \/ RunTimesOut(w)
           \/ Finalize(w) \/ Activate(w),
           job'[w].pc # "idle"
    PROVE  job'[w].d = job[w].d /\ job'[w].slow = job[w].slow
<1>. USE DEF Shape
<1>0. job[w] \in JobShape
  OBVIOUS
<1>1. CASE VerifyOwnership(w) \/ StartNode(w) \/ HeartbeatCancels(w)
  BY <1>0, <1>1, NoTaskShape DEF VerifyOwnership, StartNode, HeartbeatCancels, Goto, EndTask, JobShape
<1>2. CASE Load(w)
  BY <1>0, <1>2 DEF Load, Goto, JobShape
<1>6. CASE LeaseLost(w)
  BY <1>0, <1>6 DEF LeaseLost, Goto, JobShape
<1>3. CASE RunProbes(w) \/ RunRejected(w) \/ Finalize(w)
  BY <1>0, <1>3 DEF RunProbes, RunRejected, Finalize, Goto, JobShape
<1>4. CASE RunCompletes(w) \/ RunFails(w) \/ RunTimesOut(w)
  BY <1>0, <1>4 DEF RunCompletes, RunFails, RunTimesOut, Report, JobShape
<1>5. CASE Activate(w)
  BY <1>0, <1>5, NoTaskShape DEF Activate, EndTask, JobShape
<1>. QED  BY <1>1, <1>2, <1>3, <1>4, <1>5, <1>6

(* What a step makes of the status of an execution: it stays, it is closed for good, *)
(* or the delegation is claimed and its execution begins.                            *)
LEMMA StatusMoves ==
    ASSUME Shape, WorkExists, [Next]_vars, NEW d \in Delegations
    PROVE  \/ execution'[d].status = execution[d].status
           \/ execution[d].status # "absent" /\ execution'[d].status \in Closed
           \/ \E w \in Workers : ClaimDelegation(w, d)
<1>. USE DEF Shape
<1>. DEFINE Moves(e) == \/ execution'[e].status = execution[e].status
                        \/ execution[e].status # "absent" /\ execution'[e].status \in Closed
<1>a. ASSUME NEW e \in Delegations, NEW status \in Closed, execution[e].status # "absent",
             execution' = [execution EXCEPT ![e] = Closing(@, status)]
      PROVE  Moves(d)
  <2>1. Closing(execution[e], status).status = status
    BY DEF Closing, ExecutionShape
  <2>. QED  BY <1>a, <2>1
<1>b. \A w \in Workers : /\ job[w].d \in Delegations
                         /\ job[w].pc = "running" => execution[job[w].d].status # "absent"
  BY DEF JobShape, WorkExists
<1>1. ASSUME NEW w \in Workers, WorkerStep(w) PROVE Moves(d)
  <2>1. CASE RunCompletes(w)
    BY <1>a, <1>b, <2>1 DEF RunCompletes, Terminalize, At, Closed
  <2>2. CASE RunFails(w)
    BY <1>a, <1>b, <2>2 DEF RunFails, Terminalize, At, Closed
  <2>3. CASE RunTimesOut(w)
    BY <1>a, <1>b, <2>3 DEF RunTimesOut, At, Closed
  <2>4. CASE Activate(w) \/ VerifyOwnership(w) \/ Load(w) \/ StartNode(w) \/ RunRejected(w)
             \/ Finalize(w) \/ Close(w)
    BY <2>4 DEF Activate, VerifyOwnership, Load, StartNode, RunRejected, Finalize, Close
  <2>. QED  BY <1>1, <2>1, <2>2, <2>3, <2>4 DEF WorkerStep
<1>2. ASSUME NEW w \in Workers, Heartbeat(w) PROVE Moves(d)
  <2>1. execution' = [execution EXCEPT ![job[w].d].lease = LeaseTime]
    BY <1>2 DEF Heartbeat
  <2>. QED  BY <1>b, <2>1 DEF ExecutionShape
<1>3. ASSUME NEW w \in Workers, HeartbeatCancels(w) \/ LeaseLost(w) \/ RunProbes(w) \/ Crash(w) \/ Stall(w)
      PROVE  Moves(d)
  BY <1>3 DEF HeartbeatCancels, LeaseLost, RunProbes, Crash, Stall
<1>4. ASSUME NEW w \in Workers, NEW e \in Delegations, ClaimFrontier(w, e) PROVE Moves(d)
  <2>1. /\ execution[e].status = "running"
        /\ \E n : execution' = [execution EXCEPT ![e] = [status |-> "running", owner |-> w,
                                                         lease |-> LeaseTime, attempt |-> n]]
    BY <1>4 DEF ClaimFrontier, Available
  <2>. QED  BY <2>1
<1>5. ASSUME NEW w \in Workers, NEW e \in Delegations, ClaimDelegation(w, e), e # d PROVE Moves(d)
  BY <1>5 DEF ClaimDelegation
<1>6. ASSUME NEW e \in Delegations, CancelExecution(e) PROVE Moves(d)
  BY <1>6, <1>a DEF CancelExecution, WorkExists, Closed
<1>7. ASSUME NEW e \in Delegations, DelegationRequests(e) \/ ReadToCancelExecution(e) \/ Recover(e)
      PROVE  Moves(d)
  BY <1>7 DEF DelegationRequests, Create, ReadToCancel, Cancel, ReadToCancelExecution, Recover
<1>8. CASE Tick
  <2>1. execution'[d] = [execution[d] EXCEPT !.lease = Less(@)]
    BY <1>8 DEF Tick
  <2>. QED  BY <2>1 DEF ExecutionShape
<1>9. CASE SourceEnds \/ Republish \/ UNCHANGED vars
  BY <1>9 DEF SourceEnds, Republish, vars
<1>. QED  BY <1>1, <1>2, <1>3, <1>4, <1>5, <1>6, <1>7, <1>8, <1>9 DEF Next

(* A claimed delegation had no execution, and has a running one from then on. *)
LEMMA ClaimBegins ==
    ASSUME Shape, WorkExists, NEW w \in Workers, NEW d \in Delegations, ClaimDelegation(w, d)
    PROVE  /\ execution[d].status = "absent" /\ execution'[d].status = "running"
           /\ execution'[d].owner = w /\ execution'[d].lease = Timeout
           /\ delegation'[d].status = "running"
           /\ job[w].pc = "idle" /\ job'[w].pc = "claimed" /\ job'[w].d = d
           /\ job'[w].slow = job[w].slow
<1>. USE DEF Shape
<1>1. execution[d].status = "absent"
  BY DEF ClaimDelegation, WorkExists
<1>2. /\ execution'[d] = [status |-> "running", owner |-> w, lease |-> Timeout, attempt |-> 1]
      /\ delegation'[d] = [delegation[d] EXCEPT !.status = "running"]
      /\ job'[w] = [job[w] EXCEPT !.pc = "claimed", !.d = d]
      /\ job[w].pc = "idle"
  BY DEF ClaimDelegation, At
<1>3. job[w] \in JobShape /\ delegation[d] \in DelegationShape
  OBVIOUS
<1>. QED  BY <1>1, <1>2, <1>3 DEF JobShape, DelegationShape

(* An ordinary claim takes a running execution that is the worker's own or has no lease. *)
LEMMA ClaimTakes ==
    ASSUME Shape, NEW w \in Workers, NEW d \in Delegations, ClaimFrontier(w, d)
    PROVE  /\ execution[d].status = "running" /\ execution'[d].status = "running"
           /\ execution[d].owner = w \/ execution[d].lease = 0
           /\ Unlocked(d)
           /\ execution'[d].owner = w /\ execution'[d].lease = LeaseTime
           /\ frontier'[d].status = "running"
           /\ \A e \in Delegations \ {d} : execution'[e] = execution[e] /\ frontier'[e] = frontier[e]
           /\ job[w].pc = "idle" /\ job'[w].pc = "held" /\ job'[w].d = d
           /\ job'[w].slow = job[w].slow
<1>. USE DEF Shape
<1>1. /\ execution[d].status = "running"
      /\ \E n : execution' = [execution EXCEPT ![d] = [status |-> "running", owner |-> w,
                                                       lease |-> LeaseTime, attempt |-> n]]
  BY DEF ClaimFrontier, Available
<1>2. /\ execution'[d].status = "running" /\ execution'[d].owner = w
      /\ execution'[d].lease = LeaseTime
      /\ \A e \in Delegations \ {d} : execution'[e] = execution[e]
  BY <1>1
<1>3. execution[d].owner = w \/ execution[d].lease = 0
  <2>1. execution[d].lease \in Nat
    BY DEF ExecutionShape
  <2>. QED  BY <2>1 DEF ClaimFrontier, Available, Live
<1>4. frontier'[d].status = "running" /\ \A e \in Delegations \ {d} : frontier'[e] = frontier[e]
  BY DEF ClaimFrontier, HeldFrontier
<1>5. /\ job'[w] = [job[w] EXCEPT !.pc = "held", !.d = d, !.attempt = frontier[d].attempt + 1]
      /\ job[w].pc = "idle" /\ Unlocked(d)
  BY DEF ClaimFrontier, At, Available
<1>6. job'[w].pc = "held" /\ job'[w].d = d /\ job'[w].slow = job[w].slow
  <2>1. job[w] \in JobShape
    OBVIOUS
  <2>. QED  BY <1>5, <2>1 DEF JobShape
<1>. QED  BY <1>1, <1>2, <1>3, <1>4, <1>5, <1>6

(* A run ends the execution it works on, and reports how. *)
LEMMA RunEnds ==
    ASSUME Shape, NEW w \in Workers, RunCompletes(w) \/ RunFails(w) \/ RunTimesOut(w)
    PROVE  /\ job[w].pc = "running" /\ job'[w].pc = "finalize" /\ job'[w].d = job[w].d
           /\ \/ execution'[job[w].d].status = "completed" /\ job'[w].outcome = "completed"
              \/ execution'[job[w].d].status = "failed" /\ job'[w].outcome = "failed"
              \/ execution'[job[w].d].status = "cancelled" /\ job'[w].outcome = "timed_out"
           /\ \A e \in Delegations \ {job[w].d} :
                 execution'[e] = execution[e] /\ frontier'[e] = frontier[e]
           /\ delegation' = delegation
<1>. USE DEF Shape
<1>1. job[w] \in JobShape /\ job[w].d \in Delegations /\ execution[job[w].d] \in ExecutionShape
  BY DEF JobShape
<1>2. \A status : Closing(execution[job[w].d], status).status = status
  BY <1>1 DEF Closing, ExecutionShape
<1>3. \A o : [job[w] EXCEPT !.pc = "finalize", !.outcome = o].outcome = o
  BY <1>1 DEF JobShape
<1>4. job[w].pc = "running" /\ job'[w].pc = "finalize" /\ job'[w].d = job[w].d
  BY TaskMoves, TaskStays
<1>5. CASE RunCompletes(w)
  <2>1. /\ execution'[job[w].d] = Closing(execution[job[w].d], "completed")
        /\ job'[w] = [job[w] EXCEPT !.pc = "finalize", !.outcome = "completed"]
        /\ \A e \in Delegations \ {job[w].d} :
              execution'[e] = execution[e] /\ frontier'[e] = frontier[e]
        /\ delegation' = delegation
    BY <1>1, <1>5 DEF RunCompletes, Terminalize, Report
  <2>. QED  BY <1>2, <1>3, <1>4, <2>1
<1>6. CASE RunFails(w)
  <2>1. /\ execution'[job[w].d] = Closing(execution[job[w].d], "failed")
        /\ job'[w] = [job[w] EXCEPT !.pc = "finalize", !.outcome = "failed"]
        /\ \A e \in Delegations \ {job[w].d} :
              execution'[e] = execution[e] /\ frontier'[e] = frontier[e]
        /\ delegation' = delegation
    BY <1>1, <1>6 DEF RunFails, Terminalize, Report
  <2>. QED  BY <1>2, <1>3, <1>4, <2>1
<1>7. CASE RunTimesOut(w)
  <2>1. /\ execution'[job[w].d] = Closing(execution[job[w].d], "cancelled")
        /\ job'[w] = [job[w] EXCEPT !.pc = "finalize", !.outcome = "timed_out"]
        /\ \A e \in Delegations \ {job[w].d} :
              execution'[e] = execution[e] /\ frontier'[e] = frontier[e]
        /\ delegation' = delegation
    BY <1>1, <1>7 DEF RunTimesOut, Report
  <2>. QED  BY <1>2, <1>3, <1>4, <2>1
<1>. QED  BY <1>5, <1>6, <1>7

\* The phases of a task that has work in hand: loaded, and its end not yet reported.
InHand == {"loaded", "running", "probing", "finalize"}

(* What a step makes of a task: it ends, it stays where it is, it moves on, it ends   *)
(* its run, or it claims something.                                                  *)
LEMMA TaskChanges ==
    ASSUME Shape, [Next]_vars, NEW w \in Workers
    PROVE  \/ job'[w].pc \in {"idle", "dead"} /\ ~job'[w].slow
           \/ /\ job'[w].pc = job[w].pc /\ job'[w].d = job[w].d
              /\ job'[w].outcome = job[w].outcome
              /\ job'[w].slow => job[w].slow \/ Stall(w)
           \/ /\ job[w].pc \notin {"idle", "dead"} /\ job'[w].d = job[w].d
              /\ job'[w].pc # "finalize" /\ job'[w].slow = job[w].slow
              /\ job'[w].pc \in InHand => job[w].pc \in InHand \/ Load(w)
              /\ job'[w].pc = "probing" => RunProbes(w)
           \/ RunCompletes(w) \/ RunFails(w) \/ RunTimesOut(w)
           \/ LeaseLost(w) /\ job'[w].pc = "finalize"
           \/ \E d \in Delegations : ClaimDelegation(w, d) \/ ClaimFrontier(w, d)
<1>. USE DEF Shape
<1>0. job[w] \in JobShape
  OBVIOUS
<1>. DEFINE Ends == job'[w].pc \in {"idle", "dead"} /\ ~job'[w].slow
            Stays == /\ job'[w].pc = job[w].pc /\ job'[w].d = job[w].d
                     /\ job'[w].outcome = job[w].outcome
                     /\ job'[w].slow => job[w].slow \/ Stall(w)
            Goes == /\ job[w].pc \notin {"idle", "dead"} /\ job'[w].d = job[w].d
                    /\ job'[w].pc # "finalize" /\ job'[w].slow = job[w].slow
                    /\ job'[w].pc \in InHand => job[w].pc \in InHand \/ Load(w)
                    /\ job'[w].pc = "probing" => RunProbes(w)
<1>1. CASE job'[w] = job[w]
  BY <1>1
<1>2. CASE VerifyOwnership(w) \/ Activate(w)
  <2>1. job'[w].pc = "idle" => ~job'[w].slow
    BY <1>0, <1>2, NoTaskShape DEF VerifyOwnership, Activate, Goto, EndTask, JobShape
  <2>2. CASE job'[w].pc # "idle"
    BY <1>2, <2>2, TaskMoves, TaskStays DEF InHand
  <2>. QED  BY <1>2, <2>1, <2>2
<1>3. CASE Load(w) \/ StartNode(w) \/ RunProbes(w)
  BY <1>3, TaskMoves, TaskStays DEF InHand
<1>4. CASE HeartbeatCancels(w) \/ RunRejected(w) \/ Finalize(w)
  BY <1>4, TaskMoves, TaskStays DEF InHand
<1>5. CASE LeaseLost(w)
  BY <1>5, TaskMoves, TaskStays DEF InHand
<1>6. CASE Close(w) \/ Crash(w)
  <2>1. job'[w] = NoTask \/ job'[w] = [NoTask EXCEPT !.pc = "dead"]
    BY <1>6 DEF Close, Crash, EndTask
  <2>. QED  BY <2>1, NoTaskShape
<1>7. CASE Stall(w)
  <2>1. job'[w] = [job[w] EXCEPT !.slow = TRUE]
    BY <1>7 DEF Stall
  <2>. QED  BY <1>0, <1>7, <2>1 DEF JobShape
<1>8. CASE Tick
  <2>1. job'[w] = [job[w] EXCEPT !.copyLease = Less(@), !.deadline = Less(@)]
    BY <1>8 DEF Tick
  <2>. QED  BY <1>0, <2>1 DEF JobShape
<1>9. ASSUME NEW v \in Workers,
             \/ WorkerStep(v) \/ Heartbeat(v) \/ HeartbeatCancels(v) \/ LeaseLost(v)
             \/ RunProbes(v) \/ Crash(v) \/ Stall(v)
             \/ \E d \in Delegations : ClaimDelegation(v, d) \/ ClaimFrontier(v, d)
      PROVE  v = w \/ job'[w] = job[w]
  BY <1>9, OneTaskMoves
<1>10. ASSUME NEW d \in Delegations, DelegationRequests(d) \/ ReadToCancelExecution(d)
                                     \/ CancelExecution(d) \/ Recover(d)
       PROVE  job' = job
  BY <1>10 DEF DelegationRequests, Create, ReadToCancel, Cancel, ReadToCancelExecution,
               CancelExecution, Recover
<1>11. ASSUME SourceEnds \/ Republish \/ UNCHANGED vars PROVE job' = job
  BY <1>11 DEF SourceEnds, Republish, vars
<1>12. ASSUME WorkerStep(w)
       PROVE  \/ Activate(w) \/ VerifyOwnership(w) \/ Load(w) \/ StartNode(w) \/ RunRejected(w)
              \/ Finalize(w) \/ Close(w) \/ RunCompletes(w) \/ RunFails(w) \/ RunTimesOut(w)
  BY <1>12 DEF WorkerStep
<1>13. Heartbeat(w) => job'[w] = job[w]
  BY DEF Heartbeat
<1>. QED
  <2>. SUFFICES ASSUME job'[w] # job[w], ~Tick
                PROVE  \/ Ends \/ Stays \/ Goes
                       \/ RunCompletes(w) \/ RunFails(w) \/ RunTimesOut(w)
                       \/ LeaseLost(w) /\ job'[w].pc = "finalize"
                       \/ \E d \in Delegations : ClaimDelegation(w, d) \/ ClaimFrontier(w, d)
    BY <1>1, <1>8
  <2>1. \/ WorkerStep(w) \/ HeartbeatCancels(w) \/ LeaseLost(w) \/ RunProbes(w)
        \/ Crash(w) \/ Stall(w)
        \/ \E d \in Delegations : ClaimDelegation(w, d) \/ ClaimFrontier(w, d)
    <3>1. \E v \in Workers :
             \/ WorkerStep(v) \/ Heartbeat(v) \/ HeartbeatCancels(v) \/ LeaseLost(v)
             \/ RunProbes(v) \/ Crash(v) \/ Stall(v)
             \/ \E d \in Delegations : ClaimDelegation(v, d) \/ ClaimFrontier(v, d)
      BY <1>10, <1>11 DEF Next
    <3>2. \/ WorkerStep(w) \/ Heartbeat(w) \/ HeartbeatCancels(w) \/ LeaseLost(w)
          \/ RunProbes(w) \/ Crash(w) \/ Stall(w)
          \/ \E d \in Delegations : ClaimDelegation(w, d) \/ ClaimFrontier(w, d)
      BY <1>9, <3>1
    <3>. QED  BY <1>13, <3>2
  <2>. QED  BY <1>2, <1>3, <1>4, <1>5, <1>6, <1>7, <1>12, <2>1

(* A lost lease is reported only for an execution that has ended. *)
LEMMA LostAndReported ==
    ASSUME Shape, NEW w \in Workers, LeaseLost(w), job'[w].pc = "finalize"
    PROVE  /\ job[w].pc \in {"loaded", "probing"} /\ job'[w].d = job[w].d
           /\ execution[job[w].d].status \in {"completed", "failed"}
           /\ job'[w].outcome = execution[job[w].d].status
           /\ execution' = execution /\ delegation' = delegation
<1>. USE DEF Shape
<1>1. job[w] \in JobShape
  OBVIOUS
<1>2. EndedMeanwhile(job[w].d)
  BY <1>1 DEF LeaseLost, Goto, JobShape
<1>3. job' = [job EXCEPT ![w].pc = "finalize", ![w].outcome = execution[job[w].d].status]
  BY <1>2 DEF LeaseLost
<1>4. job'[w].outcome = execution[job[w].d].status
  BY <1>1, <1>3 DEF JobShape
<1>. QED  BY <1>2, <1>4, TaskMoves, TaskStays DEF EndedMeanwhile, LeaseLost

(* Initially nothing has begun. *)
LEMMA FirstRows == Init => WorkExists /\ FaultsShow
BY NoTaskShape DEF Init, WorkExists, FaultsShow

(* Every step keeps what a task in progress tells about its rows. *)
LEMMA WorkExistsStep == Shape /\ WorkExists /\ [Next]_vars => WorkExists'
<1>. SUFFICES ASSUME Shape, WorkExists, [Next]_vars PROVE WorkExists'
  OBVIOUS
<1>. USE DEF Shape
<1>1. ASSUME NEW d \in Delegations, delegation'[d].status \in {"absent", "pending"}
      PROVE  execution'[d].status = "absent"
  <2>1. delegation[d].status \in {"absent", "pending"} /\ ~\E w \in Workers : ClaimDelegation(w, d)
    <3>1. ASSUME NEW w \in Workers PROVE ~ClaimDelegation(w, d)
      BY <1>1, ClaimBegins
    <3>. DEFINE Fresh == delegation[d].status \in {"absent", "pending"}
    <3>2. ASSUME delegation' = delegation PROVE Fresh
      BY <1>1, <3>2
    <3>3. ASSUME NEW e \in Delegations, DelegationRequests(e) PROVE Fresh
      <4>1. delegation[d] \in DelegationShape
        OBVIOUS
      <4>. QED  BY <1>1, <3>3, <4>1
                DEF DelegationRequests, Create, ReadToCancel, Cancel, DelegationShape
    <3>4. ASSUME NEW w \in Workers, NEW e \in Delegations, ClaimDelegation(w, e) PROVE Fresh
      <4>1. delegation[d] \in DelegationShape
        OBVIOUS
      <4>. QED  BY <1>1, <3>4, <4>1 DEF ClaimDelegation, DelegationShape
    <3>5. ASSUME NEW w \in Workers, Finalize(w) PROVE Fresh
      <4>1. \E o \in Outcomes, admitted \in {{"completed"}, {"failed"}, {"pending", "running", "cancelled"}} :
               LockAndEnd(job[w].d, o, admitted)
        BY <3>5 DEF Finalize, CompleteDelegation, FailDelegation, TimeoutDelegation, Outcomes
      <4>2. delegation[d] \in DelegationShape
        OBVIOUS
      <4>. QED  BY <1>1, <4>1, <4>2 DEF LockAndEnd, DelegationShape, Outcomes
    <3>6. ASSUME Tick PROVE Fresh
      <4>1. /\ delegation'[d] = [delegation[d] EXCEPT !.timer = Less(@)]
            /\ delegation[d] \in DelegationShape
        BY <3>6 DEF Tick
      <4>. QED  BY <1>1, <4>1 DEF DelegationShape
    <3>7. ASSUME NEW w \in Workers, WorkerStep(w), ~Finalize(w) PROVE delegation' = delegation
      BY <3>7 DEF WorkerStep, Activate, VerifyOwnership, Load, StartNode, RunCompletes, RunFails,
                  RunRejected, RunTimesOut, Close
    <3>8. ASSUME NEW w \in Workers, Heartbeat(w) \/ HeartbeatCancels(w) \/ LeaseLost(w)
                                    \/ RunProbes(w) \/ Crash(w) \/ Stall(w)
          PROVE  delegation' = delegation
      BY <3>8 DEF Heartbeat, HeartbeatCancels, LeaseLost, RunProbes, Crash, Stall
    <3>9. ASSUME NEW w \in Workers, NEW e \in Delegations, ClaimFrontier(w, e)
          PROVE  delegation' = delegation
      BY <3>9 DEF ClaimFrontier
    <3>10. ASSUME NEW e \in Delegations, ReadToCancelExecution(e) \/ CancelExecution(e) \/ Recover(e)
           PROVE  delegation' = delegation
      BY <3>10 DEF ReadToCancelExecution, CancelExecution, Recover
    <3>11. ASSUME SourceEnds \/ Republish \/ UNCHANGED vars PROVE delegation' = delegation
      BY <3>11 DEF SourceEnds, Republish, vars
    <3>. QED  BY <3>1, <3>2, <3>3, <3>4, <3>5, <3>6, <3>7, <3>8, <3>9, <3>10, <3>11 DEF Next
  <2>2. execution[d].status = "absent"
    BY <2>1 DEF WorkExists
  <2>. QED  BY <2>1, <2>2, StatusMoves
<1>2. ASSUME NEW d \in Delegations, execution[d].status # "absent"
      PROVE  execution'[d].status # "absent"
  BY <1>2, StatusMoves, ClaimBegins DEF Closed
<1>3. ASSUME NEW d \in Delegations, cancelling'[d] = "execution"
      PROVE  execution'[d].status # "absent"
  <2>. SUFFICES ASSUME cancelling[d] # "execution" PROVE execution[d].status # "absent"
    BY <1>2 DEF WorkExists
  <2>1. ASSUME NEW e \in Delegations,
               DelegationRequests(e) \/ ReadToCancelExecution(e) \/ CancelExecution(e) \/ Recover(e)
        PROVE  execution[d].status # "absent"
    BY <1>3, <2>1 DEF DelegationRequests, Create, ReadToCancel, Cancel, ReadToCancelExecution,
                      CancelExecution, Recover
  <2>2. ASSUME NEW w \in Workers, WorkerStep(w) PROVE cancelling' = cancelling
    BY <2>2 DEF WorkerStep, Activate, VerifyOwnership, Load, StartNode, RunCompletes, RunFails,
                RunRejected, RunTimesOut, Finalize, Close
  <2>3. ASSUME NEW w \in Workers, Heartbeat(w) \/ HeartbeatCancels(w) \/ LeaseLost(w)
                                  \/ RunProbes(w) \/ Crash(w) \/ Stall(w)
        PROVE  cancelling' = cancelling
    BY <2>3 DEF Heartbeat, HeartbeatCancels, LeaseLost, RunProbes, Crash, Stall
  <2>4. ASSUME NEW w \in Workers, NEW e \in Delegations, ClaimDelegation(w, e) \/ ClaimFrontier(w, e)
        PROVE  cancelling' = cancelling
    BY <2>4 DEF ClaimDelegation, ClaimFrontier
  <2>5. ASSUME SourceEnds \/ Republish \/ Tick \/ UNCHANGED vars PROVE cancelling' = cancelling
    BY <2>5 DEF SourceEnds, Republish, Tick, vars
  <2>. QED  BY <1>3, <2>1, <2>2, <2>3, <2>4, <2>5 DEF Next
<1>4. ASSUME NEW w \in Workers
      PROVE  /\ job'[w].pc \notin {"idle", "dead"} => execution'[job'[w].d].status # "absent"
             /\ job'[w].pc = "finalize" => execution'[job'[w].d].status \in Closed
  <2>. DEFINE Work == /\ job'[w].pc \notin {"idle", "dead"} => execution'[job'[w].d].status # "absent"
                      /\ job'[w].pc = "finalize" => execution'[job'[w].d].status \in Closed
  <2>0. job[w].d \in Delegations
    BY DEF JobShape
  <2>1. CASE job'[w].d = job[w].d /\ job'[w].pc = job[w].pc
    <3>1. execution[job[w].d].status \in Closed => execution'[job[w].d].status \in Closed
      BY <2>0, StatusMoves, ClaimBegins DEF Closed
    <3>. QED  BY <1>2, <2>0, <2>1, <3>1 DEF WorkExists
  <2>2. CASE job[w].pc \notin {"idle", "dead"} /\ job'[w].d = job[w].d /\ job'[w].pc # "finalize"
    BY <1>2, <2>0, <2>2 DEF WorkExists
  <2>3. CASE RunCompletes(w) \/ RunFails(w) \/ RunTimesOut(w)
    BY <2>3, RunEnds DEF Closed
  <2>4. CASE LeaseLost(w) /\ job'[w].pc = "finalize"
    BY <2>4, LostAndReported DEF Closed
  <2>5. ASSUME NEW d \in Delegations, ClaimDelegation(w, d) \/ ClaimFrontier(w, d) PROVE Work
    BY <2>5, ClaimBegins, ClaimTakes
  <2>. QED  BY <2>1, <2>2, <2>3, <2>4, <2>5, TaskChanges
<1>. QED  BY <1>1, <1>3, <1>4 DEF WorkExists

(* Every step keeps that the faults that left a trace have happened. *)
LEMMA FaultsShowStep == Shape /\ FaultsShow /\ [Next]_vars => FaultsShow'
<1>. SUFFICES ASSUME Shape, FaultsShow, [Next]_vars PROVE FaultsShow'
  OBVIOUS
<1>. USE DEF Shape
<1>1. ASSUME NEW w \in Workers, job'[w].slow PROVE ~Unused({"stall"})'
  <2>1. Stall(w) => ~Unused({"stall"})'
    BY FaultHappens DEF Stall
  <2>2. job[w].slow => ~Unused({"stall"})'
    BY FaultsShrink DEF FaultsShow
  <2>3. RunCompletes(w) \/ RunFails(w) \/ RunTimesOut(w) \/ (LeaseLost(w) /\ job'[w].pc = "finalize")
        => job'[w].slow = job[w].slow
    BY TaskStays, TaskMoves
  <2>4. \A d \in Delegations : ClaimDelegation(w, d) \/ ClaimFrontier(w, d)
                                 => job'[w].slow = job[w].slow
    <3>1. job[w] \in JobShape
      OBVIOUS
    <3>. QED  BY <3>1 DEF ClaimDelegation, ClaimFrontier, JobShape
  <2>. QED  BY <1>1, <2>1, <2>2, <2>3, <2>4, TaskChanges
<1>2. ASSUME NEW w \in Workers, job'[w].pc = "probing" PROVE "probe" \notin faults'
  <2>1. RunProbes(w) => "probe" \notin faults'
    BY DEF RunProbes
  <2>2. job[w].pc = "probing" => "probe" \notin faults'
    BY FaultsShrink DEF FaultsShow
  <2>3. ~(RunCompletes(w) \/ RunFails(w) \/ RunTimesOut(w))
    BY <1>2, TaskMoves
  <2>4. ASSUME NEW d \in Delegations PROVE ~(ClaimDelegation(w, d) \/ ClaimFrontier(w, d))
    <3>1. job[w] \in JobShape
      OBVIOUS
    <3>. QED  BY <1>2, <3>1 DEF ClaimDelegation, ClaimFrontier, JobShape
  <2>. QED  BY <1>2, <2>1, <2>2, <2>3, <2>4, TaskChanges
<1>3. ASSUME NEW d \in Delegations, cancelling'[d] = "execution" PROVE ~Unused({"cancel_execution"})'
  <2>. SUFFICES ASSUME cancelling[d] # "execution" PROVE ~Unused({"cancel_execution"})'
    BY FaultsShrink DEF FaultsShow
  <2>1. ASSUME NEW e \in Delegations, ReadToCancelExecution(e)
        PROVE  ~Unused({"cancel_execution"})'
    BY <2>1, FaultHappens DEF ReadToCancelExecution
  <2>2. ASSUME NEW e \in Delegations, DelegationRequests(e) \/ CancelExecution(e) \/ Recover(e)
        PROVE  cancelling'[d] # "execution"
    BY <2>2 DEF DelegationRequests, Create, ReadToCancel, Cancel, CancelExecution, Recover
  <2>3. ASSUME NEW w \in Workers, WorkerStep(w) PROVE cancelling' = cancelling
    BY <2>3 DEF WorkerStep, Activate, VerifyOwnership, Load, StartNode, RunCompletes, RunFails,
                RunRejected, RunTimesOut, Finalize, Close
  <2>4. ASSUME NEW w \in Workers, Heartbeat(w) \/ HeartbeatCancels(w) \/ LeaseLost(w)
                                  \/ RunProbes(w) \/ Crash(w) \/ Stall(w)
        PROVE  cancelling' = cancelling
    BY <2>4 DEF Heartbeat, HeartbeatCancels, LeaseLost, RunProbes, Crash, Stall
  <2>5. ASSUME NEW w \in Workers, NEW e \in Delegations, ClaimDelegation(w, e) \/ ClaimFrontier(w, e)
        PROVE  cancelling' = cancelling
    BY <2>5 DEF ClaimDelegation, ClaimFrontier
  <2>6. ASSUME SourceEnds \/ Republish \/ Tick \/ UNCHANGED vars PROVE cancelling' = cancelling
    BY <2>6 DEF SourceEnds, Republish, Tick, vars
  <2>. QED  BY <1>3, <2>1, <2>2, <2>3, <2>4, <2>5, <2>6 DEF Next
<1>. QED  BY <1>1, <1>2, <1>3 DEF FaultsShow

-----------------------------------------------------------------------------
(* Who works on an execution owns it. *)

Claiming == {"claimed", "held", "entered", "loaded"}
Working == {"held", "entered", "loaded", "running", "probing"}

\* The shortest lease a claim gives an execution.
StartLease == Shorter(Timeout, LeaseTime)

\* A worker w with task j on a running execution owns it; its frontier is taken; the
\* lease has not run down between the claim and the run, during a probe's call, or,
\* while no probe has happened, before the run's deadline.
HoldsWork(w, j, ex, fr, fs) ==
    ex.status = "running" =>
      /\ j.pc \in Claiming \cup Working => ex.owner = w
      /\ j.pc \in Working => fr.status = "running"
      /\ j.pc \in Claiming => ex.lease >= StartLease
      /\ j.pc = "probing" => ex.lease > 0
      /\ RunsFitTheLease => /\ j.pc = "loaded" => j.deadline <= StartLease
                            /\ j.pc = "running" /\ "probe" \in fs => ex.lease >= j.deadline

TasksHold ==
    Timely => \A w \in Workers :
                 HoldsWork(w, job[w], execution[job[w].d], frontier[job[w].d], faults)

(* A task that has not begun, or has ended its run, claims nothing of its rows, and  *)
(* neither does a task whose execution is over.                                     *)
LEMMA NothingHeld ==
    ASSUME NEW w, NEW j, NEW ex, NEW fr, NEW fs,
           j.pc \in {"idle", "dead", "finalize", "close"} \/ ex.status # "running"
    PROVE  HoldsWork(w, j, ex, fr, fs)
BY DEF HoldsWork, Claiming, Working

(* A claim gives a lease that is not empty, and no lease is shorter. *)
LEMMA StartLeaseTypes ==
    /\ StartLease \in Nat \ {0}
    /\ StartLease <= LeaseTime /\ StartLease <= Timeout
    /\ LeaseTime \in Nat \ {0} /\ Timeout \in Nat \ {0} /\ WorkflowTimeout \in Nat \ {0}
BY LimitsAssumption DEF StartLease, Shorter

(* Every step keeps who holds what: nobody takes an execution over while its worker is *)
(* prompt, and time passes only during runs.                                          *)
LEMMA TasksHoldStep ==
    Shape /\ WorkExists /\ FaultsShow /\ TasksHold /\ [Next]_vars => TasksHold'
<1>. SUFFICES ASSUME Shape, WorkExists, FaultsShow, TasksHold, [Next]_vars, Timely'
              PROVE  \A w \in Workers : HoldsWork(w, job'[w], execution'[job'[w].d],
                                                  frontier'[job'[w].d], faults')
  BY DEF TasksHold
<1>. USE DEF Shape
<1>. DEFINE Now(w) == HoldsWork(w, job[w], execution[job[w].d], frontier[job[w].d], faults)
            Next1(w) == HoldsWork(w, job'[w], execution'[job'[w].d], frontier'[job'[w].d], faults')
<1>1. \A w \in Workers : Now(w)
  <2>1. Timely
    BY FaultsShrink DEF Timely
  <2>. QED  BY <2>1 DEF TasksHold
<1>2. \A w \in Workers : ~job[w].slow /\ ~Stall(w)
  <2>1. Unused({"stall"}) /\ Unused({"stall"})'
    BY FaultsShrink DEF Timely
  <2>2. ASSUME NEW w \in Workers PROVE ~Stall(w)
    BY <2>1, FaultHappens DEF Stall
  <2>. QED  BY <2>1, <2>2 DEF FaultsShow
<1>3. \A w \in Workers : /\ job[w] \in JobShape /\ job[w].d \in Delegations
                         /\ execution[job[w].d] \in ExecutionShape
                         /\ frontier[job[w].d] \in FrontierShape
  BY DEF JobShape
<1>4. "probe" \in faults' => "probe" \in faults
  BY FaultsShrink
\* A task the step does not touch.
<1>5. ASSUME NEW v \in Workers, job'[v] = job[v], execution'[job[v].d] = execution[job[v].d],
             frontier'[job[v].d] = frontier[job[v].d] \/ frontier'[job[v].d].status = "running"
      PROVE  Next1(v)
  BY <1>1, <1>4, <1>5 DEF HoldsWork
\* An execution that is closed.
<1>6. ASSUME NEW d \in Delegations, NEW status \in Closed,
             execution' = [execution EXCEPT ![d] = Closing(@, status)]
      PROVE  execution'[d].status # "running"
  BY <1>6 DEF Closing, ExecutionShape, Closed
\* Whoever holds a running execution has its lease or its row lock.
<1>7. ASSUME NEW v \in Workers, execution[job[v].d].status = "running",
             job[v].pc \in Claiming \cup Working, Unlocked(job[v].d)
      PROVE  execution[job[v].d].lease > 0 /\ execution[job[v].d].owner = v
  <2>1. execution[job[v].d].lease \in Nat
    BY <1>3 DEF ExecutionShape
  <2>2. job[v].pc \in Claiming \cup {"probing"}
    BY <1>7 DEF Unlocked, Claiming, Working
  <2>. QED  BY <1>1, <1>7, <2>1, <2>2, StartLeaseTypes DEF HoldsWork
\* The steps of one task, for the other tasks.
<1>8. ASSUME NEW w \in Workers, NEW v \in Workers \ {w}, execution' = execution, frontier' = frontier,
             \/ WorkerStep(w) \/ Heartbeat(w) \/ HeartbeatCancels(w) \/ LeaseLost(w) \/ RunProbes(w)
             \/ Crash(w)
      PROVE  Next1(v)
  <2>1. job'[v] = job[v]
    BY <1>8, OneTaskMoves
  <2>. QED  BY <1>5, <1>8, <2>1
<1>9. ASSUME NEW w \in Workers, NEW d \in Delegations, ClaimDelegation(w, d), NEW v \in Workers
      PROVE  Next1(v)
  <2>1. CASE v = w
    BY <1>9, <2>1, ClaimBegins, StartLeaseTypes DEF HoldsWork, Claiming, Working
  <2>2. CASE v # w
    <3>1. job'[v] = job[v]
      BY <1>9, <2>2, OneTaskMoves
    <3>2. CASE job[v].d = d
      <4>1. job[v].pc \in {"idle", "dead"}
        BY <1>9, <3>2, ClaimBegins DEF WorkExists
      <4>. QED  BY <3>1, <4>1, NothingHeld
    <3>3. CASE job[v].d # d
      <4>1. execution'[job[v].d] = execution[job[v].d] /\ frontier'[job[v].d] = frontier[job[v].d]
        BY <1>3, <1>9, <3>3 DEF ClaimDelegation
      <4>. QED  BY <1>5, <3>1, <4>1
    <3>. QED  BY <3>2, <3>3
  <2>. QED  BY <2>1, <2>2
<1>10. ASSUME NEW w \in Workers, NEW d \in Delegations, ClaimFrontier(w, d), NEW v \in Workers
       PROVE  Next1(v)
  <2>1. CASE v = w
    BY <1>10, <2>1, ClaimTakes, StartLeaseTypes DEF HoldsWork, Claiming, Working
  <2>2. CASE v # w
    <3>1. job'[v] = job[v]
      BY <1>10, <2>2, OneTaskMoves
    <3>2. CASE job[v].d = d
      <4>1. job[v].pc \notin Claiming \cup Working
        BY <1>7, <1>10, <2>2, <3>2, ClaimTakes
      <4>2. job[v].pc \in {"idle", "dead", "finalize", "close"}
        BY <1>3, <4>1 DEF JobShape, Phases, Claiming, Working
      <4>. QED  BY <3>1, <4>2, NothingHeld
    <3>3. CASE job[v].d # d
      <4>1. execution'[job[v].d] = execution[job[v].d] /\ frontier'[job[v].d] = frontier[job[v].d]
        BY <1>3, <1>10, <3>3, ClaimTakes
      <4>. QED  BY <1>5, <3>1, <4>1
    <3>. QED  BY <3>2, <3>3
  <2>. QED  BY <2>1, <2>2
<1>11. ASSUME NEW w \in Workers, Activate(w), NEW v \in Workers PROVE Next1(v)
  <2>1. /\ execution' = execution
        /\ \A d \in Delegations : frontier'[d] = frontier[d] \/ frontier'[d].status = "running"
    BY <1>11 DEF Activate, HeldFrontier
  <2>2. CASE v # w
    <3>1. job'[v] = job[v]
      BY <1>11, <2>2, OneTaskMoves DEF WorkerStep
    <3>. QED  BY <1>3, <1>5, <2>1, <3>1
  <2>3. CASE v = w /\ job'[w].pc = "held"
    <3>1. job[w].pc = "claimed" /\ job'[w].d = job[w].d
      BY <1>11, <2>3, TaskMoves, TaskStays
    <3>2. frontier'[job[w].d].status = "running"
      BY <1>3, <1>11, <2>3, NoTaskShape DEF Activate, EndTask, HeldFrontier
    <3>. QED  BY <1>1, <2>1, <2>3, <3>1, <3>2 DEF HoldsWork, Claiming, Working
  <2>4. CASE v = w /\ job'[w].pc = "idle"
    BY <2>4, NothingHeld
  <2>. QED  BY <1>11, <2>2, <2>3, <2>4, TaskMoves
<1>12. ASSUME NEW w \in Workers, VerifyOwnership(w), NEW v \in Workers PROVE Next1(v)
  <2>1. execution' = execution /\ frontier' = frontier
    BY <1>12 DEF VerifyOwnership
  <2>2. CASE v # w
    BY <1>8, <1>12, <2>1, <2>2 DEF WorkerStep
  <2>3. CASE v = w /\ job'[w].pc = "entered"
    <3>1. job[w].pc = "held" /\ job'[w].d = job[w].d
      BY <1>12, <2>3, TaskMoves, TaskStays
    <3>. QED  BY <1>1, <2>1, <2>3, <3>1 DEF HoldsWork, Claiming, Working
  <2>4. CASE v = w /\ job'[w].pc = "idle"
    BY <2>4, NothingHeld
  <2>. QED  BY <1>12, <2>2, <2>3, <2>4, TaskMoves
<1>13. ASSUME NEW w \in Workers, Load(w), NEW v \in Workers PROVE Next1(v)
  <2>1. execution' = execution /\ frontier' = frontier
    BY <1>13 DEF Load
  <2>2. CASE v # w
    BY <1>8, <1>13, <2>1, <2>2 DEF WorkerStep
  <2>3. CASE v = w /\ job'[w].pc = "loaded"
    <3>1. job[w].pc = "entered" /\ job'[w].d = job[w].d
      BY <1>13, <2>3, TaskMoves, TaskStays
    <3>2. job'[w].deadline = Shorter(delegation[job[w].d].timer, WorkflowTimeout)
      BY <1>3, <1>13, <2>3 DEF Load, Goto, JobShape
    <3>3. RunsFitTheLease => job'[w].deadline <= StartLease
      <4>1. delegation[job[w].d].timer \in 0 .. Timeout
        BY <1>3 DEF DelegationShape
      <4>2. LeaseTime \in Nat /\ Timeout \in Nat /\ WorkflowTimeout \in Nat
        BY StartLeaseTypes
      <4>. QED  BY <3>2, <4>1, <4>2 DEF RunsFitTheLease, StartLease, Shorter
    <3>. QED  BY <1>1, <2>1, <2>3, <3>1, <3>3 DEF HoldsWork, Claiming, Working
  <2>4. CASE v = w /\ job'[w].pc = "close"
    BY <2>4, NothingHeld
  <2>. QED  BY <1>13, <2>2, <2>3, <2>4, TaskMoves
<1>14. ASSUME NEW w \in Workers, StartNode(w), NEW v \in Workers PROVE Next1(v)
  <2>1. execution' = execution /\ frontier' = frontier /\ faults' = faults
    BY <1>14 DEF StartNode
  <2>2. CASE v # w
    BY <1>8, <1>14, <2>1, <2>2 DEF WorkerStep
  <2>3. CASE v = w
    <3>1. /\ job[w].pc \in {"loaded", "probing"} /\ job'[w].pc = "running"
          /\ job'[w].d = job[w].d /\ job'[w].deadline = job[w].deadline
      BY <1>3, <1>14 DEF StartNode, Goto, JobShape
    <3>2. job[w].deadline \in Nat /\ execution[job[w].d].lease \in Nat
      BY <1>3 DEF JobShape, ExecutionShape
    <3>3. CASE job[w].pc = "loaded"
      BY <1>1, <2>1, <2>3, <3>1, <3>2, <3>3, StartLeaseTypes DEF HoldsWork, Claiming, Working
    <3>4. CASE job[w].pc = "probing"
      <4>1. "probe" \notin faults'
        BY <2>1, <3>4 DEF FaultsShow
      <4>. QED  BY <1>1, <2>1, <2>3, <3>1, <3>4, <4>1 DEF HoldsWork, Claiming, Working
    <3>. QED  BY <3>1, <3>3, <3>4
  <2>. QED  BY <2>2, <2>3
<1>15. ASSUME NEW w \in Workers, RunProbes(w), NEW v \in Workers PROVE Next1(v)
  <2>1. execution' = execution /\ frontier' = frontier /\ "probe" \in faults
    BY <1>15 DEF RunProbes
  <2>2. CASE v # w
    BY <1>8, <1>15, <2>1, <2>2
  <2>3. CASE v = w
    <3>1. /\ job[w].pc = "running" /\ job'[w].pc = "probing" /\ job'[w].d = job[w].d
          /\ job[w].deadline > 0
      BY <1>15, TaskMoves, TaskStays DEF RunProbes
    <3>2. RunsFitTheLease
      <4>1. ~Unused({"probe"})'
        BY <1>15, FaultHappens DEF RunProbes
      <4>. QED  BY <4>1 DEF Timely, RunsFitTheLease
    <3>3. job[w].deadline \in Nat /\ execution[job[w].d].lease \in Nat
      BY <1>3 DEF JobShape, ExecutionShape
    <3>. QED  BY <1>1, <2>1, <2>3, <3>1, <3>2, <3>3 DEF HoldsWork, Claiming, Working
  <2>. QED  BY <2>2, <2>3
<1>16. ASSUME NEW w \in Workers, NEW v \in Workers,
              HeartbeatCancels(w) \/ LeaseLost(w) \/ RunRejected(w) \/ Finalize(w) \/ Crash(w)
       PROVE  Next1(v)
  <2>1. execution' = execution /\ frontier' = frontier
    BY <1>16 DEF HeartbeatCancels, LeaseLost, RunRejected, Finalize, Crash
  <2>2. CASE v # w
    BY <1>8, <1>16, <2>1, <2>2 DEF WorkerStep
  <2>3. CASE v = w
    <3>1. job'[w].pc \in {"finalize", "close", "dead"}
      BY <1>16, TaskMoves
    <3>. QED  BY <2>3, <3>1, NothingHeld
  <2>. QED  BY <2>2, <2>3
<1>17. ASSUME NEW w \in Workers, Heartbeat(w), NEW v \in Workers PROVE Next1(v)
  <2>1. /\ job' = job /\ faults' = faults
        /\ execution' = [execution EXCEPT ![job[w].d].lease = LeaseTime]
        /\ frontier' = [frontier EXCEPT ![job[w].d].lease = LeaseTime]
        /\ execution[job[w].d].owner = w /\ execution[job[w].d].status = "running"
        /\ job[w].pc \in {"entered", "loaded", "probing"}
    BY <1>17 DEF Heartbeat, HoldsExecution
  <2>2. CASE job[v].d # job[w].d
    BY <1>3, <1>5, <2>1, <2>2
  <2>3. CASE job[v].d = job[w].d
    <3>1. /\ execution'[job[w].d].status = "running" /\ execution'[job[w].d].owner = w
          /\ execution'[job[w].d].lease = LeaseTime
          /\ frontier'[job[w].d].status = frontier[job[w].d].status
      BY <1>3, <2>1 DEF ExecutionShape, FrontierShape
    <3>2. CASE v = w
      BY <1>1, <2>1, <3>1, <3>2, StartLeaseTypes DEF HoldsWork, Claiming, Working
    <3>3. CASE v # w
      <4>1. job[v].pc \notin Claiming \cup Working
        BY <1>1, <2>1, <2>3, <3>3 DEF HoldsWork
      <4>2. job[v].pc \in {"idle", "dead", "finalize", "close"}
        BY <1>3, <4>1 DEF JobShape, Phases, Claiming, Working
      <4>. QED  BY <2>1, <4>2, NothingHeld
    <3>. QED  BY <3>2, <3>3
  <2>. QED  BY <2>2, <2>3
<1>18. ASSUME NEW w \in Workers, RunCompletes(w) \/ RunFails(w) \/ RunTimesOut(w), NEW v \in Workers
       PROVE  Next1(v)
  <2>1. CASE v = w
    BY <1>18, <2>1, RunEnds, NothingHeld
  <2>2. CASE v # w
    <3>1. job'[v] = job[v]
      BY <1>18, <2>2, OneTaskMoves DEF WorkerStep
    <3>2. CASE job[v].d = job[w].d
      BY <1>18, <3>1, <3>2, RunEnds, NothingHeld
    <3>3. CASE job[v].d # job[w].d
      BY <1>3, <1>5, <1>18, <3>1, <3>3, RunEnds
    <3>. QED  BY <3>2, <3>3
  <2>. QED  BY <2>1, <2>2
<1>19. ASSUME NEW w \in Workers, Close(w), NEW v \in Workers PROVE Next1(v)
  <2>1. /\ execution' = execution
        /\ \A d \in Delegations : frontier'[d] = frontier[d] \/ execution[d].status \in Closed
    BY <1>19 DEF Close
  <2>2. CASE v # w
    <3>1. job'[v] = job[v]
      BY <1>19, <2>2, OneTaskMoves DEF WorkerStep
    <3>2. CASE execution[job[v].d].status \in Closed
      BY <2>1, <3>1, <3>2, NothingHeld DEF Closed
    <3>3. CASE execution[job[v].d].status \notin Closed
      BY <1>3, <1>5, <2>1, <3>1, <3>3
    <3>. QED  BY <3>2, <3>3
  <2>3. CASE v = w
    BY <1>19, <2>3, TaskMoves, NothingHeld
  <2>. QED  BY <2>2, <2>3
<1>20. ASSUME NEW d \in Delegations, Recover(d), NEW v \in Workers PROVE Next1(v)
  <2>1. /\ job' = job /\ execution' = execution
        /\ execution[d].status = "running" /\ ~(execution[d].lease > 0) /\ Unlocked(d)
        /\ \A e \in Delegations \ {d} : frontier'[e] = frontier[e]
    BY <1>20 DEF Recover, Live
  <2>2. CASE job[v].d = d
    <3>1. job[v].pc \in {"idle", "dead", "finalize", "close"}
      BY <1>3, <1>7, <2>1, <2>2 DEF JobShape, Phases, Claiming, Working
    <3>. QED  BY <2>1, <3>1, NothingHeld
  <2>3. CASE job[v].d # d
    BY <1>3, <1>5, <2>1, <2>3
  <2>. QED  BY <2>2, <2>3
<1>21. ASSUME NEW d \in Delegations, CancelExecution(d), NEW v \in Workers PROVE Next1(v)
  <2>1. /\ job' = job /\ frontier' = frontier
        /\ execution' = [execution EXCEPT ![d] = Closing(@, "cancelled")]
    BY <1>21 DEF CancelExecution
  <2>2. CASE job[v].d = d
    <3>1. execution'[d].status # "running"
      BY <1>6, <2>1 DEF Closed
    <3>. QED  BY <2>1, <2>2, <3>1, NothingHeld
  <2>3. CASE job[v].d # d
    BY <1>3, <1>5, <2>1, <2>3
  <2>. QED  BY <2>2, <2>3
<1>22. ASSUME Tick, NEW v \in Workers PROVE Next1(v)
  <2>1. /\ job'[v] = [job[v] EXCEPT !.copyLease = Less(@), !.deadline = Less(@)]
        /\ execution'[job[v].d] = [execution[job[v].d] EXCEPT !.lease = Less(@)]
        /\ frontier'[job[v].d] = [frontier[job[v].d] EXCEPT !.lease = Less(@)]
        /\ faults' = faults
        /\ Prompt(v)
    BY <1>3, <1>22 DEF Tick
  <2>2. /\ job'[v].pc = job[v].pc /\ job'[v].d = job[v].d
        /\ job'[v].deadline = Less(job[v].deadline)
        /\ execution'[job[v].d].status = execution[job[v].d].status
        /\ execution'[job[v].d].owner = execution[job[v].d].owner
        /\ execution'[job[v].d].lease = Less(execution[job[v].d].lease)
        /\ frontier'[job[v].d].status = frontier[job[v].d].status
    BY <1>3, <2>1 DEF JobShape, ExecutionShape, FrontierShape
  <2>3. /\ job[v].deadline \in Nat /\ execution[job[v].d].lease \in Nat
        /\ frontier[job[v].d].lease \in Nat
    BY <1>3 DEF JobShape, ExecutionShape, FrontierShape
  <2>4. CASE job[v].pc \in {"idle", "dead"}
    BY <2>2, <2>4, NothingHeld
  <2>5. CASE job[v].pc = "running"
    <3>1. execution[job[v].d].lease >= job[v].deadline
          => Less(execution[job[v].d].lease) >= Less(job[v].deadline)
      BY <2>3 DEF Less
    <3>2. execution[job[v].d].status = "running" =>
            /\ execution[job[v].d].owner = v /\ frontier[job[v].d].status = "running"
            /\ RunsFitTheLease /\ "probe" \in faults
                 => execution[job[v].d].lease >= job[v].deadline
      BY <1>1, <2>5 DEF HoldsWork, Claiming, Working
    <3>3. "running" \notin Claiming \cup {"probing", "loaded"}
      BY DEF Claiming
    <3>4. RunsFitTheLease /\ "probe" \in faults' /\ execution'[job'[v].d].status = "running"
            => execution'[job'[v].d].lease >= job'[v].deadline
      BY <2>1, <2>2, <3>1, <3>2
    <3>. QED  BY <2>2, <2>5, <3>2, <3>3, <3>4 DEF HoldsWork
  <2>6. CASE job[v].pc = "probing" /\ Shorter(execution[job[v].d].lease, frontier[job[v].d].lease) > 1
    <3>1. Less(execution[job[v].d].lease) > 0
      BY <2>3, <2>6 DEF Less, Shorter
    <3>2. execution[job[v].d].status = "running" =>
            execution[job[v].d].owner = v /\ frontier[job[v].d].status = "running"
      BY <1>1, <2>6 DEF HoldsWork, Working
    <3>3. "probing" \notin Claiming \cup {"running", "loaded"}
      BY DEF Claiming
    <3>. QED  BY <2>2, <2>6, <3>1, <3>2, <3>3 DEF HoldsWork
  <2>. QED  BY <1>2, <2>1, <2>4, <2>5, <2>6 DEF Prompt, At
<1>23. ASSUME NEW d \in Delegations, DelegationRequests(d) \/ ReadToCancelExecution(d), NEW v \in Workers
       PROVE  Next1(v)
  <2>1. job' = job /\ execution' = execution /\ frontier' = frontier
    BY <1>23 DEF DelegationRequests, Create, ReadToCancel, Cancel, ReadToCancelExecution
  <2>. QED  BY <1>5, <2>1
<1>24. ASSUME SourceEnds \/ Republish \/ UNCHANGED vars, NEW v \in Workers PROVE Next1(v)
  <2>1. job' = job /\ execution' = execution /\ frontier' = frontier
    BY <1>24 DEF SourceEnds, Republish, vars
  <2>. QED  BY <1>5, <2>1
<1>25. ASSUME NEW w \in Workers, NEW v \in Workers,
              \/ WorkerStep(w) \/ Heartbeat(w) \/ HeartbeatCancels(w) \/ LeaseLost(w)
              \/ RunProbes(w) \/ Crash(w) \/ Stall(w)
              \/ \E d \in Delegations : ClaimDelegation(w, d) \/ ClaimFrontier(w, d)
       PROVE  Next1(v)
  BY <1>2, <1>9, <1>10, <1>11, <1>12, <1>13, <1>14, <1>15, <1>16, <1>17, <1>18, <1>19, <1>25
     DEF WorkerStep
<1>. QED
  <2>. SUFFICES ASSUME NEW v \in Workers PROVE Next1(v)
    OBVIOUS
  <2>. QED  BY <1>20, <1>21, <1>22, <1>23, <1>24, <1>25 DEF Next

-----------------------------------------------------------------------------
(* One worker at a time has the work in hand, and what it reports is true. *)

(* Work in hand stays with its delegation, and is taken in hand by loading it or, for *)
(* a run that ends, was in hand before.                                               *)
LEMMA InHandBefore ==
    ASSUME Shape, [Next]_vars, NEW w \in Workers, job'[w].pc \in InHand
    PROVE  job'[w].d = job[w].d /\ (job[w].pc \in InHand \/ Load(w))
<1>. USE DEF Shape
<1>1. CASE RunCompletes(w) \/ RunFails(w) \/ RunTimesOut(w)
  BY <1>1, RunEnds DEF InHand
<1>2. CASE LeaseLost(w) /\ job'[w].pc = "finalize"
  BY <1>2, LostAndReported DEF InHand
<1>3. ASSUME NEW d \in Delegations PROVE ~(ClaimDelegation(w, d) \/ ClaimFrontier(w, d))
  <2>1. job[w] \in JobShape
    OBVIOUS
  <2>. QED  BY <2>1 DEF ClaimDelegation, ClaimFrontier, JobShape, InHand
<1>4. job'[w].pc \notin {"idle", "dead"}
  BY DEF InHand
<1>. QED  BY <1>1, <1>2, <1>3, <1>4, TaskChanges

(* Work that is loaded is running, and its worker's. *)
LEMMA LoadedIsOwned ==
    ASSUME Shape, NEW w \in Workers, Load(w), job'[w].pc \in InHand
    PROVE  /\ execution[job[w].d].status = "running" /\ execution[job[w].d].owner = w
           /\ delegation[job[w].d].status = "running"
<1>. USE DEF Shape
<1>1. job[w] \in JobShape
  OBVIOUS
<1>. QED  BY <1>1 DEF Load, Bridged, Goto, JobShape, InHand

(* Every step keeps the work in one hand: it is loaded by the execution's owner only, *)
(* and whoever has it in hand by then owns it too.                                    *)
LEMMA ExclusiveStep ==
    Shape /\ WorkExists /\ TasksHold /\ RunsAreExclusive /\ [Next]_vars => RunsAreExclusive'
<1>. SUFFICES ASSUME Shape, WorkExists, TasksHold, RunsAreExclusive, [Next]_vars, Timely',
                     NEW v \in Workers, NEW w \in Workers,
                     job'[v].pc \in InHand, job'[w].pc \in InHand, job'[v].d = job'[w].d
              PROVE  v = w
  BY DEF RunsAreExclusive, InHand
<1>. USE DEF Shape
<1>1. /\ \A u \in Workers : HoldsWork(u, job[u], execution[job[u].d], frontier[job[u].d], faults)
      /\ \A x, y \in Workers : job[x].pc \in InHand /\ job[y].pc \in InHand /\ job[x].d = job[y].d
                                 => x = y
  <2>1. Timely
    BY FaultsShrink DEF Timely
  <2>. QED  BY <2>1 DEF TasksHold, RunsAreExclusive, InHand
<1>2. /\ job[v].pc \in InHand \/ Load(v)
      /\ job[w].pc \in InHand \/ Load(w)
      /\ job[v].d = job[w].d
  BY InHandBefore
<1>3. ASSUME NEW x \in Workers, NEW y \in Workers, Load(x), job'[x].pc \in InHand,
             job[y].pc \in InHand \/ Load(y), job'[y].pc \in InHand, job[x].d = job[y].d
      PROVE  x = y
  <2>1. execution[job[x].d].status = "running" /\ execution[job[x].d].owner = x
    BY <1>3, LoadedIsOwned
  <2>2. job[y].pc \in InHand => job[y].pc \in Claiming \cup Working
    BY <1>3, <2>1 DEF WorkExists, InHand, Claiming, Working, Closed
  <2>3. Load(y) => execution[job[y].d].owner = y
    BY <1>3, LoadedIsOwned
  <2>. QED  BY <1>1, <1>3, <2>1, <2>2, <2>3 DEF HoldsWork
<1>. QED  BY <1>1, <1>2, <1>3

\* How an execution ends when its delegation's outcome is reported.
Reported(outcome) == IF outcome = "timed_out" THEN "cancelled" ELSE outcome

\* A report that is due finds the execution as the run left it; one that has been made
\* is true, and nobody works on the delegation any more.
ReportsHold ==
    Timely /\ Unused({"cancel_execution"}) =>
      /\ \A w \in Workers : job[w].pc = "finalize"
                              => execution[job[w].d].status = Reported(job[w].outcome)
      /\ \A d \in Delegations : delegation[d].status \in Outcomes =>
           /\ execution[d].status = Reported(delegation[d].status)
           /\ \A w \in Workers : job[w].pc \in InHand => job[w].d # d

(* While no operator touches it, an execution changes its status only by the end of a *)
(* run on it, or when its delegation is claimed.                                     *)
LEMMA OnlyRunsEnd ==
    ASSUME Shape, WorkExists, FaultsShow, Unused({"cancel_execution"}), [Next]_vars,
           NEW d \in Delegations, execution'[d].status # execution[d].status
    PROVE  \E w \in Workers : \/ ClaimDelegation(w, d)
                              \/ /\ RunCompletes(w) \/ RunFails(w) \/ RunTimesOut(w)
                                 /\ job[w].d = d
<1>. USE DEF Shape
<1>1. \A e \in Delegations : ~CancelExecution(e)
  BY DEF CancelExecution, FaultsShow
<1>2. CASE \E w \in Workers : RunCompletes(w) \/ RunFails(w) \/ RunTimesOut(w)
  BY <1>2, RunEnds
<1>3. ASSUME NEW w \in Workers, WorkerStep(w), ~(RunCompletes(w) \/ RunFails(w) \/ RunTimesOut(w))
      PROVE  FALSE
  BY <1>3 DEF WorkerStep, Activate, VerifyOwnership, Load, StartNode, RunRejected, Finalize, Close
<1>4. ASSUME NEW w \in Workers, HeartbeatCancels(w) \/ LeaseLost(w) \/ RunProbes(w) \/ Crash(w) \/ Stall(w)
      PROVE  FALSE
  BY <1>4 DEF HeartbeatCancels, LeaseLost, RunProbes, Crash, Stall
<1>5. ASSUME NEW w \in Workers, Heartbeat(w) PROVE FALSE
  <2>1. execution' = [execution EXCEPT ![job[w].d].lease = LeaseTime] /\ job[w].d \in Delegations
    BY <1>5 DEF Heartbeat, JobShape
  <2>. QED  BY <2>1 DEF ExecutionShape
<1>6. ASSUME NEW w \in Workers, NEW e \in Delegations, ClaimFrontier(w, e) PROVE FALSE
  BY <1>6, ClaimTakes
<1>7. ASSUME NEW w \in Workers, NEW e \in Delegations, ClaimDelegation(w, e) PROVE e = d
  BY <1>7 DEF ClaimDelegation
<1>8. ASSUME NEW e \in Delegations, DelegationRequests(e) \/ ReadToCancelExecution(e) \/ Recover(e)
      PROVE  FALSE
  BY <1>8 DEF DelegationRequests, Create, ReadToCancel, Cancel, ReadToCancelExecution, Recover
<1>9. ~Tick
  <2>1. Tick => execution'[d] = [execution[d] EXCEPT !.lease = Less(@)]
    BY DEF Tick
  <2>. QED  BY <2>1 DEF ExecutionShape
<1>10. ~(SourceEnds \/ Republish \/ UNCHANGED vars)
  BY DEF SourceEnds, Republish, vars
<1>11. (\E w \in Workers : WorkerStep(w)) => (\E w \in Workers : RunCompletes(w) \/ RunFails(w) \/ RunTimesOut(w))
  BY <1>3
<1>. QED  BY <1>1, <1>2, <1>4, <1>5, <1>6, <1>7, <1>8, <1>9, <1>10, <1>11 DEF Next

(* An outcome is written by the worker that reports it, and by nobody else.            *)
LEMMA OutcomeWritten ==
    ASSUME Shape, [Next]_vars, NEW d \in Delegations, delegation'[d].status \in Outcomes
    PROVE  \/ delegation[d].status = delegation'[d].status
           \/ \E w \in Workers : Finalize(w) /\ job[w].d = d /\ delegation'[d].status = job[w].outcome
<1>. USE DEF Shape
<1>0. delegation[d] \in DelegationShape
  OBVIOUS
<1>1. ASSUME NEW w \in Workers, Finalize(w)
      PROVE  \/ delegation[d].status = delegation'[d].status
             \/ job[w].d = d /\ delegation'[d].status = job[w].outcome
  <2>1. PICK admitted \in {{"completed"}, {"failed"}, {"pending", "running", "cancelled"}} :
           LockAndEnd(job[w].d, job[w].outcome, admitted)
    BY <1>1 DEF Finalize, CompleteDelegation, FailDelegation, TimeoutDelegation
  <2>2. \/ delegation' = delegation
        \/ delegation' = [delegation EXCEPT ![job[w].d].status = job[w].outcome]
    BY <2>1 DEF LockAndEnd
  <2>3. [delegation[d] EXCEPT !.status = job[w].outcome].status = job[w].outcome
    BY <1>0 DEF DelegationShape
  <2>4. CASE job[w].d = d
    BY <2>2, <2>3, <2>4
  <2>5. CASE job[w].d # d
    BY <2>2, <2>5
  <2>. QED  BY <2>4, <2>5
<1>2. ASSUME NEW e \in Delegations, DelegationRequests(e)
      PROVE  delegation[d].status = delegation'[d].status
  <2>1. CASE Create(e)
    BY <1>0, <2>1 DEF Create, Outcomes
  <2>2. CASE Cancel(e)
    BY <1>0, <2>2 DEF Cancel, DelegationShape, Outcomes
  <2>3. CASE ReadToCancel(e)
    BY <2>3 DEF ReadToCancel
  <2>. QED  BY <1>2, <2>1, <2>2, <2>3 DEF DelegationRequests
<1>3. ASSUME NEW w \in Workers, NEW e \in Delegations, ClaimDelegation(w, e) \/ ClaimFrontier(w, e)
      PROVE  delegation[d].status = delegation'[d].status
  BY <1>0, <1>3 DEF ClaimDelegation, ClaimFrontier, DelegationShape, Outcomes
<1>4. ASSUME Tick PROVE delegation[d].status = delegation'[d].status
  <2>1. delegation'[d] = [delegation[d] EXCEPT !.timer = Less(@)]
    BY <1>4 DEF Tick
  <2>. QED  BY <1>0, <2>1 DEF DelegationShape
<1>5. ASSUME NEW w \in Workers, WorkerStep(w), ~Finalize(w) PROVE delegation' = delegation
  BY <1>5 DEF WorkerStep, Activate, VerifyOwnership, Load, StartNode, RunCompletes, RunFails,
              RunRejected, RunTimesOut, Close
<1>6. ASSUME NEW w \in Workers, Heartbeat(w) \/ HeartbeatCancels(w) \/ LeaseLost(w)
                                \/ RunProbes(w) \/ Crash(w) \/ Stall(w)
      PROVE  delegation' = delegation
  BY <1>6 DEF Heartbeat, HeartbeatCancels, LeaseLost, RunProbes, Crash, Stall
<1>7. ASSUME NEW e \in Delegations, ReadToCancelExecution(e) \/ CancelExecution(e) \/ Recover(e)
      PROVE  delegation' = delegation
  BY <1>7 DEF ReadToCancelExecution, CancelExecution, Recover
<1>8. ASSUME SourceEnds \/ Republish \/ UNCHANGED vars PROVE delegation' = delegation
  BY <1>8 DEF SourceEnds, Republish, vars
<1>9. ASSUME ~\E w \in Workers : Finalize(w) PROVE delegation[d].status = delegation'[d].status
  BY <1>2, <1>3, <1>4, <1>5, <1>6, <1>7, <1>8, <1>9 DEF Next
<1>. QED  BY <1>1, <1>9

(* Every step keeps that the reports are true. *)
LEMMA ReportsHoldStep ==
    Shape /\ WorkExists /\ FaultsShow /\ RunsAreExclusive /\ ReportsHold /\ [Next]_vars => ReportsHold'
<1>. SUFFICES ASSUME Shape, WorkExists, FaultsShow, RunsAreExclusive, ReportsHold, [Next]_vars,
                     Timely', Unused({"cancel_execution"})'
              PROVE  /\ \A w \in Workers : job'[w].pc = "finalize"
                          => execution'[job'[w].d].status = Reported(job'[w].outcome)
                     /\ \A d \in Delegations : delegation'[d].status \in Outcomes =>
                          /\ execution'[d].status = Reported(delegation'[d].status)
                          /\ \A w \in Workers : job'[w].pc \in InHand => job'[w].d # d
  BY DEF ReportsHold
<1>. USE DEF Shape
<1>1. Timely /\ Unused({"cancel_execution"})
  BY FaultsShrink DEF Timely
<1>2. /\ \A w \in Workers : job[w].pc = "finalize"
                              => execution[job[w].d].status = Reported(job[w].outcome)
      /\ \A d \in Delegations : delegation[d].status \in Outcomes =>
           /\ execution[d].status = Reported(delegation[d].status)
           /\ \A w \in Workers : job[w].pc \in InHand => job[w].d # d
      /\ \A v, w \in Workers : job[v].pc \in InHand /\ job[w].pc \in InHand /\ job[v].d = job[w].d
                                 => v = w
  BY <1>1 DEF ReportsHold, RunsAreExclusive, InHand
<1>3. ASSUME NEW w \in Workers, job'[w].pc = "finalize"
      PROVE  execution'[job'[w].d].status = Reported(job'[w].outcome)
  <2>1. CASE RunCompletes(w) \/ RunFails(w) \/ RunTimesOut(w)
    BY <2>1, RunEnds DEF Reported
  <2>2. CASE LeaseLost(w)
    BY <1>3, <2>2, LostAndReported DEF Reported
  <2>3. CASE job'[w].pc = job[w].pc /\ job'[w].d = job[w].d /\ job'[w].outcome = job[w].outcome
    <3>1. job[w].d \in Delegations /\ job[w].pc = "finalize"
      BY <1>3, <2>3 DEF JobShape
    <3>2. \A x \in Workers : ~ClaimDelegation(x, job[w].d)
      BY <3>1, ClaimBegins DEF WorkExists
    <3>3. ASSUME NEW x \in Workers, RunCompletes(x) \/ RunFails(x) \/ RunTimesOut(x), job[x].d = job[w].d
          PROVE  FALSE
      <4>1. job[x].pc = "running"
        BY <3>3, RunEnds
      <4>. QED  BY <1>2, <3>1, <3>3, <4>1 DEF InHand
    <3>4. execution'[job[w].d].status = execution[job[w].d].status
      BY <1>1, <3>1, <3>2, <3>3, OnlyRunsEnd
    <3>. QED  BY <1>2, <2>3, <3>1, <3>4
  <2>4. ASSUME NEW d \in Delegations PROVE ~(ClaimDelegation(w, d) \/ ClaimFrontier(w, d))
    BY <1>3, ClaimBegins, ClaimTakes
  <2>. QED  BY <1>3, <2>1, <2>2, <2>3, <2>4, TaskChanges
<1>4. ASSUME NEW d \in Delegations, delegation'[d].status \in Outcomes
      PROVE  /\ execution'[d].status = Reported(delegation'[d].status)
             /\ \A w \in Workers : job'[w].pc \in InHand => job'[w].d # d
  <2>1. CASE delegation'[d].status = delegation[d].status
    <3>1. \A x \in Workers : ~ClaimDelegation(x, d)
      BY <1>4, ClaimBegins DEF Outcomes
    <3>2. ASSUME NEW x \in Workers, RunCompletes(x) \/ RunFails(x) \/ RunTimesOut(x) PROVE job[x].d # d
      BY <1>2, <1>4, <2>1, <3>2, RunEnds DEF InHand
    <3>3. execution'[d].status = execution[d].status
      BY <1>1, <3>1, <3>2, OnlyRunsEnd
    <3>4. ASSUME NEW w \in Workers, job'[w].pc \in InHand PROVE job'[w].d # d
      <4>1. job'[w].d = job[w].d /\ (job[w].pc \in InHand \/ Load(w))
        BY <3>4, InHandBefore
      <4>2. Load(w) => delegation[job[w].d].status \notin Outcomes
        BY <3>4, LoadedIsOwned DEF Outcomes
      <4>. QED  BY <1>2, <1>4, <2>1, <4>1, <4>2
    <3>. QED  BY <1>2, <1>4, <2>1, <3>3, <3>4
  <2>2. ASSUME NEW x \in Workers, Finalize(x), job[x].d = d, delegation'[d].status = job[x].outcome
        PROVE  /\ execution'[d].status = Reported(delegation'[d].status)
               /\ \A w \in Workers : job'[w].pc \in InHand => job'[w].d # d
    <3>1. job[x].pc = "finalize" /\ job'[x].pc = "close" /\ execution' = execution
      BY <2>2, TaskMoves DEF Finalize
    <3>2. ASSUME NEW w \in Workers, job'[w].pc \in InHand PROVE job'[w].d # d
      <4>1. w # x
        BY <3>1, <3>2 DEF InHand
      <4>2. job'[w] = job[w]
        BY <2>2, <4>1, OneTaskMoves DEF WorkerStep
      <4>. QED  BY <1>2, <2>2, <3>1, <3>2, <4>1, <4>2 DEF InHand
    <3>. QED  BY <1>2, <2>2, <3>1, <3>2
  <2>. QED  BY <1>4, <2>1, <2>2, OutcomeWritten
<1>. QED  BY <1>3, <1>4

\* All of it together is inductive.
DelegationInv == Shape /\ WorkExists /\ FaultsShow /\ TasksHold /\ RunsAreExclusive /\ ReportsHold

(* The invariant holds throughout, for any number of delegations and workers. *)
LEMMA DelegationInvariant == Spec => []DelegationInv
<1>1. Init => DelegationInv
  <2>. SUFFICES ASSUME Init PROVE DelegationInv
    OBVIOUS
  <2>1. Shape /\ WorkExists /\ FaultsShow
    BY ShapeInit, FirstRows
  <2>2. \A w \in Workers : job[w].pc = "idle"
    BY NoTaskShape DEF Init
  <2>3. TasksHold
    BY <2>2, NothingHeld DEF TasksHold
  <2>4. RunsAreExclusive
    BY <2>2 DEF RunsAreExclusive
  <2>5. ReportsHold
    <3>1. \A d \in Delegations : delegation[d].status = "absent"
      BY DEF Init
    <3>. QED  BY <2>2, <3>1 DEF ReportsHold, InHand, Outcomes
  <2>. QED  BY <2>1, <2>3, <2>4, <2>5 DEF DelegationInv
<1>2. DelegationInv /\ [Next]_vars => DelegationInv'
  BY ShapeStep, WorkExistsStep, FaultsShowStep, TasksHoldStep, ExclusiveStep, ReportsHoldStep
     DEF DelegationInv
<1>. QED  BY <1>1, <1>2, PTL DEF Spec

(* Two workers never have one delegation's work in hand, from its loading to the       *)
(* report of its end, through crashes of workers, lease takeovers and recovery, as     *)
(* long as no worker stalls and, if a probe lets the row lock go, runs fit the lease.  *)
THEOREM ExclusiveRuns == Spec => []RunsAreExclusive
<1>1. DelegationInv => RunsAreExclusive
  BY DEF DelegationInv
<1>. QED  BY <1>1, DelegationInvariant, PTL

(* A delegation that is completed, failed or timed out says what became of the worker  *)
(* execution, although another transaction, after the run's and on what the run        *)
(* reported, writes it.                                                                *)
THEOREM OutcomesAreTrue == Spec => []OutcomesMatchTheWork
<1>1. DelegationInv => OutcomesMatchTheWork
  BY DEF DelegationInv, ReportsHold, OutcomesMatchTheWork, Outcomes, Reported
<1>. QED  BY <1>1, DelegationInvariant, PTL
==============================================================================
