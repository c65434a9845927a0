----------------------- MODULE DurableFrontier_proofs -----------------------
(***************************************************************************)
(* Proofs about DurableFrontier for every number of workers, frontiers,    *)
(* lease length and fault budget.                                          *)
(***************************************************************************)
EXTENDS DurableFrontier, TLAPS

-----------------------------------------------------------------------------
(* Types. *)

\* What TypeOK says of the rows, and of the tasks.
RowsOK ==
    /\ ex \in ExecutionRows
    /\ fr \in [StepIds -> FrontierRows]
    /\ node \in [StepIds -> NodeStates]
    /\ ckpt \in Seq(StepIds)

TasksOK ==
    /\ lock \in Slots \cup {NoSlot}
    /\ pc \in [Slots -> Phases]
    /\ job \in [Slots -> [step : StepIds, attempt : Nat]]
    /\ cache \in [Slots -> ExecutionRows]
    /\ age \in [Slots -> 0..MaxRun]
    /\ hb \in [Slots -> {"off", "due", "asleep"}]
    /\ hbAge \in [Slots -> 0..MaxRun]

EnvironmentOK ==
    /\ req \in [pc : {"idle", "loaded"}, row : ExecutionRows]
    /\ budget \in [FaultKinds -> Nat]

(* Leases run from NoLease up to a fresh one, and a tick keeps them there.   *)
LEMMA LeaseType ==
    /\ NoLease \in Leases
    /\ LeaseTime \in Leases
    /\ \A lease \in Leases : lease \in Int /\ Later(lease) \in Leases
    /\ \A elapsed \in 0..MaxRun : LeaseTime - elapsed \in Leases
BY TimeAssumption DEF Leases, NoLease, Later

(* A new execution, an absent and a pending frontier are rows.              *)
LEMMA NewRows ==
    /\ NewExecution \in ExecutionRows
    /\ AbsentFrontier \in FrontierRows
    /\ PendingFrontier \in FrontierRows
    /\ NoJob \in [step : StepIds, attempt : Nat]
BY LeaseType, TimeAssumption, StepsAssumption
   DEF NewExecution, AbsentFrontier, PendingFrontier, NoJob, ExecutionRows, FrontierRows,
       ExecutionStates, FrontierStates, Terminal, Active, StepIds

(* Closing a frontier with any status gives a frontier row.                 *)
LEMMA ClosedRow ==
    ASSUME fr \in [StepIds -> FrontierRows], NEW i \in StepIds, NEW status \in FrontierStates
    PROVE  /\ ClosedFrontier(i, status) \in FrontierRows
           /\ ClosedFrontier(i, status).status = status
           /\ ClosedFrontier(i, status).attempt = fr[i].attempt
<1>1. fr[i] \in FrontierRows
  OBVIOUS
<1>. QED  BY <1>1, LeaseType DEF ClosedFrontier, FrontierRows

(* Ending a task keeps the types of all that is a task's.                   *)
LEMMA EndTaskType ==
    ASSUME TasksOK, NEW s \in Slots, EndTask(s)
    PROVE  TasksOK'
BY NewRows, TimeAssumption DEF TasksOK, EndTask, Unlock, Phases

(* So does raising an exception.                                            *)
LEMMA RaiseType ==
    ASSUME TasksOK, NEW s \in Slots, NEW kind \in Raised, Raise(s, kind),
           UNCHANGED <<job, cache, hb, hbAge>>
    PROVE  TasksOK'
BY TimeAssumption DEF TasksOK, Raise, Unlock, Phases, Busy, Raised

(* Every step of Next keeps the types: one case per action.                 *)
LEMMA TypeStep == TypeOK /\ [Next]_vars => TypeOK'
<1>. SUFFICES ASSUME RowsOK, TasksOK, EnvironmentOK, [Next]_vars
              PROVE  RowsOK' /\ TasksOK' /\ EnvironmentOK'
  BY DEF TypeOK, RowsOK, TasksOK, EnvironmentOK
<1>. USE TimeAssumption
<1>1. ASSUME NEW s \in Slots, NEW i \in StepIds, Claim(s, i)
      PROVE  RowsOK' /\ TasksOK' /\ EnvironmentOK'
  <2>1. ClaimedExecution(Mine(s)) \in ExecutionRows
    BY OwnerAssumption, LeaseType
       DEF RowsOK, ClaimedExecution, Mine, ExecutionRows, ExecutionStates
  <2>2. ClaimGeneration(i) \in Nat /\ fr[i] \in FrontierRows
    BY DEF RowsOK, ClaimGeneration, FrontierRows
  <2>3. [fr[i] EXCEPT !.status = "running", !.owner = Mine(s), !.lease = LeaseTime,
                      !.attempt = ClaimGeneration(i)] \in FrontierRows
    BY <2>2, OwnerAssumption, LeaseType DEF Mine, FrontierRows, FrontierStates, Active
  <2>4. RowsOK'
    BY <1>1, <2>1, <2>3 DEF RowsOK, Claim
  <2>5. TasksOK'
    BY <1>1, <2>2 DEF TasksOK, Claim, Phases, Busy
  <2>6. EnvironmentOK'
    BY <1>1 DEF EnvironmentOK, Claim
  <2>. QED  BY <2>4, <2>5, <2>6
<1>2. ASSUME NEW s \in Slots, Verify(s)
      PROVE  RowsOK' /\ TasksOK' /\ EnvironmentOK'
  <2>1. RowsOK' /\ EnvironmentOK'
    BY <1>2 DEF RowsOK, EnvironmentOK, Verify
  <2>2. CASE EndTask(s)
    BY <2>1, <2>2, EndTaskType
  <2>3. CASE /\ pc' = [pc EXCEPT ![s] = "verified"]
             /\ hb' = [hb EXCEPT ![s] = "due"]
             /\ age' = [age EXCEPT ![s] = 0]
             /\ UNCHANGED <<lock, job, cache, hbAge>>
    BY <2>1, <2>3 DEF TasksOK, Phases, Busy
  <2>. QED  BY <1>2, <2>2, <2>3 DEF Verify
<1>3. ASSUME NEW s \in Slots, Load(s)
      PROVE  RowsOK' /\ TasksOK' /\ EnvironmentOK'
  BY <1>3 DEF Load, RowsOK, TasksOK, EnvironmentOK, Phases, Busy
<1>4. ASSUME NEW s \in Slots, StartNode(s)
      PROVE  RowsOK' /\ TasksOK' /\ EnvironmentOK'
  <2>1. RowsOK' /\ EnvironmentOK'
    BY <1>4 DEF RowsOK, EnvironmentOK, StartNode
  <2>2. CASE Raise(s, "raised_fatal")
    BY <1>4, <2>1, <2>2, RaiseType DEF StartNode, Raised
  <2>3. CASE pc' = [pc EXCEPT ![s] = "run"] /\ lock' = s /\ UNCHANGED age
    BY <1>4, <2>1, <2>3 DEF StartNode, TasksOK, Phases, Busy
  <2>. QED  BY <1>4, <2>2, <2>3 DEF StartNode
<1>5. ASSUME NEW s \in Slots, FinishNode(s) \/ NextNode(s)
      PROVE  RowsOK' /\ TasksOK' /\ EnvironmentOK'
  <2>1. RowsOK' /\ EnvironmentOK'
    BY <1>5 DEF RowsOK, EnvironmentOK, FinishNode, NextNode
  <2>2. CASE Raise(s, "raised_fatal")
    BY <1>5, <2>1, <2>2, RaiseType DEF FinishNode, NextNode, Raised
  <2>3. CASE /\ \E phase \in {"ran", "rest"} : pc' = [pc EXCEPT ![s] = phase]
             /\ lock' = s /\ UNCHANGED age
    BY <1>5, <2>1, <2>3 DEF FinishNode, NextNode, TasksOK, Phases, Busy
  <2>. QED  BY <1>5, <2>2, <2>3 DEF FinishNode, NextNode
<1>6. ASSUME NEW s \in Slots, CompleteStep(s)
      PROVE  RowsOK' /\ TasksOK' /\ EnvironmentOK'
  <2>1. Step(s) \in StepIds /\ Step(s) + 1 \in StepIds
    BY <1>6, StepsAssumption DEF TasksOK, Step, CompleteStep, CanAdvance, StepIds
  <2>2. ClosedFrontier(Step(s), "completed") \in FrontierRows
    BY <2>1, ClosedRow DEF RowsOK, FrontierStates
  <2>3. fr' \in [StepIds -> FrontierRows]
    BY <1>6, <2>1, <2>2, NewRows DEF RowsOK, CompleteStep, Enqueued
  <2>4. ckpt' \in Seq(StepIds)
    BY <1>6, <2>1 DEF RowsOK, CompleteStep, AppendCheckpoint
  <2>5. RowsOK'
    BY <1>6, <2>3, <2>4 DEF RowsOK, CompleteStep, NodeStates
  <2>6. TasksOK' /\ EnvironmentOK'
    BY <1>6, EndTaskType DEF CompleteStep, EnvironmentOK
  <2>. QED  BY <2>5, <2>6
<1>7. ASSUME NEW s \in Slots, CompleteLast(s)
      PROVE  RowsOK' /\ TasksOK' /\ EnvironmentOK'
  <2>1. Step(s) \in StepIds
    BY DEF TasksOK, Step
  <2>2. ClosedFrontier(Step(s), "completed") \in FrontierRows
    BY <2>1, ClosedRow DEF RowsOK, FrontierStates
  <2>3. ex' \in ExecutionRows
    BY <1>7, LeaseType DEF CompleteLast, RowsOK, ExecutionRows, ExecutionStates, Terminal
  <2>4. RowsOK'
    BY <1>7, <2>1, <2>2, <2>3 DEF RowsOK, CompleteLast, AppendCheckpoint, NodeStates
  <2>5. TasksOK' /\ EnvironmentOK'
    BY <1>7, EndTaskType DEF CompleteLast, EnvironmentOK
  <2>. QED  BY <2>4, <2>5
<1>8. ASSUME NEW s \in Slots, CompletionRejected(s)
      PROVE  RowsOK' /\ TasksOK' /\ EnvironmentOK'
  <2>1. RowsOK' /\ EnvironmentOK'
    BY <1>8 DEF RowsOK, EnvironmentOK, CompletionRejected
  <2>. QED  BY <1>8, <2>1, RaiseType DEF CompletionRejected, Raised
<1>9. ASSUME NEW s \in Slots, ConvergeRetry(s)
      PROVE  RowsOK' /\ TasksOK' /\ EnvironmentOK'
  <2>1. PICK elapsed \in 0..age[s] :
           fr' = [fr EXCEPT ![Step(s)] =
                    [ClosedFrontier(Step(s), "retry_wait") EXCEPT
                       !.wait = Since(Backoff(job[s].attempt), elapsed)]]
    BY <1>9 DEF ConvergeRetry, RetryScheduled
  <2>2. Step(s) \in StepIds /\ elapsed \in Nat
    BY DEF TasksOK, Step
  <2>3. Backoff(job[s].attempt) \in 0..MaxDelay
    BY DEF Backoff
  <2>4. Since(Backoff(job[s].attempt), elapsed) \in 0..MaxDelay
    BY <2>2, <2>3 DEF Since
  <2>5. ClosedFrontier(Step(s), "retry_wait") \in FrontierRows
    BY <2>2, ClosedRow DEF RowsOK, FrontierStates, Active
  <2>6. fr' \in [StepIds -> FrontierRows]
    BY <2>1, <2>4, <2>5 DEF RowsOK, FrontierRows
  <2>7. ex' \in ExecutionRows
    BY <1>9, LeaseType DEF ConvergeRetry, RetryScheduled, RowsOK, ExecutionRows
  <2>8. RowsOK'
    BY <1>9, <2>6, <2>7 DEF RowsOK, ConvergeRetry, RetryScheduled, FailedNodeFact, NodeStates
  <2>9. TasksOK' /\ EnvironmentOK'
    BY <1>9, EndTaskType DEF ConvergeRetry, RetryScheduled, EnvironmentOK
  <2>. QED  BY <2>8, <2>9
<1>10. ASSUME NEW s \in Slots, ConvergeFail(s)
       PROVE  RowsOK' /\ TasksOK' /\ EnvironmentOK'
  <2>1. \A i \in StepIds : ClosedFrontier(i, "failed") \in FrontierRows
    BY ClosedRow DEF RowsOK, FrontierStates
  <2>2. fr' \in [StepIds -> FrontierRows]
    BY <1>10, <2>1 DEF RowsOK, ConvergeFail, FailActive
  <2>3. ex' \in ExecutionRows
    BY <1>10, LeaseType DEF ConvergeFail, RowsOK, ExecutionRows, ExecutionStates, Terminal
  <2>4. RowsOK'
    BY <1>10, <2>2, <2>3 DEF RowsOK, ConvergeFail, FailedNodeFact, NodeStates
  <2>5. TasksOK' /\ EnvironmentOK'
    BY <1>10, EndTaskType DEF ConvergeFail, EnvironmentOK
  <2>. QED  BY <2>4, <2>5
<1>11. ASSUME NEW s \in Slots, ConvergeLost(s) \/ HeartbeatLost(s)
       PROVE  RowsOK' /\ TasksOK' /\ EnvironmentOK'
  <2>1. EndTask(s) /\ UNCHANGED <<ex, fr, node, ckpt, req, budget>>
    BY <1>11 DEF ConvergeLost, HeartbeatLost
  <2>. QED  BY <2>1, EndTaskType DEF RowsOK, EnvironmentOK
<1>12. ASSUME NEW s \in Slots, HeartbeatRenews(s)
       PROVE  RowsOK' /\ TasksOK' /\ EnvironmentOK'
  <2>1. LeaseTime - hbAge[s] \in Leases
    BY LeaseType DEF TasksOK
  <2>2. ex' \in ExecutionRows
    BY <1>12, <2>1 DEF HeartbeatRenews, RenewedExecution, RowsOK, ExecutionRows
  <2>3. \A i \in StepIds : [fr[i] EXCEPT !.lease = LeaseTime - hbAge[s]] \in FrontierRows
    BY <2>1 DEF RowsOK, FrontierRows
  <2>4. fr' = [fr EXCEPT ![Step(s)] = [fr[Step(s)] EXCEPT !.lease = LeaseTime - hbAge[s]]]
    BY <1>12 DEF HeartbeatRenews
  <2>5. fr' \in [StepIds -> FrontierRows]
    BY <2>3, <2>4 DEF RowsOK
  <2>. QED  BY <1>12, <2>2, <2>5 DEF HeartbeatRenews, RowsOK, TasksOK, EnvironmentOK
<1>13. ASSUME NEW s \in Slots, HeartbeatSeesTerminal(s)
       PROVE  RowsOK' /\ TasksOK' /\ EnvironmentOK'
  BY <1>13 DEF HeartbeatSeesTerminal, RowsOK, TasksOK, EnvironmentOK
<1>14. ASSUME NEW s \in Slots, RetryNode(s)
       PROVE  RowsOK' /\ TasksOK' /\ EnvironmentOK'
  <2>1. RowsOK' /\ EnvironmentOK'
    BY <1>14 DEF RowsOK, EnvironmentOK, RetryNode
  <2>2. CASE Raise(s, "raised_fatal")
    BY <1>14, <2>1, <2>2, RaiseType DEF RetryNode, Raised
  <2>3. CASE lock' = s /\ UNCHANGED <<pc, age>>
    BY <1>14, <2>1, <2>3 DEF RetryNode, TasksOK
  <2>. QED  BY <1>14, <2>2, <2>3 DEF RetryNode
<1>15. ASSUME NEW s \in Slots, ProbeCommit(s)
       PROVE  RowsOK' /\ TasksOK' /\ EnvironmentOK'
  <2>1. RowsOK' /\ TasksOK'
    BY <1>15 DEF ProbeCommit, ProbedNodes, RowsOK, TasksOK, NodeStates
  <2>2. EnvironmentOK'
    BY <1>15 DEF ProbeCommit, EnvironmentOK, FaultKinds
  <2>. QED  BY <2>1, <2>2
<1>16. ASSUME NEW s \in Slots, NEW kind \in Raised, NodeFails(s, kind)
       PROVE  RowsOK' /\ TasksOK' /\ EnvironmentOK'
  <2>1. RowsOK' /\ EnvironmentOK'
    BY <1>16 DEF NodeFails, RowsOK, EnvironmentOK, FaultKinds
  <2>. QED  BY <1>16, <2>1, RaiseType DEF NodeFails
<1>17. ASSUME NEW s \in Slots, HeartbeatDies(s)
       PROVE  RowsOK' /\ TasksOK' /\ EnvironmentOK'
  <2>1. RowsOK' /\ EnvironmentOK'
    BY <1>17 DEF HeartbeatDies, RowsOK, EnvironmentOK, FaultKinds
  <2>2. TasksOK'
    BY <1>17 DEF HeartbeatDies, TasksOK
  <2>. QED  BY <2>1, <2>2
<1>18. ASSUME NEW s \in Slots, Crash(s)
       PROVE  RowsOK' /\ TasksOK' /\ EnvironmentOK'
  <2>1. RowsOK' /\ EnvironmentOK'
    BY <1>18 DEF Crash, RowsOK, EnvironmentOK, FaultKinds
  <2>. QED  BY <1>18, <2>1, EndTaskType DEF Crash
<1>19. ASSUME NEW i \in StepIds, Recover(i)
       PROVE  RowsOK' /\ TasksOK' /\ EnvironmentOK'
  <2>1. ClosedFrontier(i, "retry_wait") \in FrontierRows
    BY ClosedRow DEF RowsOK, FrontierStates, Active
  <2>2. [ClosedFrontier(i, "retry_wait") EXCEPT !.wait = 0] \in FrontierRows
    BY <2>1 DEF FrontierRows
  <2>3. fr' \in [StepIds -> FrontierRows]
    BY <1>19, <2>2 DEF Recover, RowsOK
  <2>. QED  BY <1>19, <2>3 DEF Recover, RowsOK, TasksOK, EnvironmentOK
<1>20. ASSUME CancelLoad
       PROVE  RowsOK' /\ TasksOK' /\ EnvironmentOK'
  BY <1>20 DEF CancelLoad, RowsOK, TasksOK, EnvironmentOK, FaultKinds
<1>21. ASSUME CancelApply
       PROVE  RowsOK' /\ TasksOK' /\ EnvironmentOK'
  <2>1. ex' \in ExecutionRows
    BY <1>21, LeaseType
       DEF CancelApply, Cancelled, RowsOK, ExecutionRows, ExecutionStates, Terminal
  <2>. QED  BY <1>21, <2>1 DEF CancelApply, RowsOK, TasksOK, EnvironmentOK
<1>22. ASSUME Tick
       PROVE  RowsOK' /\ TasksOK' /\ EnvironmentOK'
  <2>1. ex' \in ExecutionRows
    BY <1>22, LeaseType DEF Tick, RowsOK, ExecutionRows
  <2>2. \A i \in StepIds : fr[i] \in FrontierRows /\ Since(fr[i].wait, 1) \in 0..MaxDelay
    BY DEF RowsOK, FrontierRows, Since
  <2>3. fr' \in [StepIds -> FrontierRows]
    BY <1>22, <2>2, LeaseType DEF Tick, FrontierRows
  <2>4. \A s \in Slots : (pc[s] # "idle" => age[s] < MaxRun) /\ (hb[s] = "due" => hbAge[s] < MaxRun)
    BY <1>22 DEF Tick, TickAllowed
  <2>5. \A s \in Slots : /\ (IF pc[s] = "idle" THEN age[s] ELSE age[s] + 1) \in 0..MaxRun
                        /\ (IF hb[s] = "due" THEN hbAge[s] + 1 ELSE 0) \in 0..MaxRun
    BY <2>4 DEF TasksOK
  <2>6. age' \in [Slots -> 0..MaxRun] /\ hbAge' \in [Slots -> 0..MaxRun]
    BY <1>22, <2>5 DEF Tick
  <2>7. hb' \in [Slots -> {"off", "due", "asleep"}]
    BY <1>22 DEF Tick, TasksOK
  <2>8. TasksOK'
    BY <1>22, <2>6, <2>7 DEF Tick, TasksOK
  <2>. QED  BY <1>22, <2>1, <2>3, <2>8 DEF Tick, RowsOK, EnvironmentOK
<1>23. CASE UNCHANGED vars
  BY <1>23 DEF vars, RowsOK, TasksOK, EnvironmentOK
<1>. QED
  BY <1>1, <1>2, <1>3, <1>4, <1>5, <1>6, <1>7, <1>8, <1>9, <1>10, <1>11, <1>12, <1>13, <1>14,
     <1>15, <1>16, <1>17, <1>18, <1>19, <1>20, <1>21, <1>22, <1>23
     DEF Next, TaskStep, HeartbeatStep

(* The initial rows are well formed.                                        *)
LEMMA InitTypeOK == Init => TypeOK
<1>. SUFFICES ASSUME Init PROVE TypeOK
  OBVIOUS
<1>1. ex \in ExecutionRows /\ fr \in [StepIds -> FrontierRows]
  BY NewRows DEF Init
<1>. QED  BY <1>1, NewRows, TimeAssumption, FaultAssumption DEF Init, TypeOK, Phases, NodeStates

(* Whatever workers, operators and crashes do, the rows stay well formed.   *)
THEOREM TypeCorrect == Spec => []TypeOK
BY InitTypeOK, TypeStep, PTL DEF Spec

-----------------------------------------------------------------------------
(* Progress. *)

\* A frontier that runs is not waiting for a retry, and one that is decided keeps
\* neither lease nor backoff, so that not even time touches it.
DecidedRowsAreClear ==
    \A i \in StepIds :
        /\ fr[i].status = "running" => fr[i].wait = 0
        /\ fr[i].status \in {"completed", "failed"} => fr[i].lease = NoLease /\ fr[i].wait = 0

ProgressInv == TypeOK /\ ProgressIsSequential /\ ClosedExecutionHasNoActiveFrontier /\ DecidedRowsAreClear

(* Only nine actions write the execution, its frontiers or its checkpoints. *)
LEMMA RowWriters ==
    ASSUME [Next]_vars
    PROVE  \/ \E s \in Slots : \/ \E i \in StepIds : Claim(s, i)
                               \/ CompleteStep(s) \/ CompleteLast(s)
                               \/ ConvergeRetry(s) \/ ConvergeFail(s) \/ HeartbeatRenews(s)
           \/ \E i \in StepIds : Recover(i)
           \/ CancelApply
           \/ Tick
           \/ UNCHANGED <<ex, fr, ckpt>>
BY DEF Next, vars, TaskStep, HeartbeatStep, Verify, Load, StartNode, NextNode, FinishNode, RetryNode,
       ProbeCommit, NodeFails, CompletionRejected, ConvergeLost, HeartbeatSeesTerminal,
       HeartbeatLost, HeartbeatDies, Crash, CancelLoad

(* The only frontier with work in it is the one after the last checkpoint.  *)
LEMMA ActiveIsNext ==
    ASSUME TypeOK, ProgressIsSequential, NEW i \in StepIds, fr[i].status \in Active
    PROVE  i = Len(ckpt) + 1
<1>1. Len(ckpt) \in Nat /\ i \in Int
  BY DEF TypeOK, StepIds
<1>. QED  BY <1>1 DEF ProgressIsSequential, Active

(* A step that writes no checkpoint and moves frontiers only among the      *)
(* active statuses, or from one of them to failed, keeps the order.         *)
LEMMA SameProgress ==
    ASSUME TypeOK, ProgressIsSequential, ckpt' = ckpt,
           \A i \in StepIds : \/ fr'[i].status = fr[i].status
                              \/ fr[i].status \in Active /\ fr'[i].status \in Active \cup {"failed"}
    PROVE  ProgressIsSequential'
BY DEF ProgressIsSequential, Active

(* What the fences say of the row they let through.                         *)
LEMMA FencedRow ==
    ASSUME TypeOK, NEW s \in Slots, NEW elapsed \in 0..MaxRun, FrontierFence(s, elapsed)
    PROVE  Step(s) \in StepIds /\ fr[Step(s)].status = "running"
BY DEF TypeOK, Step, FrontierFence

(* Completing the frontier that runs extends the sequence by one.           *)
LEMMA CompletionExtends ==
    ASSUME TypeOK, ProgressIsSequential, NEW i \in StepIds, fr[i].status = "running"
    PROVE  /\ i = Len(ckpt) + 1
           /\ AppendCheckpoint(i) = Append(ckpt, i)
           /\ Len(AppendCheckpoint(i)) = Len(ckpt) + 1
           /\ \A k \in DOMAIN AppendCheckpoint(i) : AppendCheckpoint(i)[k] = k
<1>1. i = Len(ckpt) + 1
  BY ActiveIsNext DEF Active
<1>2. ckpt \in Seq(StepIds) /\ Len(ckpt) \in Nat /\ DOMAIN ckpt = 1..Len(ckpt)
  BY DEF TypeOK
<1>3. ~Checkpointed(i)
  BY <1>1, <1>2 DEF Checkpointed, ProgressIsSequential
<1>4. AppendCheckpoint(i) = Append(ckpt, i)
  BY <1>3 DEF AppendCheckpoint
<1>5. /\ Len(Append(ckpt, i)) = Len(ckpt) + 1
      /\ DOMAIN Append(ckpt, i) = 1..Len(ckpt) + 1
      /\ \A k \in 1..Len(ckpt) : Append(ckpt, i)[k] = ckpt[k]
      /\ Append(ckpt, i)[Len(ckpt) + 1] = i
  BY <1>2
<1>6. \A k \in 1..Len(ckpt) + 1 : Append(ckpt, i)[k] = k
  BY <1>1, <1>2, <1>5 DEF ProgressIsSequential
<1>. QED  BY <1>1, <1>4, <1>5, <1>6

(* Every step keeps the order, leaves closed executions without work and    *)
(* decided frontiers as they are: one case per action that writes rows.     *)
LEMMA ProgressStep ==
    ASSUME ProgressInv, [Next]_vars
    PROVE  /\ ProgressInv'
           /\ \A i \in StepIds : fr[i].status \in {"completed", "failed"} => fr'[i] = fr[i]
<1>. DEFINE Goal == /\ ProgressIsSequential'
                    /\ ClosedExecutionHasNoActiveFrontier'
                    /\ DecidedRowsAreClear'
                    /\ \A i \in StepIds : fr[i].status \in {"completed", "failed"} => fr'[i] = fr[i]
<1>0. TypeOK /\ TypeOK' /\ ProgressIsSequential /\ ClosedExecutionHasNoActiveFrontier /\ DecidedRowsAreClear
  BY TypeStep DEF ProgressInv
<1>1. /\ ex \in ExecutionRows
      /\ fr \in [StepIds -> FrontierRows]
      /\ \A i \in StepIds : fr[i] \in FrontierRows
  BY <1>0 DEF TypeOK
<1>2. ASSUME NEW s \in Slots, NEW i \in StepIds, Claim(s, i)
      PROVE  Goal
  <2>1. /\ fr[i].status \in Active /\ fr[i].status # "running" /\ fr[i].wait = 0
        /\ ex.status \in {"pending", "running"} /\ ex'.status = "running"
        /\ ckpt' = ckpt
    BY <1>2 DEF Claim, Claimable, ExecutionClaimable, ClaimedExecution, Active
  <2>2. \A j \in StepIds : /\ j = i => fr'[j].status = "running" /\ fr'[j].wait = 0
                           /\ j # i => fr'[j] = fr[j]
    BY <1>1, <1>2, <2>1 DEF Claim, FrontierRows
  <2>3. ProgressIsSequential'
    BY <1>0, <2>1, <2>2, SameProgress DEF Active
  <2>. QED  BY <1>0, <2>1, <2>2, <2>3 DEF ClosedExecutionHasNoActiveFrontier, DecidedRowsAreClear, Active
<1>3. ASSUME NEW s \in Slots, CompleteStep(s)
      PROVE  Goal
  <2>. DEFINE i == Step(s)
  <2>1. i \in StepIds /\ i + 1 \in StepIds /\ fr[i].status = "running"
    <3>1. age[s] \in 0..MaxRun /\ FrontierFence(s, age[s]) /\ i < Steps
      BY <1>0, <1>3 DEF TypeOK, CompleteStep, CanAdvance, CompletionFence
    <3>. QED  BY <1>0, <3>1, FencedRow, StepsAssumption DEF StepIds
  <2>2. i = Len(ckpt) + 1 /\ fr[i + 1].status = "absent"
    <3>1. i = Len(ckpt) + 1
      BY <1>0, <2>1, CompletionExtends
    <3>. QED  BY <1>0, <2>1, <3>1 DEF ProgressIsSequential, StepIds, TypeOK
  <2>3. \A j \in StepIds : /\ j = i => fr'[j] = ClosedFrontier(i, "completed")
                           /\ j = i + 1 => fr'[j] = PendingFrontier
                           /\ j \notin {i, i + 1} => fr'[j] = fr[j]
    BY <1>1, <1>3, <2>1, <2>2 DEF CompleteStep, Enqueued, StepIds
  <2>4. /\ ClosedFrontier(i, "completed").status = "completed"
        /\ ClosedFrontier(i, "completed").lease = NoLease
        /\ ClosedFrontier(i, "completed").wait = 0
        /\ PendingFrontier.status = "pending"
    BY <1>0, <1>1, <2>1 DEF ClosedFrontier, FrontierRows, PendingFrontier, AbsentFrontier, DecidedRowsAreClear
  <2>5. ProgressIsSequential'
    <3>1. ckpt' = AppendCheckpoint(i)
      BY <1>3 DEF CompleteStep
    <3>2. Len(ckpt') = i /\ \A k \in DOMAIN ckpt' : ckpt'[k] = k
      BY <1>0, <2>1, <2>2, <3>1, CompletionExtends
    <3>3. \A j \in StepIds : /\ fr'[j].status = "completed" <=> j <= i
                             /\ j > i + 1 => fr'[j].status = "absent"
      BY <1>0, <2>1, <2>2, <2>3, <2>4 DEF ProgressIsSequential, StepIds
    <3>. QED  BY <3>2, <3>3 DEF ProgressIsSequential
  <2>6. ex' = ex /\ ex.status \notin {"completed", "failed"}
    BY <1>0, <1>3, <2>1 DEF CompleteStep, ClosedExecutionHasNoActiveFrontier, Active
  <2>. QED  BY <1>0, <2>1, <2>2, <2>3, <2>4, <2>5, <2>6
            DEF ClosedExecutionHasNoActiveFrontier, DecidedRowsAreClear, Active
<1>4. ASSUME NEW s \in Slots, CompleteLast(s)
      PROVE  Goal
  <2>. DEFINE i == Step(s)
  <2>1. i \in StepIds /\ fr[i].status = "running" /\ ~ActiveSibling(i)
    <3>1. age[s] \in 0..MaxRun /\ FrontierFence(s, age[s])
      BY <1>0, <1>4 DEF TypeOK, CompleteLast, CanFinish, CompletionFence
    <3>. QED  BY <1>0, <1>4, <3>1, FencedRow DEF CompleteLast, CanFinish
  <2>2. \A j \in StepIds : /\ j = i => fr'[j] = ClosedFrontier(i, "completed")
                           /\ j # i => fr'[j] = fr[j]
    BY <1>1, <1>4, <2>1 DEF CompleteLast
  <2>3. /\ ClosedFrontier(i, "completed").status = "completed"
        /\ ClosedFrontier(i, "completed").lease = NoLease
        /\ ClosedFrontier(i, "completed").wait = 0
    BY <1>0, <1>1, <2>1 DEF ClosedFrontier, FrontierRows, DecidedRowsAreClear
  <2>4. ProgressIsSequential'
    <3>1. ckpt' = AppendCheckpoint(i)
      BY <1>4 DEF CompleteLast
    <3>2. i = Len(ckpt) + 1 /\ Len(ckpt') = i /\ \A k \in DOMAIN ckpt' : ckpt'[k] = k
      BY <1>0, <2>1, <3>1, CompletionExtends
    <3>3. \A j \in StepIds : /\ fr[j].status = "completed" <=> j <= i - 1
                             /\ j > i => fr[j].status = "absent"
      BY <1>0, <2>1, <3>2 DEF ProgressIsSequential, StepIds, TypeOK
    <3>4. \A j \in StepIds : /\ fr'[j].status = "completed" <=> j <= i
                             /\ j > i + 1 => fr'[j].status = "absent"
      BY <2>1, <2>2, <2>3, <3>3, StepsAssumption DEF StepIds
    <3>. QED  BY <3>2, <3>4 DEF ProgressIsSequential
  <2>. QED  BY <1>0, <2>1, <2>2, <2>3, <2>4
            DEF ClosedExecutionHasNoActiveFrontier, DecidedRowsAreClear, Active, ActiveSibling
<1>5. ASSUME NEW s \in Slots, ConvergeRetry(s)
      PROVE  Goal
  <2>. DEFINE i == Step(s)
  <2>1. PICK elapsed \in 0..age[s] : MayConverge(s, elapsed)
                 /\ fr' = [fr EXCEPT ![i] = [ClosedFrontier(i, "retry_wait") EXCEPT
                                               !.wait = Since(Backoff(job[s].attempt), elapsed)]]
    BY <1>5 DEF ConvergeRetry, RetryScheduled
  <2>2. i \in StepIds /\ fr[i].status = "running"
    <3>1. age[s] \in 0..MaxRun
      BY <1>0 DEF TypeOK
    <3>2. elapsed \in 0..MaxRun
      BY <2>1, <3>1, TimeAssumption
    <3>. QED  BY <1>0, <2>1, <3>2, FencedRow DEF MayConverge
  <2>3. \A j \in StepIds : /\ j = i => fr'[j].status = "retry_wait"
                           /\ j # i => fr'[j] = fr[j]
    BY <1>1, <2>1, <2>2 DEF ClosedFrontier, FrontierRows
  <2>4. ckpt' = ckpt /\ ex'.status = ex.status
    BY <1>1, <1>5 DEF ConvergeRetry, RetryScheduled, ExecutionRows
  <2>5. ProgressIsSequential'
    BY <1>0, <2>2, <2>3, <2>4, SameProgress DEF Active
  <2>. QED  BY <1>0, <2>2, <2>3, <2>4, <2>5
            DEF ClosedExecutionHasNoActiveFrontier, DecidedRowsAreClear, Active
<1>6. ASSUME NEW s \in Slots, ConvergeFail(s)
      PROVE  Goal
  <2>1. PICK elapsed \in 0..age[s] : FrontierFence(s, elapsed)
    BY <1>6 DEF ConvergeFail, MayConverge
  <2>2. Step(s) \in StepIds /\ fr[Step(s)].status = "running"
    <3>1. age[s] \in 0..MaxRun
      BY <1>0 DEF TypeOK
    <3>2. elapsed \in 0..MaxRun
      BY <3>1, TimeAssumption
    <3>. QED  BY <1>0, <2>1, <3>2, FencedRow
  <2>3. \A j \in StepIds : fr[j].status \in Active => j = Step(s)
    BY <1>0, <2>2, ActiveIsNext DEF Active
  <2>4. \A j \in StepIds : /\ j = Step(s) => fr'[j] = ClosedFrontier(j, "failed")
                           /\ j # Step(s) => fr'[j] = fr[j]
    BY <1>6, <2>2, <2>3 DEF ConvergeFail, FailActive, Active
  <2>5. /\ ClosedFrontier(Step(s), "failed").status = "failed"
        /\ ClosedFrontier(Step(s), "failed").lease = NoLease
        /\ ClosedFrontier(Step(s), "failed").wait = 0
    BY <1>0, <1>1, <2>2 DEF ClosedFrontier, FrontierRows, DecidedRowsAreClear
  <2>6. ckpt' = ckpt
    BY <1>6 DEF ConvergeFail
  <2>7. ProgressIsSequential'
    BY <1>0, <2>2, <2>4, <2>5, <2>6, SameProgress DEF Active
  <2>. QED  BY <1>0, <2>2, <2>3, <2>4, <2>5, <2>7
            DEF ClosedExecutionHasNoActiveFrontier, DecidedRowsAreClear, Active
<1>7. ASSUME NEW s \in Slots, HeartbeatRenews(s)
      PROVE  Goal
  <2>. DEFINE i == Step(s)
  <2>1. i \in StepIds /\ fr[i].status = "running"
    BY <1>0, <1>7, FencedRow DEF HeartbeatRenews, Renewable, TypeOK
  <2>2. \A j \in StepIds : /\ j = i => fr'[j].status = fr[j].status /\ fr'[j].wait = fr[j].wait
                           /\ j # i => fr'[j] = fr[j]
    BY <1>1, <1>7, <2>1 DEF HeartbeatRenews, FrontierRows
  <2>3. ckpt' = ckpt /\ ex'.status = ex.status
    BY <1>1, <1>7 DEF HeartbeatRenews, RenewedExecution, ExecutionRows
  <2>4. ProgressIsSequential'
    BY <1>0, <2>2, <2>3, SameProgress
  <2>. QED  BY <1>0, <2>1, <2>2, <2>3, <2>4
            DEF ClosedExecutionHasNoActiveFrontier, DecidedRowsAreClear, Active
<1>8. ASSUME NEW i \in StepIds, Recover(i)
      PROVE  Goal
  <2>1. fr[i].status = "running" /\ ckpt' = ckpt /\ ex' = ex
    BY <1>8 DEF Recover, Recoverable
  <2>2. \A j \in StepIds : /\ j = i => fr'[j].status = "retry_wait"
                           /\ j # i => fr'[j] = fr[j]
    BY <1>1, <1>8 DEF Recover, ClosedFrontier, FrontierRows
  <2>3. ProgressIsSequential'
    BY <1>0, <2>1, <2>2, SameProgress DEF Active
  <2>. QED  BY <1>0, <2>1, <2>2, <2>3
            DEF ClosedExecutionHasNoActiveFrontier, DecidedRowsAreClear, Active
<1>9. ASSUME CancelApply
      PROVE  Goal
  <2>1. ckpt' = ckpt /\ fr' = fr /\ ex'.status \in {ex.status, "cancelled"}
    BY <1>1, <1>9 DEF CancelApply, Cancelled, ExecutionRows
  <2>2. ProgressIsSequential'
    BY <1>0, <2>1, SameProgress
  <2>. QED  BY <1>0, <2>1, <2>2 DEF ClosedExecutionHasNoActiveFrontier, DecidedRowsAreClear
<1>10. ASSUME Tick
       PROVE  Goal
  <2>1. \A j \in StepIds : fr'[j] = [fr[j] EXCEPT !.lease = Later(@), !.wait = Since(@, 1)]
    BY <1>10 DEF Tick
  <2>2. Later(NoLease) = NoLease /\ Since(0, 1) = 0
    BY TimeAssumption DEF Later, Since, NoLease
  <2>3. ASSUME NEW j \in StepIds
        PROVE  /\ fr'[j].status = fr[j].status
               /\ fr[j].wait = 0 => fr'[j].wait = 0
               /\ fr[j].lease = NoLease /\ fr[j].wait = 0 => fr'[j] = fr[j]
    <3>1. fr[j] \in FrontierRows
      BY <1>1
    <3>2. fr'[j] = [fr[j] EXCEPT !.lease = Later(fr[j].lease), !.wait = Since(fr[j].wait, 1)]
      BY <2>1
    <3>3. fr'[j].status = fr[j].status /\ fr'[j].wait = Since(fr[j].wait, 1)
      BY <3>1, <3>2 DEF FrontierRows
    <3>4. ASSUME fr[j].lease = NoLease, fr[j].wait = 0
          PROVE  fr'[j] = fr[j]
      <4>1. fr'[j] = [fr[j] EXCEPT !.lease = fr[j].lease, !.wait = fr[j].wait]
        BY <2>2, <3>2, <3>4
      <4>. QED  BY <3>1, <4>1 DEF FrontierRows
    <3>. QED  BY <2>2, <3>3, <3>4
  <2>4. ckpt' = ckpt /\ ex'.status = ex.status
    BY <1>1, <1>10 DEF Tick, ExecutionRows
  <2>5. ProgressIsSequential'
    BY <1>0, <2>3, <2>4, SameProgress
  <2>6. ClosedExecutionHasNoActiveFrontier'
    BY <1>0, <2>3, <2>4 DEF ClosedExecutionHasNoActiveFrontier
  <2>7. \A j \in StepIds : fr[j].status \in {"completed", "failed"} => fr'[j] = fr[j]
    BY <1>0, <2>3 DEF DecidedRowsAreClear
  <2>8. DecidedRowsAreClear'
    BY <1>0, <2>3, <2>7 DEF DecidedRowsAreClear
  <2>. QED  BY <2>5, <2>6, <2>7, <2>8
<1>11. ASSUME UNCHANGED <<ex, fr, ckpt>>
       PROVE  Goal
  BY <1>0, <1>11
     DEF ProgressIsSequential, ClosedExecutionHasNoActiveFrontier, DecidedRowsAreClear
<1>12. Goal
  BY <1>2, <1>3, <1>4, <1>5, <1>6, <1>7, <1>8, <1>9, <1>10, <1>11, RowWriters
<1>. QED  BY <1>0, <1>12 DEF ProgressInv

(* The invariant of all that follows.                                       *)
THEOREM ProgressHolds == Spec => []ProgressInv
<1>1. Init => ProgressInv
  <2>. SUFFICES ASSUME Init PROVE ProgressInv
    OBVIOUS
  <2>1. TypeOK
    BY InitTypeOK
  <2>2. /\ ckpt = <<>> /\ ex.status = "pending"
        /\ \A i \in StepIds : fr[i].status = IF i = 1 THEN "pending" ELSE "absent"
    BY DEF Init, NewExecution, PendingFrontier, AbsentFrontier
  <2>3. ProgressIsSequential
    BY <2>2 DEF ProgressIsSequential, StepIds
  <2>. QED  BY <2>1, <2>2, <2>3 DEF ProgressInv, ClosedExecutionHasNoActiveFrontier, DecidedRowsAreClear
<1>2. ProgressInv /\ [Next]_vars => ProgressInv'
  BY ProgressStep
<1>. QED  BY <1>1, <1>2, PTL DEF Spec

(* Frontiers complete in the planner's order, each once, each with its      *)
(* checkpoint: for any number of workers, faults and cancellations.         *)
THEOREM SequentialProgress == Spec => []ProgressIsSequential
<1>1. ProgressInv => ProgressIsSequential
  BY DEF ProgressInv
<1>. QED  BY <1>1, ProgressHolds, PTL

(* An execution that completed or failed leaves nothing to consume.         *)
THEOREM ClosedMeansClosed == Spec => []ClosedExecutionHasNoActiveFrontier
<1>1. ProgressInv => ClosedExecutionHasNoActiveFrontier
  BY DEF ProgressInv
<1>. QED  BY <1>1, ProgressHolds, PTL

(* No step of anybody changes a decided frontier.                           *)
THEOREM DecidedFrontiersStay == Spec => FrontiersAreFinal
<1>1. ProgressInv /\ [Next]_vars =>
         [\A i \in StepIds : fr[i].status \in {"completed", "failed"} => fr'[i] = fr[i]]_vars
  BY ProgressStep
<1>. QED  BY <1>1, ProgressHolds, PTL DEF Spec, FrontiersAreFinal

-----------------------------------------------------------------------------
(* Ownership. *)

(* Time passes over the rows and touches nothing but leases and waits.      *)
LEMMA TickRows ==
    ASSUME TypeOK, Tick
    PROVE  /\ \A i \in StepIds : /\ fr'[i].status = fr[i].status /\ fr'[i].owner = fr[i].owner
                                 /\ fr'[i].attempt = fr[i].attempt
                                 /\ fr'[i].lease = Later(fr[i].lease)
           /\ ex'.status = ex.status /\ ex'.owner = ex.owner /\ ex'.lease = Later(ex.lease)
<1>1. ex \in ExecutionRows /\ ex' = [ex EXCEPT !.lease = Later(@)]
  BY Zenon DEF TypeOK, Tick
<1>2. ASSUME NEW i \in StepIds
      PROVE  /\ fr'[i].status = fr[i].status /\ fr'[i].owner = fr[i].owner
             /\ fr'[i].attempt = fr[i].attempt
             /\ fr'[i].lease = Later(fr[i].lease)
  <2>1. fr[i] \in FrontierRows
    BY DEF TypeOK
  <2>2. fr'[i] = [fr[i] EXCEPT !.lease = Later(@), !.wait = Since(@, 1)]
    BY Zenon DEF Tick
  <2>3. fr'[i] = [fr[i] EXCEPT !.lease = Later(fr[i].lease), !.wait = Since(fr[i].wait, 1)]
    BY <2>2
  <2>. QED  BY <2>1, <2>3 DEF FrontierRows
<1>3. ex'.status = ex.status /\ ex'.owner = ex.owner /\ ex'.lease = Later(ex.lease)
  BY <1>1 DEF ExecutionRows
<1>. QED  BY <1>2, <1>3

(* With one frontier in work at a time, both layers of ownership are        *)
(* claimed, renewed, aged and given up in the same steps.                   *)
LEMMA LayersStep ==
    ASSUME ProgressInv, LeaseLayersAgree, [Next]_vars
    PROVE  LeaseLayersAgree'
<1>0. TypeOK /\ ProgressIsSequential
  BY DEF ProgressInv
<1>1. /\ ex \in ExecutionRows
      /\ fr \in [StepIds -> FrontierRows]
      /\ \A i \in StepIds : fr[i] \in FrontierRows
  BY <1>0 DEF TypeOK
<1>2. \A i, j \in StepIds : fr[i].status \in Active /\ fr[j].status \in Active => i = j
  BY <1>0, ActiveIsNext
<1>3. ASSUME NEW s \in Slots, NEW i \in StepIds, Claim(s, i)
      PROVE  LeaseLayersAgree'
  <2>1. \A j \in StepIds : j # i => fr'[j] = fr[j] /\ fr[j].status # "running"
    BY <1>1, <1>2, <1>3 DEF Claim, Claimable, Active
  <2>2. fr'[i].owner = Mine(s) /\ fr'[i].lease = LeaseTime
    BY <1>1, <1>3 DEF Claim, FrontierRows
  <2>3. ex'.owner = Mine(s) /\ ex'.lease = LeaseTime
    BY <1>3 DEF Claim, ClaimedExecution
  <2>. QED  BY <2>1, <2>2, <2>3 DEF LeaseLayersAgree
<1>4. ASSUME NEW s \in Slots, CompleteStep(s)
      PROVE  LeaseLayersAgree'
  <2>1. Step(s) \in StepIds /\ Step(s) + 1 \in StepIds
    BY <1>0, <1>4, StepsAssumption DEF TypeOK, Step, CompleteStep, CanAdvance, StepIds
  <2>2. \A j \in StepIds : fr'[j] = fr[j] \/ fr'[j].status # "running"
    BY <1>1, <1>4, <2>1
       DEF CompleteStep, Enqueued, ClosedFrontier, FrontierRows, PendingFrontier, AbsentFrontier
  <2>3. ex' = ex
    BY <1>4 DEF CompleteStep
  <2>. QED  BY <2>2, <2>3 DEF LeaseLayersAgree
<1>5. ASSUME NEW s \in Slots, CompleteLast(s) \/ ConvergeFail(s)
      PROVE  LeaseLayersAgree'
  <2>1. ex'.status # "running"
    BY <1>1, <1>5 DEF CompleteLast, ConvergeFail, ExecutionRows
  <2>. QED  BY <2>1 DEF LeaseLayersAgree
<1>6. ASSUME NEW s \in Slots, ConvergeRetry(s)
      PROVE  LeaseLayersAgree'
  <2>1. PICK elapsed \in 0..age[s] : FrontierFence(s, elapsed)
                 /\ fr' = [fr EXCEPT ![Step(s)] = [ClosedFrontier(Step(s), "retry_wait") EXCEPT
                                                     !.wait = Since(Backoff(job[s].attempt), elapsed)]]
    BY <1>6 DEF ConvergeRetry, RetryScheduled, MayConverge
  <2>2. Step(s) \in StepIds /\ fr[Step(s)].status = "running"
    BY <1>0, <2>1 DEF FrontierFence, TypeOK, Step
  <2>3. \A j \in StepIds : fr'[j].status # "running"
    BY <1>1, <1>2, <2>1, <2>2 DEF ClosedFrontier, FrontierRows, Active
  <2>. QED  BY <2>3 DEF LeaseLayersAgree
<1>7. ASSUME NEW s \in Slots, HeartbeatRenews(s)
      PROVE  LeaseLayersAgree'
  <2>1. Step(s) \in StepIds /\ fr[Step(s)].status = "running"
    BY <1>0, <1>7 DEF HeartbeatRenews, Renewable, FrontierFence, TypeOK, Step
  <2>2. /\ fr'[Step(s)].lease = LeaseTime - hbAge[s]
        /\ fr'[Step(s)].owner = fr[Step(s)].owner
        /\ \A j \in StepIds : j # Step(s) => fr'[j] = fr[j] /\ fr[j].status # "running"
    BY <1>1, <1>2, <1>7, <2>1 DEF HeartbeatRenews, FrontierRows, Active
  <2>3. /\ ex'.lease = LeaseTime - hbAge[s]
        /\ ex'.owner = ex.owner /\ ex'.status = ex.status
    BY <1>1, <1>7 DEF HeartbeatRenews, RenewedExecution, ExecutionRows
  <2>. QED  BY <2>1, <2>2, <2>3 DEF LeaseLayersAgree
<1>8. ASSUME NEW i \in StepIds, Recover(i)
      PROVE  LeaseLayersAgree'
  <2>1. \A j \in StepIds : fr'[j] = fr[j] \/ fr'[j].status # "running"
    BY <1>1, <1>8 DEF Recover, ClosedFrontier, FrontierRows
  <2>2. ex' = ex
    BY <1>8 DEF Recover
  <2>. QED  BY <2>1, <2>2 DEF LeaseLayersAgree
<1>9. ASSUME CancelApply
      PROVE  LeaseLayersAgree'
  <2>1. fr' = fr /\ (ex' = ex \/ ex'.status # "running")
    BY <1>1, <1>9 DEF CancelApply, Cancelled, ExecutionRows
  <2>. QED  BY <2>1 DEF LeaseLayersAgree
<1>10. ASSUME Tick
       PROVE  LeaseLayersAgree'
  BY <1>0, <1>10, TickRows DEF LeaseLayersAgree
<1>11. CASE UNCHANGED <<ex, fr, ckpt>>
  BY <1>11 DEF LeaseLayersAgree
<1>. QED
  BY <1>3, <1>4, <1>5, <1>6, <1>7, <1>8, <1>9, <1>10, <1>11, RowWriters

(* The execution's lease and its running frontier's are one: for any number *)
(* of workers neither expires, or is taken over, without the other.         *)
THEOREM LayersAgree == Spec => []LeaseLayersAgree
<1>1. Init => LeaseLayersAgree
  BY DEF Init, NewExecution, LeaseLayersAgree
<1>2. ProgressInv /\ LeaseLayersAgree /\ [Next]_vars => LeaseLayersAgree'
  BY LayersStep
<1>. QED  BY <1>1, <1>2, ProgressHolds, PTL DEF Spec

\* No task is ahead of the generation of its frontier's row, and a row that does
\* not exist yet has none.
FenceInv ==
    /\ \A i \in StepIds : fr[i].status = "absent" => fr[i].attempt = 0
    /\ \A s \in Slots : pc[s] # "idle" => job[s].attempt <= fr[job[s].step].attempt
    /\ GenerationsAreUnique

(* Apart from a claim, a step keeps each task's job or ends the task.       *)
LEMMA JobsKept ==
    ASSUME TypeOK, [Next]_vars, \A s \in Slots, i \in StepIds : ~Claim(s, i)
    PROVE  \A s \in Slots : pc'[s] = "idle" \/ (pc[s] # "idle" /\ job'[s] = job[s])
<1>1. pc \in [Slots -> Phases] /\ job \in [Slots -> [step : StepIds, attempt : Nat]]
  BY DEF TypeOK
<1>2. ASSUME NEW t \in Slots, EndTask(t)
      PROVE  \A s \in Slots : pc'[s] = "idle" \/ (pc[s] # "idle" /\ job'[s] = job[s])
  BY <1>1, <1>2 DEF EndTask
<1>3. ASSUME NEW t \in Slots, NEW kind \in Raised, pc[t] # "idle", Raise(t, kind), job' = job
      PROVE  \A s \in Slots : pc'[s] = "idle" \/ (pc[s] # "idle" /\ job'[s] = job[s])
  BY <1>1, <1>3 DEF Raise
<1>4. ASSUME NEW t \in Slots, NEW phase \in Phases, pc[t] # "idle",
             pc' = [pc EXCEPT ![t] = phase], job' = job
      PROVE  \A s \in Slots : pc'[s] = "idle" \/ (pc[s] # "idle" /\ job'[s] = job[s])
  BY <1>1, <1>4
<1>5. ASSUME pc' = pc, job' = job
      PROVE  \A s \in Slots : pc'[s] = "idle" \/ (pc[s] # "idle" /\ job'[s] = job[s])
  BY <1>5
<1>6. ASSUME NEW t \in Slots, Verify(t) \/ Load(t) \/ StartNode(t) \/ NextNode(t) \/ FinishNode(t)
                              \/ CompletionRejected(t)
      PROVE  \A s \in Slots : pc'[s] = "idle" \/ (pc[s] # "idle" /\ job'[s] = job[s])
  BY <1>2, <1>3, <1>4, <1>6
     DEF Verify, Load, StartNode, NextNode, InNode, FinishNode, CompletionRejected, Raised, Phases, Busy
<1>7. ASSUME NEW t \in Slots, CompleteStep(t) \/ CompleteLast(t) \/ ConvergeRetry(t)
                              \/ ConvergeFail(t) \/ ConvergeLost(t) \/ HeartbeatLost(t) \/ Crash(t)
      PROVE  \A s \in Slots : pc'[s] = "idle" \/ (pc[s] # "idle" /\ job'[s] = job[s])
  BY <1>2, <1>7
     DEF CompleteStep, CompleteLast, ConvergeRetry, RetryScheduled, ConvergeFail, ConvergeLost, HeartbeatLost, Crash
<1>8. ASSUME NEW t \in Slots, RetryNode(t) \/ \E kind \in Raised : NodeFails(t, kind)
      PROVE  \A s \in Slots : pc'[s] = "idle" \/ (pc[s] # "idle" /\ job'[s] = job[s])
  BY <1>3, <1>5, <1>8 DEF RetryNode, NodeFails, InNode, Raised
<1>9. ASSUME NEW t \in Slots, \/ HeartbeatRenews(t) \/ HeartbeatSeesTerminal(t)
                              \/ ProbeCommit(t) \/ HeartbeatDies(t)
      PROVE  \A s \in Slots : pc'[s] = "idle" \/ (pc[s] # "idle" /\ job'[s] = job[s])
  BY <1>5, <1>9 DEF HeartbeatRenews, HeartbeatSeesTerminal, ProbeCommit, HeartbeatDies
<1>10. ASSUME \/ \E i \in StepIds : Recover(i)
              \/ CancelLoad \/ CancelApply \/ Tick \/ UNCHANGED vars
       PROVE  \A s \in Slots : pc'[s] = "idle" \/ (pc[s] # "idle" /\ job'[s] = job[s])
  <2>1. CASE Tick
    <3>1. pc' = pc /\ job' = job
      BY <2>1, Zenon DEF Tick
    <3>. QED  BY <1>5, <3>1
  <2>2. CASE ~Tick
    BY <1>5, <1>10, <2>2 DEF Recover, CancelLoad, CancelApply, vars
  <2>. QED  BY <2>1, <2>2
<1>. QED
  BY <1>6, <1>7, <1>8, <1>9, <1>10 DEF Next, TaskStep, HeartbeatStep

(* Apart from a claim, no step changes a generation or deletes a row.       *)
LEMMA GenerationsKept ==
    ASSUME ProgressInv, FenceInv, [Next]_vars, \A s \in Slots, i \in StepIds : ~Claim(s, i)
    PROVE  \A i \in StepIds : /\ fr'[i].attempt = fr[i].attempt
                              /\ fr'[i].status = "absent" => fr[i].status = "absent"
<1>. DEFINE Kept == \A i \in StepIds : /\ fr'[i].attempt = fr[i].attempt
                                       /\ fr'[i].status = "absent" => fr[i].status = "absent"
<1>1. /\ fr \in [StepIds -> FrontierRows]
      /\ \A i \in StepIds : fr[i] \in FrontierRows
      /\ \A s \in Slots : Step(s) \in StepIds
  BY DEF ProgressInv, TypeOK, Step
<1>2. \A i \in StepIds : \A status \in FrontierStates :
         /\ ClosedFrontier(i, status) \in FrontierRows
         /\ ClosedFrontier(i, status).attempt = fr[i].attempt
         /\ ClosedFrontier(i, status).status = status
  BY <1>1, ClosedRow
<1>3. ASSUME NEW s \in Slots, CompleteStep(s)
      PROVE  Kept
  <2>1. Step(s) + 1 \in StepIds
    BY <1>1, <1>3, StepsAssumption DEF CompleteStep, CanAdvance, StepIds
  <2>2. \A j \in StepIds : fr'[j] \in {fr[j], ClosedFrontier(j, "completed")}
                           \/ (fr[j].status = "absent" /\ fr'[j] = PendingFrontier)
    BY <1>1, <1>2, <1>3, <2>1 DEF CompleteStep, Enqueued, FrontierStates
  <2>. QED  BY <1>2, <2>2 DEF FenceInv, PendingFrontier, AbsentFrontier, FrontierStates
<1>4. ASSUME NEW s \in Slots, CompleteLast(s)
      PROVE  Kept
  BY <1>1, <1>2, <1>4 DEF CompleteLast, FrontierStates
<1>5. ASSUME NEW s \in Slots, ConvergeRetry(s)
      PROVE  Kept
  <2>1. PICK elapsed \in 0..age[s] :
           fr' = [fr EXCEPT ![Step(s)] = [ClosedFrontier(Step(s), "retry_wait") EXCEPT
                                            !.wait = Since(Backoff(job[s].attempt), elapsed)]]
    BY <1>5 DEF ConvergeRetry, RetryScheduled
  <2>2. "retry_wait" \in FrontierStates
    BY DEF FrontierStates, Active
  <2>. QED  BY <1>1, <1>2, <2>1, <2>2 DEF FrontierRows
<1>6. ASSUME NEW s \in Slots, ConvergeFail(s)
      PROVE  Kept
  BY <1>1, <1>2, <1>6 DEF ConvergeFail, FailActive, FrontierStates
<1>7. ASSUME NEW s \in Slots, HeartbeatRenews(s)
      PROVE  Kept
  BY <1>1, <1>7 DEF HeartbeatRenews, FrontierRows
<1>8. ASSUME NEW i \in StepIds, Recover(i)
      PROVE  Kept
  BY <1>1, <1>2, <1>8 DEF Recover, FrontierStates, Active, FrontierRows
<1>9. ASSUME Tick
      PROVE  Kept
  BY <1>9, TickRows DEF ProgressInv
<1>10. CASE fr' = fr
  BY <1>10
<1>. QED
  BY <1>3, <1>4, <1>5, <1>6, <1>7, <1>8, <1>9, <1>10, RowWriters DEF CancelApply

(* Every step keeps tasks and rows in this order.                           *)
LEMMA FenceStep ==
    ASSUME ProgressInv, FenceInv, [Next]_vars
    PROVE  FenceInv'
<1>1. /\ \A i \in StepIds : fr[i] \in FrontierRows
      /\ fr \in [StepIds -> FrontierRows]
      /\ pc \in [Slots -> Phases]
      /\ job \in [Slots -> [step : StepIds, attempt : Nat]]
  BY DEF ProgressInv, TypeOK
<1>2. ASSUME NEW s \in Slots, NEW i \in StepIds, Claim(s, i)
      PROVE  FenceInv'
  <2>1. /\ pc[s] = "idle" /\ fr[i].attempt \in Nat
        /\ job'[s].step = i /\ job'[s].attempt = fr[i].attempt + 1
        /\ \A t \in Slots \ {s} : pc'[t] = pc[t] /\ job'[t] = job[t]
    BY <1>1, <1>2 DEF Claim, ClaimGeneration, FrontierRows
  <2>2. /\ fr'[i].attempt = fr[i].attempt + 1 /\ fr'[i].status = "running"
        /\ \A j \in StepIds \ {i} : fr'[j] = fr[j]
    BY <1>1, <1>2 DEF Claim, ClaimGeneration, FrontierRows
  <2>3. \A t \in Slots : job[t].step \in StepIds /\ job[t].attempt \in Nat
    BY <1>1
  <2>4. \A t \in Slots \ {s} : pc[t] # "idle" => job[t] # job'[s]
    BY <2>1, <2>3 DEF FenceInv
  <2>5. GenerationsAreUnique'
    BY <2>1, <2>4 DEF FenceInv, GenerationsAreUnique
  <2>6. \A t \in Slots : pc'[t] # "idle" => job'[t].attempt <= fr'[job'[t].step].attempt
    BY <2>1, <2>2, <2>3 DEF FenceInv
  <2>7. \A j \in StepIds : fr'[j].status = "absent" => fr'[j].attempt = 0
    BY <2>2 DEF FenceInv
  <2>. QED  BY <2>5, <2>6, <2>7 DEF FenceInv
<1>3. ASSUME \A s \in Slots, i \in StepIds : ~Claim(s, i)
      PROVE  FenceInv'
  <2>1. \A s \in Slots : pc'[s] = "idle" \/ (pc[s] # "idle" /\ job'[s] = job[s])
    BY <1>3, JobsKept DEF ProgressInv
  <2>2. \A i \in StepIds : /\ fr'[i].attempt = fr[i].attempt
                           /\ fr'[i].status = "absent" => fr[i].status = "absent"
    BY <1>3, GenerationsKept
  <2>. QED  BY <1>1, <2>1, <2>2 DEF FenceInv, GenerationsAreUnique
<1>. QED  BY <1>2, <1>3

(* No two tasks ever hold the same generation of a frontier, however many   *)
(* workers claim, lose and reclaim it.                                      *)
THEOREM FencingIsUnique == Spec => []GenerationsAreUnique
<1>1. Init => FenceInv
  BY DEF Init, FenceInv, GenerationsAreUnique, AbsentFrontier, PendingFrontier
<1>2. ProgressInv /\ FenceInv /\ [Next]_vars => FenceInv'
  BY FenceStep
<1>3. FenceInv => GenerationsAreUnique
  BY DEF FenceInv
<1>. QED  BY <1>1, <1>2, <1>3, ProgressHolds, PTL DEF Spec

(* A decided frontier was decided by the task that holds its generation.    *)
LEMMA DeciderStep ==
    ASSUME ProgressInv, [Next]_vars, NEW i \in StepIds,
           fr[i].status = "running", fr'[i].status \in {"completed", "failed"}
    PROVE  \E s \in Slots : /\ pc[s] \in Raised \cup {"ran"}
                            /\ job[s] = [step |-> i, attempt |-> fr[i].attempt]
<1>0. TypeOK /\ ProgressIsSequential
  BY DEF ProgressInv
<1>1. /\ fr \in [StepIds -> FrontierRows]
      /\ \A j \in StepIds : fr[j] \in FrontierRows
      /\ job \in [Slots -> [step : StepIds, attempt : Nat]]
      /\ \A s \in Slots : Step(s) \in StepIds
  BY <1>0 DEF TypeOK, Step
<1>2. \A s \in Slots : \A elapsed : FrontierFence(s, elapsed) /\ Step(s) = i
                          => job[s] = [step |-> i, attempt |-> fr[i].attempt]
  BY <1>1 DEF FrontierFence, Step
<1>3. ASSUME NEW s \in Slots, CompleteStep(s)
      PROVE  Step(s) = i /\ pc[s] = "ran" /\ FrontierFence(s, age[s])
  <2>1. Step(s) + 1 \in StepIds
    BY <1>1, <1>3, StepsAssumption DEF CompleteStep, CanAdvance, StepIds
  <2>2. Step(s) = i
    BY <1>1, <1>3, <2>1 DEF CompleteStep, Enqueued, PendingFrontier, AbsentFrontier
  <2>. QED  BY <1>3, <2>2 DEF CompleteStep, CanAdvance, CompletionFence
<1>4. ASSUME NEW s \in Slots, CompleteLast(s)
      PROVE  Step(s) = i /\ pc[s] = "ran" /\ FrontierFence(s, age[s])
  BY <1>1, <1>4 DEF CompleteLast, CanFinish, CompletionFence
<1>5. ASSUME NEW s \in Slots, ConvergeFail(s)
      PROVE  Step(s) = i /\ pc[s] \in Raised /\ \E elapsed : FrontierFence(s, elapsed)
  <2>1. PICK elapsed \in 0..age[s] : FrontierFence(s, elapsed)
    BY <1>5 DEF ConvergeFail, MayConverge
  <2>2. fr[Step(s)].status = "running"
    BY <2>1 DEF FrontierFence
  <2>3. Step(s) = i
    BY <1>0, <1>1, <2>2, ActiveIsNext DEF Active
  <2>. QED  BY <1>5, <2>1, <2>3 DEF ConvergeFail
<1>6. ~\E s \in Slots : \/ \E j \in StepIds : Claim(s, j)
                        \/ ConvergeRetry(s) \/ HeartbeatRenews(s)
  <2>1. ASSUME NEW s \in Slots, NEW j \in StepIds, Claim(s, j) PROVE FALSE
    BY <1>1, <2>1 DEF Claim, FrontierRows
  <2>2. ASSUME NEW s \in Slots, ConvergeRetry(s) PROVE FALSE
    <3>1. PICK elapsed \in 0..age[s] :
             fr' = [fr EXCEPT ![Step(s)] = [ClosedFrontier(Step(s), "retry_wait") EXCEPT
                                              !.wait = Since(Backoff(job[s].attempt), elapsed)]]
      BY <2>2 DEF ConvergeRetry, RetryScheduled
    <3>2. \A j \in StepIds : fr'[j].status \in {fr[j].status, "retry_wait"}
      BY <1>1, <3>1 DEF ClosedFrontier, FrontierRows
    <3>. QED  BY <3>2
  <2>3. ASSUME NEW s \in Slots, HeartbeatRenews(s) PROVE FALSE
    BY <1>1, <2>3 DEF HeartbeatRenews, FrontierRows
  <2>. QED  BY <2>1, <2>2, <2>3
<1>7. ~\E j \in StepIds : Recover(j)
  <2>. SUFFICES ASSUME NEW j \in StepIds, Recover(j) PROVE FALSE
    OBVIOUS
  <2>1. fr'[j].status = "retry_wait" /\ \A k \in StepIds \ {j} : fr'[k] = fr[k]
    BY <1>1 DEF Recover, ClosedFrontier, FrontierRows
  <2>. QED  BY <2>1
<1>8. ~CancelApply /\ ~Tick /\ fr' # fr
  BY <1>0, TickRows DEF CancelApply
<1>9. \E s \in Slots : CompleteStep(s) \/ CompleteLast(s) \/ ConvergeFail(s)
  BY <1>6, <1>7, <1>8, RowWriters
<1>10. PICK s \in Slots : CompleteStep(s) \/ CompleteLast(s) \/ ConvergeFail(s)
  BY <1>9
<1>11. /\ Step(s) = i /\ pc[s] \in Raised \cup {"ran"}
       /\ \E elapsed : FrontierFence(s, elapsed)
  BY <1>3, <1>4, <1>5, <1>10
<1>. QED  BY <1>2, <1>11

(* However late or lost the others are, a frontier is decided only by the   *)
(* task that made the latest claim of it.                                   *)
THEOREM LatestClaimDecides == Spec => OnlyLatestClaimDecides
<1>1. ProgressInv /\ [Next]_vars =>
         [\A i \in StepIds :
            fr[i].status = "running" /\ fr'[i].status \in {"completed", "failed"} =>
               \E s \in Slots : /\ pc[s] \in Raised \cup {"ran"}
                                /\ job[s] = [step |-> i, attempt |-> fr[i].attempt]]_vars
  BY DeciderStep
<1>. QED  BY <1>1, ProgressHolds, PTL DEF Spec, OnlyLatestClaimDecides

\* All nodes of a frontier are durably completed exactly when the frontier is.
NodesFollow == \A i \in StepIds : node[i] = "completed" <=> fr[i].status = "completed"

\* Who holds the execution row is in the middle of a node that has not completed,
\* and who has run its node holds it.
LockInv ==
    /\ \A s \in Slots : pc[s] = "ran" => lock = s
    /\ \A s \in Slots : lock = s => pc[s] \in {"run", "rest", "ran"} /\ node[Step(s)] # "completed"
    /\ NodesFollow

(* A task that is neither in its node nor past it may end: nothing else     *)
(* changed.                                                                 *)
LEMMA LockAfterEnd ==
    ASSUME TypeOK, LockInv, NEW s \in Slots, EndTask(s), node' = node, fr' = fr
    PROVE  LockInv'
BY OwnerAssumption DEF TypeOK, LockInv, EndTask, Unlock, Step, NodesFollow

(* So may a task that raises.                                               *)
LEMMA LockAfterRaise ==
    ASSUME TypeOK, LockInv, NEW s \in Slots, NEW kind \in Raised, Raise(s, kind),
           node' = node, fr' = fr, job' = job
    PROVE  LockInv'
BY OwnerAssumption DEF TypeOK, LockInv, Raise, Raised, Unlock, Step, NodesFollow

(* With the execution row unlocked, node facts may change as long as a node *)
(* is completed exactly when its frontier is.                               *)
LEMMA LockWhenFree ==
    ASSUME TypeOK, LockInv, NEW s \in Slots, EndTask(s), lock \in {NoSlot, s},
           NodesFollow'
    PROVE  LockInv'
<1>1. lock' = NoSlot /\ pc'[s] = "idle" /\ \A t \in Slots \ {s} : pc'[t] = pc[t]
  BY DEF EndTask, Unlock, TypeOK
<1>2. \A t \in Slots : pc'[t] # "ran"
  BY <1>1, OwnerAssumption DEF LockInv
<1>. QED  BY <1>1, <1>2, OwnerAssumption DEF LockInv

(* The row lock serialises what decides a node: one case per action.        *)
LEMMA LockStep ==
    ASSUME ProgressInv, LockInv, [Next]_vars
    PROVE  LockInv'
<1>0. TypeOK
  BY DEF ProgressInv
<1>1. /\ fr \in [StepIds -> FrontierRows] /\ \A i \in StepIds : fr[i] \in FrontierRows
      /\ node \in [StepIds -> NodeStates]
      /\ pc \in [Slots -> Phases]
      /\ job \in [Slots -> [step : StepIds, attempt : Nat]]
      /\ \A s \in Slots : Step(s) \in StepIds /\ s # NoSlot
  BY <1>0, OwnerAssumption DEF TypeOK, Step
<1>2. ASSUME NEW s \in Slots, NEW i \in StepIds, Claim(s, i)
      PROVE  LockInv'
  <2>1. /\ lock' = lock /\ lock = NoSlot /\ node' = node
        /\ fr[i].status # "completed" /\ fr'[i].status = "running"
        /\ \A j \in StepIds \ {i} : fr'[j] = fr[j]
        /\ pc'[s] = "claimed" /\ \A t \in Slots \ {s} : pc'[t] = pc[t]
    BY <1>1, <1>2 DEF Claim, Claimable, FrontierRows
  <2>. QED  BY <1>1, <2>1 DEF LockInv, NodesFollow
<1>3. ASSUME NEW s \in Slots, Verify(s) \/ Load(s)
      PROVE  LockInv'
  <2>1. node' = node /\ fr' = fr
    BY <1>3 DEF Verify, Load
  <2>2. CASE EndTask(s)
    BY <1>0, <2>1, <2>2, LockAfterEnd
  <2>3. CASE /\ pc[s] \in {"claimed", "verified"} /\ lock' = lock /\ job' = job
             /\ \E phase \in {"verified", "loaded"} : pc' = [pc EXCEPT ![s] = phase]
    BY <1>1, <2>1, <2>3 DEF LockInv, NodesFollow, Step
  <2>. QED  BY <1>3, <2>2, <2>3 DEF Verify, Load
<1>4. ASSUME NEW s \in Slots, StartNode(s)
      PROVE  LockInv'
  <2>1. node' = node /\ fr' = fr /\ job' = job /\ lock = NoSlot
    BY <1>4 DEF StartNode
  <2>2. CASE Raise(s, "raised_fatal")
    BY <1>0, <2>1, <2>2, LockAfterRaise DEF Raised
  <2>3. CASE NodeStartable(Step(s)) /\ pc' = [pc EXCEPT ![s] = "run"] /\ lock' = s
    BY <1>1, <2>1, <2>3 DEF LockInv, NodesFollow, NodeStartable, Step
  <2>. QED  BY <1>4, <2>2, <2>3 DEF StartNode
<1>5. ASSUME NEW s \in Slots, FinishNode(s) \/ NextNode(s) \/ RetryNode(s)
      PROVE  LockInv'
  <2>1. /\ node' = node /\ fr' = fr /\ job' = job /\ lock \in {NoSlot, s}
    BY <1>5 DEF FinishNode, NextNode, RetryNode, RowFree
  <2>2. CASE Raise(s, "raised_fatal")
    BY <1>0, <2>1, <2>2, LockAfterRaise DEF Raised
  <2>3. CASE /\ NodeRunning(s) /\ lock' = s
             /\ \/ \E phase \in {"rest", "ran"} : pc' = [pc EXCEPT ![s] = phase]
                \/ pc' = pc /\ InNode(s)
    BY <1>1, <2>1, <2>3 DEF LockInv, NodesFollow, NodeRunning, InNode, Step
  <2>. QED  BY <1>5, <2>2, <2>3 DEF FinishNode, NextNode, RetryNode
<1>6. ASSUME NEW s \in Slots, CompleteStep(s)
      PROVE  LockInv'
  <2>. DEFINE i == Step(s)
  <2>1. lock = s /\ i + 1 \in StepIds
    BY <1>1, <1>6, StepsAssumption DEF LockInv, CompleteStep, CanAdvance, StepIds
  <2>2. fr'[i].status = "completed" /\ node'[i] = "completed"
    BY <1>1, <1>6, <2>1 DEF CompleteStep, Enqueued, ClosedFrontier, FrontierRows, StepIds
  <2>3. \A j \in StepIds \ {i} : /\ node'[j] = node[j]
                                 /\ fr'[j].status = "completed" <=> fr[j].status = "completed"
    BY <1>1, <1>6, <2>1 DEF CompleteStep, Enqueued, PendingFrontier, AbsentFrontier
  <2>4. NodesFollow'
    BY <2>2, <2>3 DEF LockInv, NodesFollow
  <2>. QED  BY <1>0, <1>6, <2>1, <2>4, LockWhenFree DEF CompleteStep
<1>7. ASSUME NEW s \in Slots, CompleteLast(s)
      PROVE  LockInv'
  <2>1. lock = s
    BY <1>7 DEF LockInv, CompleteLast
  <2>2. NodesFollow'
    BY <1>1, <1>7 DEF LockInv, NodesFollow, CompleteLast, ClosedFrontier, FrontierRows
  <2>. QED  BY <1>0, <1>7, <2>1, <2>2, LockWhenFree DEF CompleteLast
<1>8. ASSUME NEW s \in Slots, CompletionRejected(s) \/ \E kind \in Raised : NodeFails(s, kind)
      PROVE  LockInv'
  <2>1. node' = node /\ fr' = fr /\ job' = job /\ \E kind \in Raised : Raise(s, kind)
    BY <1>8 DEF CompletionRejected, NodeFails, Raised
  <2>. QED  BY <1>0, <2>1, LockAfterRaise
<1>9. ASSUME NEW s \in Slots, ConvergeRetry(s) \/ ConvergeFail(s)
      PROVE  LockInv'
  <2>. DEFINE i == Step(s)
  <2>1. lock = NoSlot /\ EndTask(s) /\ node' = FailedNodeFact(i)
    BY <1>9 DEF ConvergeRetry, RetryScheduled, ConvergeFail
  <2>2. \A j \in StepIds : node'[j] = "completed" <=> node[j] = "completed"
    BY <1>1, <2>1 DEF FailedNodeFact
  <2>3. \A j \in StepIds : fr'[j].status = "completed" <=> fr[j].status = "completed"
    <3>1. CASE ConvergeFail(s)
      <4>1. fr' = FailActive(fr)
        BY <3>1 DEF ConvergeFail
      <4>2. \A j \in StepIds : ClosedFrontier(j, "failed").status = "failed"
        BY <1>1, ClosedRow DEF FrontierStates
      <4>. QED  BY <4>1, <4>2 DEF FailActive, Active
    <3>2. CASE ConvergeRetry(s)
      <4>1. PICK elapsed \in 0..age[s] : FrontierFence(s, elapsed)
              /\ fr' = [fr EXCEPT ![i] = [ClosedFrontier(i, "retry_wait") EXCEPT
                                            !.wait = Since(Backoff(job[s].attempt), elapsed)]]
        BY <3>2 DEF ConvergeRetry, RetryScheduled, MayConverge
      <4>2. fr[i].status = "running"
        BY <4>1 DEF FrontierFence
      <4>. QED  BY <1>1, <4>1, <4>2 DEF ClosedFrontier, FrontierRows
    <3>. QED  BY <1>9, <3>1, <3>2
  <2>4. NodesFollow'
    BY <2>2, <2>3 DEF LockInv, NodesFollow
  <2>. QED  BY <1>0, <2>1, <2>4, LockWhenFree
<1>10. ASSUME NEW s \in Slots, ConvergeLost(s) \/ HeartbeatLost(s) \/ Crash(s)
       PROVE  LockInv'
  <2>1. EndTask(s) /\ node' = node /\ fr' = fr
    BY <1>10 DEF ConvergeLost, HeartbeatLost, Crash
  <2>. QED  BY <1>0, <2>1, LockAfterEnd
<1>11. ASSUME NEW s \in Slots, ProbeCommit(s)
       PROVE  LockInv'
  <2>1. lock = s /\ lock' = NoSlot /\ pc' = pc /\ fr' = fr /\ InNode(s)
        /\ node' = [node EXCEPT ![Step(s)] = ProbedNodes(s)]
    BY <1>11 DEF ProbeCommit
  <2>2. /\ node[Step(s)] # "completed" /\ ProbedNodes(s) # "completed"
        /\ \A t \in Slots : pc[t] # "ran"
    BY <2>1 DEF LockInv, InNode, ProbedNodes
  <2>3. NodesFollow'
    BY <1>1, <2>1, <2>2 DEF LockInv, NodesFollow
  <2>. QED  BY <1>1, <2>1, <2>2, <2>3 DEF LockInv
<1>12. ASSUME NEW s \in Slots, HeartbeatRenews(s)
       PROVE  LockInv'
  <2>1. pc' = pc /\ lock' = lock /\ job' = job /\ node' = node
    BY <1>12 DEF HeartbeatRenews
  <2>2. \A j \in StepIds : fr'[j].status = fr[j].status
    BY <1>1, <1>12 DEF HeartbeatRenews, FrontierRows
  <2>. QED  BY <2>1, <2>2 DEF LockInv, NodesFollow, Step
<1>13. ASSUME NEW i \in StepIds, Recover(i)
       PROVE  LockInv'
  <2>1. pc' = pc /\ lock' = lock /\ job' = job /\ node' = node /\ fr[i].status = "running"
    BY <1>13 DEF Recover, Recoverable
  <2>2. fr'[i].status = "retry_wait" /\ \A j \in StepIds \ {i} : fr'[j] = fr[j]
    BY <1>1, <1>13 DEF Recover, ClosedFrontier, FrontierRows
  <2>. QED  BY <2>1, <2>2 DEF LockInv, NodesFollow, Step
<1>14. ASSUME Tick
       PROVE  LockInv'
  <2>1. pc' = pc /\ lock' = lock /\ job' = job /\ node' = node
    BY <1>14, Zenon DEF Tick
  <2>2. \A j \in StepIds : fr'[j].status = fr[j].status
    BY <1>0, <1>14, TickRows
  <2>. QED  BY <2>1, <2>2 DEF LockInv, NodesFollow, Step
<1>15. ASSUME pc' = pc, lock' = lock, job' = job, node' = node, fr' = fr
       PROVE  LockInv'
  BY <1>15 DEF LockInv, NodesFollow, Step
<1>16. ASSUME \/ \E s \in Slots : HeartbeatSeesTerminal(s) \/ HeartbeatDies(s)
              \/ CancelLoad \/ CancelApply \/ UNCHANGED vars
       PROVE  LockInv'
  BY <1>15, <1>16 DEF HeartbeatSeesTerminal, HeartbeatDies, CancelLoad, CancelApply, vars
<1>. QED
  BY <1>2, <1>3, <1>4, <1>5, <1>6, <1>7, <1>8, <1>9, <1>10, <1>11, <1>12, <1>13, <1>14, <1>16
     DEF Next, TaskStep, HeartbeatStep

\* Only a task that runs several nodes is ever past its first one, and only the
\* commit of a probe leaves a frontier's nodes half completed.
BatchInv ==
    /\ budget["probe"] \in Nat /\ budget["probe"] <= Faults["probe"]
    /\ \A s \in Slots : pc[s] = "rest" => Step(s) \in Batches
    /\ \A i \in StepIds : node[i] = "partly" => i \in Batches /\ budget["probe"] < Faults["probe"]

(* Half-completed frontiers appear with a probe's commit only.              *)
LEMMA BatchStep ==
    ASSUME TypeOK, BatchInv, [Next]_vars
    PROVE  BatchInv'
<1>1. /\ node \in [StepIds -> NodeStates]
      /\ pc \in [Slots -> Phases]
      /\ job \in [Slots -> [step : StepIds, attempt : Nat]]
      /\ budget \in [FaultKinds -> Nat] /\ "probe" \in FaultKinds
      /\ Faults["probe"] \in Nat
      /\ \A s \in Slots : Step(s) \in StepIds
  BY FaultAssumption DEF TypeOK, Step, FaultKinds
<1>2. ASSUME budget' = budget \/ budget'["probe"] = budget["probe"],
             node' = node \/ \E i \in StepIds, status \in NodeStates \ {"partly"} :
                               node' = [node EXCEPT ![i] = status],
             \/ pc' = pc /\ job' = job
             \/ \E s \in Slots, phase \in Phases \ {"rest"} :
                   /\ pc' = [pc EXCEPT ![s] = phase]
                   /\ \A t \in Slots \ {s} : job'[t] = job[t]
             \/ \E s \in Slots : Step(s) \in Batches /\ job' = job /\ pc' = [pc EXCEPT ![s] = "rest"]
      PROVE  BatchInv'
  <2>1. budget'["probe"] = budget["probe"]
    BY <1>2
  <2>2. \A i \in StepIds : node'[i] = "partly" => node[i] = "partly"
    BY <1>1, <1>2
  <2>3. \A s \in Slots : pc'[s] = "rest" => Step(s)' \in Batches
    BY <1>1, <1>2 DEF BatchInv, Step
  <2>. QED  BY <2>1, <2>2, <2>3 DEF BatchInv
<1>3. ASSUME NEW s \in Slots, ProbeCommit(s)
      PROVE  BatchInv'
  <2>1. /\ pc' = pc /\ job' = job /\ budget["probe"] > 0
        /\ budget' = [budget EXCEPT !["probe"] = budget["probe"] - 1]
        /\ node' = [node EXCEPT ![Step(s)] = ProbedNodes(s)]
    BY <1>3 DEF ProbeCommit
  <2>2. budget'["probe"] \in Nat /\ budget'["probe"] < Faults["probe"]
    BY <1>1, <2>1 DEF BatchInv
  <2>3. \A i \in StepIds : node'[i] = "partly" => i \in Batches
    BY <1>1, <2>1 DEF BatchInv, ProbedNodes
  <2>4. \A t \in Slots : pc'[t] = "rest" => Step(t)' \in Batches
    BY <2>1 DEF BatchInv, Step
  <2>5. \A i \in StepIds : node'[i] = "partly" => i \in Batches /\ budget'["probe"] < Faults["probe"]
    BY <2>2, <2>3
  <2>6. budget'["probe"] \in Nat /\ budget'["probe"] <= Faults["probe"]
    BY <1>1, <2>2
  <2>. QED  BY <2>4, <2>5, <2>6 DEF BatchInv
<1>4. ASSUME NEW s \in Slots, NEW i \in StepIds, Claim(s, i)
      PROVE  BatchInv'
  <2>1. /\ budget' = budget /\ node' = node /\ pc' = [pc EXCEPT ![s] = "claimed"]
        /\ \A t \in Slots \ {s} : job'[t] = job[t]
    BY <1>1, <1>4 DEF Claim
  <2>. QED  BY <1>2, <2>1 DEF Phases, Busy
<1>5. ASSUME NEW s \in Slots, EndTask(s), budget' = budget \/ budget'["probe"] = budget["probe"],
             node' = node \/ \E i \in StepIds, status \in NodeStates \ {"partly"} :
                               node' = [node EXCEPT ![i] = status]
      PROVE  BatchInv'
  <2>1. pc' = [pc EXCEPT ![s] = "idle"] /\ \A t \in Slots \ {s} : job'[t] = job[t]
    BY <1>1, <1>5 DEF EndTask
  <2>. QED  BY <1>2, <1>5, <2>1 DEF Phases
<1>6. ASSUME NEW s \in Slots, Verify(s) \/ Load(s) \/ StartNode(s) \/ NextNode(s) \/ FinishNode(s)
                              \/ CompletionRejected(s) \/ RetryNode(s)
                              \/ \E kind \in Raised : NodeFails(s, kind)
      PROVE  BatchInv'
  <2>1. node' = node /\ budget'["probe"] = budget["probe"]
    BY <1>1, <1>6 DEF Verify, Load, StartNode, NextNode, FinishNode, CompletionRejected, NodeFails,
                      RetryNode
  <2>2. CASE EndTask(s)
    BY <1>5, <2>1, <2>2
  <2>3. CASE job' = job /\ ~EndTask(s)
    <3>1. \/ pc' = pc
          \/ \E phase \in Phases \ {"rest"} : pc' = [pc EXCEPT ![s] = phase]
          \/ Step(s) \in Batches /\ pc' = [pc EXCEPT ![s] = "rest"]
      BY <1>6, <2>3 DEF Verify, Load, StartNode, NextNode, FinishNode, CompletionRejected, NodeFails,
                        RetryNode, Raise, Raised, Phases, Busy
    <3>. QED  BY <1>2, <2>1, <2>3, <3>1
  <2>. QED  BY <1>6, <2>2, <2>3 DEF Verify, Load, StartNode, NextNode, FinishNode, CompletionRejected,
                                    NodeFails, RetryNode
<1>7. ASSUME NEW s \in Slots, CompleteStep(s) \/ CompleteLast(s) \/ ConvergeRetry(s) \/ ConvergeFail(s)
                              \/ ConvergeLost(s) \/ HeartbeatLost(s) \/ Crash(s)
      PROVE  BatchInv'
  <2>1. EndTask(s) /\ budget'["probe"] = budget["probe"]
    BY <1>1, <1>7 DEF CompleteStep, CompleteLast, ConvergeRetry, ConvergeFail, ConvergeLost,
                      HeartbeatLost, Crash
  <2>2. \/ node' = node
        \/ \E status \in NodeStates \ {"partly"} : node' = [node EXCEPT ![Step(s)] = status]
    BY <1>7 DEF CompleteStep, CompleteLast, ConvergeRetry, ConvergeFail, ConvergeLost,
                HeartbeatLost, Crash, FailedNodeFact, NodeStates
  <2>. QED  BY <1>1, <1>5, <2>1, <2>2
<1>8. ASSUME NEW s \in Slots, HeartbeatRenews(s) \/ HeartbeatSeesTerminal(s) \/ HeartbeatDies(s)
      PROVE  BatchInv'
  <2>1. node' = node /\ pc' = pc /\ job' = job /\ budget'["probe"] = budget["probe"]
    BY <1>1, <1>8 DEF HeartbeatRenews, HeartbeatSeesTerminal, HeartbeatDies
  <2>. QED  BY <1>2, <2>1
<1>9. ASSUME \/ \E i \in StepIds : Recover(i)
             \/ CancelLoad \/ CancelApply \/ Tick \/ UNCHANGED vars
      PROVE  BatchInv'
  <2>1. node' = node /\ pc' = pc /\ job' = job /\ budget'["probe"] = budget["probe"]
    BY <1>1, <1>9 DEF Recover, CancelLoad, CancelApply, Tick, vars
  <2>. QED  BY <1>2, <2>1
<1>. QED
  <2>1. CASE UNCHANGED vars
    BY <1>9, <2>1
  <2>2. ASSUME NEW s \in Slots, TaskStep(s) \/ HeartbeatStep(s)
        PROVE  BatchInv'
    BY <1>6, <1>7, <1>8, <2>2 DEF TaskStep, HeartbeatStep
  <2>3. CASE Next
    BY <1>3, <1>4, <1>6, <1>7, <1>8, <1>9, <2>2, <2>3 DEF Next
  <2>. QED  BY <2>1, <2>3

(* A frontier completes exactly with all of its nodes, and nodes completed  *)
(* ahead of their frontier are the work of a circuit-breaker probe's commit *)
(* in a frontier of several nodes, for any interleaving of commits,         *)
(* rollbacks, probes and crashes.                                           *)
THEOREM NodeFactsAreAtomic == Spec => []NodeFactsMatchFrontiers
<1>1. Init => LockInv
  BY OwnerAssumption DEF Init, LockInv, NodesFollow, PendingFrontier, AbsentFrontier
<1>2. ProgressInv /\ LockInv /\ [Next]_vars => LockInv'
  BY LockStep
<1>3. Init => BatchInv
  BY FaultAssumption DEF Init, BatchInv, FaultKinds
<1>4. ProgressInv /\ BatchInv /\ [Next]_vars => BatchInv'
  BY BatchStep DEF ProgressInv
<1>5. LockInv /\ BatchInv => NodeFactsMatchFrontiers
  BY FaultAssumption DEF LockInv, NodesFollow, BatchInv, NodeFactsMatchFrontiers, Unused
<1>. QED  BY <1>1, <1>2, <1>3, <1>4, <1>5, ProgressHolds, PTL DEF Spec

-----------------------------------------------------------------------------
(* The abstract specification. *)

\* Nobody asks for a cancellation.
Uncancelled == budget["cancel"] = 0 /\ req.pc = "idle" /\ ex.status # "cancelled"

(* Without a cancel request, nothing else ever cancels an execution.        *)
LEMMA UncancelledStep ==
    ASSUME TypeOK, Uncancelled, [Next]_vars
    PROVE  Uncancelled'
<1>1. ex \in ExecutionRows /\ budget \in [FaultKinds -> Nat] /\ ~CancelLoad /\ ~CancelApply
  BY DEF TypeOK, Uncancelled, CancelLoad, CancelApply
<1>2. req'.pc = "idle" /\ budget'["cancel"] = 0
  <2>1. \A kind \in {"crash", "probe", "mute", "node"} :
           budget' = [budget EXCEPT ![kind] = budget[kind] - 1] => budget'["cancel"] = budget["cancel"]
    BY <1>1 DEF FaultKinds
  <2>2. CASE \E s \in Slots : \/ ProbeCommit(s) \/ HeartbeatDies(s) \/ Crash(s)
                              \/ \E kind \in Raised : NodeFails(s, kind)
    <3>1. req' = req /\ \E kind \in {"crash", "probe", "mute", "node"} :
                           budget' = [budget EXCEPT ![kind] = budget[kind] - 1]
      BY <2>2, Zenon DEF ProbeCommit, HeartbeatDies, Crash, NodeFails
    <3>. QED  BY <2>1, <3>1 DEF Uncancelled
  <2>3. CASE \E s \in Slots : TaskStep(s) \/ HeartbeatStep(s) \/ RetryNode(s)
    BY <2>3
       DEF Uncancelled, TaskStep, HeartbeatStep, Verify, Load, StartNode, NextNode, FinishNode, RetryNode,
           CompleteStep, CompleteLast, CompletionRejected, ConvergeRetry, RetryScheduled, ConvergeFail,
           ConvergeLost, HeartbeatRenews, HeartbeatSeesTerminal, HeartbeatLost
  <2>4. CASE \E i \in StepIds : Recover(i) \/ \E s \in Slots : Claim(s, i)
    <3>1. req' = req /\ budget' = budget
      BY <2>4, Zenon DEF Claim, Recover
    <3>. QED  BY <3>1 DEF Uncancelled
  <2>5. CASE Tick
    BY <2>5, Zenon DEF Tick, Uncancelled
  <2>6. CASE UNCHANGED vars
    BY <2>6 DEF vars, Uncancelled
  <2>. QED  BY <1>1, <2>2, <2>3, <2>4, <2>5, <2>6 DEF Next
<1>3. ex'.status # "cancelled"
  <2>1. CASE \E s \in Slots : \/ \E i \in StepIds : Claim(s, i)
                              \/ CompleteStep(s) \/ CompleteLast(s)
                              \/ ConvergeRetry(s) \/ ConvergeFail(s) \/ HeartbeatRenews(s)
    <3>1. PICK s \in Slots : \/ \E i \in StepIds : Claim(s, i)
                             \/ CompleteStep(s) \/ CompleteLast(s)
                             \/ ConvergeRetry(s) \/ ConvergeFail(s) \/ HeartbeatRenews(s)
      BY <2>1
    <3>2. CASE \E i \in StepIds : Claim(s, i)
      BY <3>2 DEF Claim, ClaimedExecution
    <3>3. CASE CompleteStep(s)
      BY <3>3 DEF Uncancelled, CompleteStep
    <3>4. CASE CompleteLast(s) \/ ConvergeFail(s)
      BY <1>1, <3>4 DEF ExecutionRows, CompleteLast, ConvergeFail
    <3>5. CASE ConvergeRetry(s)
      BY <1>1, <3>5 DEF Uncancelled, ExecutionRows, ConvergeRetry, RetryScheduled
    <3>6. CASE HeartbeatRenews(s)
      BY <1>1, <3>6 DEF Uncancelled, ExecutionRows, HeartbeatRenews, RenewedExecution
    <3>. QED  BY <3>1, <3>2, <3>3, <3>4, <3>5, <3>6
  <2>2. CASE (\E i \in StepIds : Recover(i)) \/ UNCHANGED <<ex, fr, ckpt>>
    BY <2>2 DEF Uncancelled, Recover
  <2>3. CASE Tick
    BY <2>3, TickRows DEF Uncancelled
  <2>. QED  BY <1>1, <2>1, <2>2, <2>3, RowWriters
<1>. QED  BY <1>2, <1>3 DEF Uncancelled

Outcome == IF Undecided THEN "open" ELSE ex.status

(* Every step maps to a step of WorkflowProgress or to a stutter.           *)
LEMMA ProgressMap ==
    ASSUME ProgressInv, Uncancelled, [Next]_vars
    PROVE  [Progress!Next]_<<Len(ckpt), Outcome>>
<1>0. /\ TypeOK /\ ProgressIsSequential /\ ClosedExecutionHasNoActiveFrontier
      /\ Uncancelled' /\ ProgressIsSequential'
  BY UncancelledStep, ProgressStep DEF ProgressInv
<1>1. /\ ex \in ExecutionRows /\ ckpt \in Seq(StepIds) /\ Len(ckpt) \in Nat
      /\ \A s \in Slots : Step(s) \in StepIds
  BY <1>0 DEF TypeOK, Step
<1>2. \A i \in StepIds : fr[i].status = "running" => Outcome = "open" /\ i = Len(ckpt) + 1
  BY <1>0, <1>1, ActiveIsNext
     DEF ClosedExecutionHasNoActiveFrontier, Uncancelled, Outcome, Undecided, Active,
         ExecutionRows, ExecutionStates, Terminal
<1>3. ASSUME NEW s \in Slots, CompleteStep(s)
      PROVE  Progress!Advance
  <2>1. /\ fr[Step(s)].status = "running" /\ Step(s) < Steps
        /\ ckpt' = AppendCheckpoint(Step(s)) /\ ex' = ex
    BY <1>3 DEF CompleteStep, CanAdvance, CompletionFence, FrontierFence
  <2>2. Len(ckpt') = Len(ckpt) + 1
    BY <1>0, <1>1, <2>1, CompletionExtends
  <2>3. Outcome = "open" /\ Outcome' = Outcome /\ Len(ckpt) + 1 < Steps
    BY <1>1, <1>2, <2>1 DEF Outcome, Undecided
  <2>. QED  BY <2>2, <2>3 DEF Progress!Advance, Outcome
<1>4. ASSUME NEW s \in Slots, CompleteLast(s)
      PROVE  Progress!Complete
  <2>1. /\ fr[Step(s)].status = "running" /\ Step(s) = Steps
        /\ ckpt' = AppendCheckpoint(Step(s)) /\ ex'.status = "completed"
    BY <1>1, <1>4 DEF CompleteLast, CanFinish, CompletionFence, FrontierFence, ExecutionRows
  <2>2. Len(ckpt') = Len(ckpt) + 1
    BY <1>0, <1>1, <2>1, CompletionExtends
  <2>3. Outcome = "open" /\ Outcome' = "completed" /\ Len(ckpt) + 1 = Steps
    BY <1>1, <1>2, <2>1 DEF Outcome, Undecided
  <2>. QED  BY <2>2, <2>3 DEF Progress!Complete, Outcome
<1>5. ASSUME NEW s \in Slots, ConvergeFail(s)
      PROVE  Progress!Fail
  <2>1. fr[Step(s)].status = "running" /\ ckpt' = ckpt /\ ex'.status = "failed"
    BY <1>1, <1>5 DEF ConvergeFail, MayConverge, FrontierFence, ExecutionRows
  <2>2. Outcome = "open" /\ Outcome' = "failed"
    BY <1>1, <1>2, <2>1 DEF Outcome, Undecided
  <2>. QED  BY <2>1, <2>2 DEF Progress!Fail, Outcome
<1>6. ASSUME ckpt' = ckpt,
             ex'.status = ex.status \/ {ex.status, ex'.status} \subseteq {"pending", "running"}
      PROVE  UNCHANGED <<Len(ckpt), Outcome>>
  BY <1>6 DEF Outcome, Undecided
<1>7. ASSUME NEW s \in Slots, \/ \E i \in StepIds : Claim(s, i)
                              \/ ConvergeRetry(s) \/ HeartbeatRenews(s)
      PROVE  UNCHANGED <<Len(ckpt), Outcome>>
  <2>1. CASE \E i \in StepIds : Claim(s, i)
    BY <1>6, <2>1 DEF Claim, ExecutionClaimable, ClaimedExecution
  <2>2. CASE ConvergeRetry(s)
    BY <1>1, <1>6, <2>2 DEF ConvergeRetry, RetryScheduled, ExecutionRows
  <2>3. CASE HeartbeatRenews(s)
    BY <1>1, <1>6, <2>3 DEF HeartbeatRenews, RenewedExecution, ExecutionRows
  <2>. QED  BY <1>7, <2>1, <2>2, <2>3
<1>8. ASSUME Tick
      PROVE  UNCHANGED <<Len(ckpt), Outcome>>
  <2>1. ckpt' = ckpt
    BY <1>8, Zenon DEF Tick
  <2>. QED  BY <1>0, <1>6, <1>8, <2>1, TickRows
<1>9. ASSUME (\E i \in StepIds : Recover(i)) \/ UNCHANGED <<ex, fr, ckpt>>
      PROVE  UNCHANGED <<Len(ckpt), Outcome>>
  BY <1>6, <1>9 DEF Recover
<1>10. ~CancelApply
  BY DEF Uncancelled, CancelApply
<1>. QED
  BY <1>3, <1>4, <1>5, <1>7, <1>8, <1>9, <1>10, RowWriters DEF Progress!Next

(* Workers, leases, retries, recoveries and crashes implement the plain     *)
(* chain of exactly-once frontiers, for executions nobody cancels.          *)
THEOREM ImplementsProgress == Faults["cancel"] = 0 /\ Spec => RefinesProgress
<1>1. Faults["cancel"] = 0 /\ Init => Uncancelled
  BY DEF Init, Uncancelled, NewExecution
<1>2. ProgressInv /\ Uncancelled /\ [Next]_vars => Uncancelled'
  BY UncancelledStep DEF ProgressInv
<1>3. Init => Progress!Init
  BY DEF Init, NewExecution, Undecided, Progress!Init
<1>4. ProgressInv /\ Uncancelled /\ [Next]_vars => [Progress!Next]_<<Len(ckpt), Outcome>>
  BY ProgressMap
<1>. QED  BY <1>1, <1>2, <1>3, <1>4, ProgressHolds, PTL DEF Spec, RefinesProgress, Progress!Spec, Outcome
=============================================================================
