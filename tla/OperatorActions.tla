--------------------------- MODULE OperatorActions ---------------------------
(***************************************************************************)
(* The governed operator actions on executions                             *)
(* (runtime_operations/operator_governance.py) over the lineage of         *)
(* executions: retry and resume claim an Idempotency-Key, cancel and run   *)
(* do not, but all four write their result under the key they were sent.   *)
(* Each action is one transaction.                                         *)
(***************************************************************************)
EXTENDS ResumeLineage

CONSTANTS Key, NoKey

VARIABLE keys      \* the operator_action_idempotency rows of the tenant

opVars == <<vars, keys>>

Unclaimed == [action |-> "none", target |-> None, status |-> "absent", result |-> None]

Record ==
  [action: {"none", "retry", "resume"}, target: Execution \union {None},
   status: {"absent", "succeeded", "failed"}, result: Execution \union {None}]

OpInit == Init /\ keys = [k \in Key |-> Unclaimed]

\* availability(): what the state of the execution allows. A resume follows the
\* recovery assessment of its latest checkpoint.
Available(action, e) ==
  CASE action = "run"    -> ex[e].status = "pending"
    [] action = "cancel" -> ex[e].status \in {"pending", "running"}
    [] action = "retry"  -> ex[e].status = "failed"
    [] action = "resume" -> Resumable(e)

\* _claim_idempotency: the first request with the key inserts its row. The same
\* request again gets the recorded result and another request with the key, or
\* one whose row failed, gets a 409 (_reuse_or_raise): neither changes anything.
Claims(k) == keys[k].status = "absent"

Succeeded(k, action, e, result) ==
  [keys EXCEPT ![k] = [action |-> action, target |-> e, status |-> "succeeded", result |-> result]]

\* Without a key a resume claims one derived from the checkpoint, so the
\* resume is the one of ManualResume.
OperatorRetry(k, e) ==
  /\ Available("retry", e)
  /\ Claims(k)
  /\ Retry(e)
  /\ keys' = Succeeded(k, "retry", e, Next1)

OperatorResume(k, e) ==
  /\ Available("resume", e)
  /\ Claims(k)
  /\ \/ ManualResume(e) /\ keys' = Succeeded(k, "resume", e, Next1)
     \/ \E r \in ResumesOf(e) : keys' = Succeeded(k, "resume", e, r) /\ UNCHANGED vars

\* _finish_idempotency writes the row of the key, whoever claimed it; there
\* must be one, or everything is rolled back.
Finished(k, status, result) ==
  IF k = NoKey THEN keys
  ELSE [keys EXCEPT ![k].status = status,
                    ![k].result = IF status = "succeeded" THEN result ELSE None]

Recorded(k) == k # NoKey => keys[k].status # "absent"

OperatorCancel(k, e) ==
  /\ Available("cancel", e)
  /\ Recorded(k)
  /\ Cancel(e)
  /\ keys' = Finished(k, "succeeded", e)

\* run() under the lock of the row from its first statement to its commit. A
\* failed run is rolled back, unless a key's row is marked failed: that
\* commits the failure too.
OperatorRun(k, e) ==
  /\ Available("run", e)
  /\ Recorded(k)
  /\ ex[e].frontier = {}
  /\ \E p \in Stops(e) :
       /\ p.cause # "none" => k # NoKey
       /\ ex' = [ex EXCEPT ![e] = Over(e, p)]
       /\ keys' = Finished(k, IF p.cause = "none" THEN "succeeded" ELSE "failed", e)
  /\ Ends(e)
  /\ UNCHANGED <<definition, inline, repairs>>

\* record_dag_decision(): the first plan of a DAG is recorded in the trace that
\* links the execution to its source, if there is one, and committed at once.
Decides(e) == ~ Linear(definition) /\ ex[e].traced /\ Plannable(definition, Done(e))

\* run() of an execution a worker is to run: both terminal transitions are
\* refused. What commits nevertheless, beside the frontier, is what a key's row
\* marked failed or the decision of a traced resume commits.
OperatorOverruns(k, e) ==
  /\ Available("run", e)
  /\ Recorded(k)
  /\ ex[e].frontier # {}
  /\ \/ /\ k # NoKey
        /\ \E p \in Stops(e) :
             ex' = [ex EXCEPT ![e] = [Ran(e, p) EXCEPT !.status = "running",
                                                       !.overrun = ex[e].overrun \/ p.done # {}]]
     \/ /\ k = NoKey
        /\ Decides(e)
        /\ ex' = [ex EXCEPT ![e].status = "running"]
  /\ keys' = Finished(k, "failed", e)
  /\ UNCHANGED <<definition, before, inline, repairs>>

\* One request: a retry is refused without a key, a resume without one claims
\* the key its checkpoint gives.
OperatorRequest(k, e) ==
  \/ k # NoKey /\ (OperatorRetry(k, e) \/ OperatorResume(k, e))
  \/ OperatorCancel(k, e) \/ OperatorRun(k, e) \/ OperatorOverruns(k, e)

\* A batch commits or rolls back each of its items alone, with a key derived
\* from its own for a retry and without a key otherwise: its items are requests.
OperatorActs(e) == \E k \in Key \union {NoKey} : OperatorRequest(k, e)

OpNext ==
  \/ Next /\ UNCHANGED keys
  \/ \E e \in Execution : OperatorActs(e)

OpSpec == OpInit /\ [][OpNext]_opVars

OpFairSpec == OpSpec /\ Fairness

-----------------------------------------------------------------------------
\* Every row has the shape of its table.
OpTypeOK == TypeOK /\ keys \in [Key -> Record]

\* A key that was answered keeps its answer: repeating the request it belongs
\* to never returns the execution of another request
\* (operator_governance.py: a key sent with another resource is a 409).
KeysKeepTheirResult ==
  [][\A k \in Key : keys[k].status = "succeeded" =>
       keys'[k].status = "succeeded" /\ keys'[k].result = keys[k].result]_opVars
=============================================================================
