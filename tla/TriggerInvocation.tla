--------------------------- MODULE TriggerInvocation ---------------------------
(***************************************************************************)
(* The requests that start executions of one trigger: deliveries of a      *)
(* webhook (services/trigger/webhook.py), calls of a manual trigger        *)
(* (services/trigger/service.py) and governed calls of operators           *)
(* (operator_governance.py, execute_trigger).  An execution belongs to an  *)
(* idempotency key, unique in its tenant; a request commits it and then    *)
(* runs it in a second transaction, from the copy it holds since the       *)
(* first.  Operators do both, and record their key, in one transaction.    *)
(***************************************************************************)
EXTENDS Naturals

CONSTANTS
    Calls,          \* requests that overlap
    CallKeys,       \* idempotency keys (identities of webhook events)
    MaxCallLosses   \* bound: how many requests are lost with their process

ASSUME CallBounds == MaxCallLosses \in Nat

VARIABLES
    triggerKind,    \* webhook or manual: it never changes
    triggerStatus,
    keyed,          \* status of the execution of each key
    operations,     \* the operators' own rows: key -> outcome
    call,           \* where each request is, and its copy of what it read
    starts,         \* (history) how often the execution of a key was started
    callLosses

invocationVars == <<triggerKind, triggerStatus, keyed, operations, call, starts, callLosses>>

NoCall == [how |-> "none", key |-> "none", at |-> "idle", copy |-> "none", said |-> "none"]

InvocationInit ==
    /\ triggerKind \in {"webhook", "manual"}
    /\ triggerStatus = "enabled"
    /\ keyed = [k \in CallKeys |-> "absent"]
    /\ operations = [k \in CallKeys |-> "absent"]
    /\ call = [c \in Calls |-> NoCall]
    /\ starts = [k \in CallKeys |-> 0]
    /\ callLosses = 0

Is(c, how, at) == call[c].how = how /\ call[c].at = at
Key(c) == call[c].key

\* A request goes on to step "at" with a copy of what it read, or answers.
Goes(c, at, copy) == call' = [call EXCEPT ![c].at = at, ![c].copy = copy]
Says(c, said) == call' = [call EXCEPT ![c].at = "over", ![c].said = said]
Comes(c, how, k, at, copy, said) ==
    /\ call[c] = NoCall
    /\ call' = [call EXCEPT ![c] = [how |-> how, key |-> k, at |-> at, copy |-> copy, said |-> said]]

-----------------------------------------------------------------------------
(* A webhook event. *)
Deliver(c, k) ==
    /\ triggerKind = "webhook" /\ triggerStatus = "enabled"
    /\ Comes(c, "webhook", k, "asked", "none", "none")
    /\ UNCHANGED <<triggerKind, triggerStatus, keyed, operations, starts, callLosses>>

\* Mutant: a redelivery goes on with the execution it finds.
ClaimEvent_RunExisting(c) ==
    /\ Is(c, "webhook", "asked")
    /\ keyed' = [keyed EXCEPT ![Key(c)] = IF @ = "absent" THEN "pending" ELSE @]
    /\ Goes(c, "read", keyed'[Key(c)])
    /\ UNCHANGED <<triggerKind, triggerStatus, operations, starts, callLosses>>

\* INSERT ... ON CONFLICT DO NOTHING waits for an insert under way: the key is
\* the request's, with its commit, or the delivery is a duplicate.
ClaimEvent(c) ==
    /\ Is(c, "webhook", "asked")
    /\ IF keyed[Key(c)] = "absent"
         THEN keyed' = [keyed EXCEPT ![Key(c)] = "pending"] /\ Goes(c, "read", "pending")
         ELSE UNCHANGED keyed /\ Says(c, "existing")
    /\ UNCHANGED <<triggerKind, triggerStatus, operations, starts, callLosses>>

(* A manual call. *)
Invoke(c, k) ==
    /\ triggerKind = "manual" /\ triggerStatus = "enabled"
    /\ IF keyed[k] = "absent" THEN Comes(c, "manual", k, "asked", "none", "none")
                              ELSE Comes(c, "manual", k, "over", "none", "existing")
    /\ UNCHANGED <<triggerKind, triggerStatus, keyed, operations, starts, callLosses>>

\* create() and the commit: when another request has inserted the key since the
\* lookup, its execution is read and run.
CreateExecution(c) ==
    /\ Is(c, "manual", "asked")
    /\ keyed' = [keyed EXCEPT ![Key(c)] = IF @ = "absent" THEN "pending" ELSE @]
    /\ Goes(c, "read", keyed'[Key(c)])
    /\ UNCHANGED <<triggerKind, triggerStatus, operations, starts, callLosses>>

\* Mutant: whatever has not failed is run.
StartRun_AnyStatus(c) ==
    /\ Is(c, "webhook", "read") \/ Is(c, "manual", "read")
    /\ keyed' = [keyed EXCEPT ![Key(c)] = "running"]
    /\ starts' = [starts EXCEPT ![Key(c)] = @ + 1]
    /\ Goes(c, "running", call[c].copy)
    /\ UNCHANGED <<triggerKind, triggerStatus, operations, callLosses>>

\* run(): the row is locked, and what is compared is the copy: the lock does not
\* refresh it.
StartRun(c) ==
    /\ Is(c, "webhook", "read") \/ Is(c, "manual", "read")
    /\ IF call[c].copy = "pending"
         THEN /\ keyed' = [keyed EXCEPT ![Key(c)] = "running"]
              /\ starts' = [starts EXCEPT ![Key(c)] = @ + 1]
              /\ Goes(c, "running", "pending")
         ELSE Says(c, "error") /\ UNCHANGED <<keyed, starts>>
    /\ UNCHANGED <<triggerKind, triggerStatus, operations, callLosses>>

\* Mutant: a failure is only answered.
EndRun_Unrecorded(c) ==
    /\ call[c].at = "running"
    /\ Says(c, "failed")
    /\ UNCHANGED <<triggerKind, triggerStatus, keyed, operations, starts, callLosses>>

\* The nodes and the terminal transition are one transaction, which holds the
\* row from its first node on; the copy says running. It fails: if no node does,
\* the checkpoint of the first one is refused, since a request is no worker and
\* has no owner that could fence it.
EndRun(c) ==
    /\ call[c].at = "running"
    /\ keyed' = [keyed EXCEPT ![Key(c)] = "failed"]
    /\ Says(c, "failed")
    /\ UNCHANGED <<triggerKind, triggerStatus, operations, starts, callLosses>>

(* An operator. *)
Operate(c, k) ==
    /\ triggerStatus # "deleted"
    /\ Comes(c, "operator", k, "claiming",
             IF triggerKind = "manual" THEN triggerStatus ELSE "refused", "none")
    /\ UNCHANGED <<triggerKind, triggerStatus, keyed, operations, starts, callLosses>>

\* A row that is not committed yet makes the next claim of its key wait.
Claimed(k) == \E o \in Calls : Key(o) = k /\ (Is(o, "operator", "asked") \/ Is(o, "operator", "read"))

Record(k, outcome) == operations' = [operations EXCEPT ![k] = outcome]

\* The claim, availability() from what the request read before it, and the
\* lookup of the execution of the key.
ClaimOperation(c) ==
    LET k == Key(c)
        refused == call[c].copy # "enabled"
    IN /\ Is(c, "operator", "claiming") /\ ~ Claimed(k)
       /\ \/ /\ operations[k] # "absent"
             /\ Says(c, IF operations[k] = "succeeded" THEN "existing" ELSE "error")
             /\ UNCHANGED operations
          \/ /\ operations[k] = "absent" /\ refused
             /\ Says(c, "error") /\ UNCHANGED operations
          \/ /\ operations[k] = "absent" /\ ~ refused /\ keyed[k] # "absent"
             /\ Says(c, "existing") /\ Record(k, "succeeded")
          \/ /\ operations[k] = "absent" /\ ~ refused /\ keyed[k] = "absent"
             /\ Goes(c, "asked", "none") /\ UNCHANGED operations
       /\ UNCHANGED <<triggerKind, triggerStatus, keyed, starts, callLosses>>

\* The failed run and the operator's row are committed together.
RunAndRecord(c) ==
    /\ keyed' = [keyed EXCEPT ![Key(c)] = "failed"]
    /\ starts' = [starts EXCEPT ![Key(c)] = @ + 1]
    /\ Record(Key(c), "failed")
    /\ Says(c, "failed")

OperatorCreates(c) ==
    /\ Is(c, "operator", "asked")
    /\ IF keyed[Key(c)] = "absent" THEN RunAndRecord(c)
       ELSE Goes(c, "read", keyed[Key(c)]) /\ UNCHANGED <<keyed, starts, operations>>
    /\ UNCHANGED <<triggerKind, triggerStatus, callLosses>>

OperatorRuns(c) ==
    /\ Is(c, "operator", "read")
    /\ IF call[c].copy = "pending" THEN RunAndRecord(c)
       ELSE Record(Key(c), "failed") /\ Says(c, "error") /\ UNCHANGED <<keyed, starts>>
    /\ UNCHANGED <<triggerKind, triggerStatus, callLosses>>

\* enable, disable, delete.
ChangeTrigger(status) ==
    /\ triggerStatus # "deleted" /\ triggerStatus # status
    /\ triggerStatus' = status
    /\ UNCHANGED <<triggerKind, keyed, operations, call, starts, callLosses>>

\* A crash: what the request has committed stays.
LoseCall(c) ==
    /\ call[c].at \notin {"idle", "over", "lost"} /\ callLosses < MaxCallLosses
    /\ call' = [call EXCEPT ![c].at = "lost"]
    /\ callLosses' = callLosses + 1
    /\ UNCHANGED <<triggerKind, triggerStatus, keyed, operations, starts>>

-----------------------------------------------------------------------------
CallStep(c) ==
    \/ ClaimEvent(c) \/ CreateExecution(c) \/ StartRun(c) \/ EndRun(c)
    \/ ClaimOperation(c) \/ OperatorCreates(c) \/ OperatorRuns(c)

\* The three routes by which a request comes.
ReceiveWebhook(c) == \E k \in CallKeys : Deliver(c, k)
InvokeTrigger(c) == \E k \in CallKeys : Invoke(c, k)
TriggerAction(c) == \E k \in CallKeys : Operate(c, k)

InvocationNext ==
    \/ \E c \in Calls : ReceiveWebhook(c) \/ InvokeTrigger(c) \/ TriggerAction(c)
    \/ \E c \in Calls : CallStep(c) \/ LoseCall(c)
    \/ \E status \in {"enabled", "disabled", "deleted"} : ChangeTrigger(status)

InvocationSpec == InvocationInit /\ [][InvocationNext]_invocationVars

\* A request that is not lost goes on: nodes have timeouts.
InvocationFairness == \A c \in Calls : WF_invocationVars(CallStep(c))

-----------------------------------------------------------------------------
(* However often and in whatever overlap an event is delivered, its execution
   is started once (webhook.py:118-140, the unique key). *)
EventsRunOnce == triggerKind = "webhook" => \A k \in CallKeys : starts[k] <= 1

(* Who was answered that the run failed finds the execution failed for ever: a
   decided execution is not opened again, unless another request read it while
   it was pending (execution.py:78-86: who lost the insert runs what it found). *)
AnswersStand ==
    \A c \in Calls :
        call[c].said = "failed" /\ keyed[Key(c)] # "failed" =>
            \E o \in Calls \ {c} : Key(o) = Key(c) /\ call[o].copy = "pending"

(* An execution somebody asked for ends, unless the process of a request for it
   is lost: redeliveries and repetitions find it and leave it. *)
InvocationsEnd ==
    \A k \in CallKeys :
        (keyed[k] \in {"pending", "running"})
            ~> (keyed[k] = "failed" \/ \E c \in Calls : Key(c) = k /\ call[c].at = "lost")
=============================================================================
