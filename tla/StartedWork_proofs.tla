-------------------------- MODULE StartedWork_proofs --------------------------
(***************************************************************************)
(* Proofs about what starts an execution and what a node of it calls:      *)
(* TriggerInvocation and ModelGovernance, which share no variable, for any *)
(* number of requests, keys, profiles, providers and managers.             *)
(***************************************************************************)
EXTENDS TriggerInvocation, ModelGovernance, TLAPS

-----------------------------------------------------------------------------
(* Requests for one trigger. *)

Steps == {"idle", "asked", "read", "running", "claiming", "over", "lost"}
KeyStates == {"absent", "pending", "running", "failed"}
TriggerStates == {"enabled", "disabled", "deleted"}
Copies == KeyStates \cup TriggerStates \cup {"none", "refused"}
CallRows == [how : {"none", "webhook", "manual", "operator"}, key : CallKeys \cup {"none"}, at : Steps,
             copy : Copies, said : {"none", "existing", "error", "failed"}]

CallsTyped ==
    /\ keyed \in [CallKeys -> KeyStates] /\ starts \in [CallKeys -> Nat] /\ call \in [Calls -> CallRows]
    /\ triggerStatus \in TriggerStates
    /\ \A c \in Calls : call[c].at # "idle" => call[c].key \in CallKeys

\* The requests that may still start the execution of a key.
Holding(c, k) == call[c].how = "webhook" /\ call[c].key = k /\ call[c].at = "read"

\* One request inserted the row of an event; it alone starts the execution, and
\* an operator gets no further than the refusal.
EventInv ==
    triggerKind = "webhook" =>
        /\ \A c \in Calls : /\ call[c].how # "manual"
                            /\ call[c].at \in {"asked", "read", "running"} => call[c].how = "webhook"
                            /\ call[c].at = "claiming" => call[c].copy # "enabled"
        /\ \A k \in CallKeys :
             /\ starts[k] = 0 \/ (starts[k] = 1 /\ keyed[k] # "absent" /\ \A c \in Calls : ~Holding(c, k))
             /\ \A b, c \in Calls : Holding(b, k) /\ Holding(c, k) => b = c
             /\ \A c \in Calls : Holding(c, k) => keyed[k] # "absent"

(* Types are kept. *)
LEMMA CallsKeepType == CallsTyped /\ [InvocationNext]_invocationVars => CallsTyped'
<1>. SUFFICES ASSUME CallsTyped, [InvocationNext]_invocationVars PROVE CallsTyped'
  OBVIOUS
<1>a. /\ keyed \in [CallKeys -> KeyStates] /\ starts \in [CallKeys -> Nat] /\ call \in [Calls -> CallRows]
      /\ triggerStatus \in TriggerStates
      /\ \A c \in Calls : call[c].at # "idle" => call[c].key \in CallKeys
  BY DEF CallsTyped
<1>b. ASSUME NEW c \in Calls, call[c].at # "idle", NEW at \in Steps, at # "idle",
             \/ \E copy \in Copies : Goes(c, at, copy)
             \/ at = "over" /\ \E said \in {"existing", "error", "failed"} : Says(c, said)
             \/ call' = [call EXCEPT ![c].at = at]
      PROVE  /\ call' \in [Calls -> CallRows]
             /\ \A o \in Calls : call'[o].at # "idle" => call'[o].key \in CallKeys
  <2>1. PICK r \in CallRows : call' = [call EXCEPT ![c] = r] /\ r.key = call[c].key
    <3>1. CASE \E copy \in Copies : Goes(c, at, copy)
      <4>1. PICK copy \in Copies : Goes(c, at, copy)
        BY <3>1
      <4>2. call' = [call EXCEPT ![c] = [call[c] EXCEPT !.at = at, !.copy = copy]]
        BY <4>1 DEF Goes
      <4>3. [call[c] EXCEPT !.at = at, !.copy = copy] \in CallRows
            /\ [call[c] EXCEPT !.at = at, !.copy = copy].key = call[c].key
        BY <1>a DEF CallRows
      <4>. QED  BY <4>2, <4>3
    <3>2. CASE at = "over" /\ \E said \in {"existing", "error", "failed"} : Says(c, said)
      <4>1. PICK said \in {"existing", "error", "failed"} : Says(c, said)
        BY <3>2
      <4>2. call' = [call EXCEPT ![c] = [call[c] EXCEPT !.at = "over", !.said = said]]
        BY <4>1 DEF Says
      <4>3. [call[c] EXCEPT !.at = "over", !.said = said] \in CallRows
            /\ [call[c] EXCEPT !.at = "over", !.said = said].key = call[c].key
        BY <1>a DEF CallRows, Steps
      <4>. QED  BY <4>2, <4>3
    <3>3. CASE call' = [call EXCEPT ![c].at = at]
      <4>3. [call[c] EXCEPT !.at = at] \in CallRows /\ [call[c] EXCEPT !.at = at].key = call[c].key
        BY <1>a DEF CallRows
      <4>. QED  BY <3>3, <4>3
    <3>. QED  BY <1>b, <3>1, <3>2, <3>3
  <2>. QED  BY <1>a, <1>b, <2>1
<1>1. ASSUME NEW c \in Calls, NEW k \in CallKeys, Deliver(c, k) \/ Invoke(c, k) \/ Operate(c, k) PROVE CallsTyped'
  <2>1. \E r \in CallRows : r.key = k /\ call' = [call EXCEPT ![c] = r]
    BY <1>1, <1>a DEF Deliver, Invoke, Operate, Comes, CallRows, Steps, Copies
  <2>2. UNCHANGED <<keyed, starts, triggerStatus>>
    BY <1>1 DEF Deliver, Invoke, Operate
  <2>. QED  BY <1>a, <2>1, <2>2 DEF CallsTyped
<1>2. ASSUME NEW c \in Calls, ClaimEvent(c) \/ CreateExecution(c) PROVE CallsTyped'
  <2>1. call[c].at = "asked" /\ Key(c) \in CallKeys /\ UNCHANGED <<starts, triggerStatus>>
    BY <1>2, <1>a DEF ClaimEvent, CreateExecution, Is, Key
  <2>2. keyed' \in [CallKeys -> KeyStates]
    BY <1>2, <1>a, <2>1 DEF ClaimEvent, CreateExecution, KeyStates
  <2>3. (\E copy \in Copies : Goes(c, "read", copy)) \/ Says(c, "existing")
    BY <1>2, <2>1, <2>2 DEF ClaimEvent, CreateExecution, Copies, KeyStates
  <2>. QED  BY <1>a, <1>b, <2>1, <2>2, <2>3 DEF CallsTyped, Steps
<1>3. ASSUME NEW c \in Calls, StartRun(c) PROVE CallsTyped'
  <2>1. call[c].at = "read" /\ Key(c) \in CallKeys /\ UNCHANGED triggerStatus
    BY <1>3, <1>a DEF StartRun, Is, Key
  <2>2. keyed' \in [CallKeys -> KeyStates] /\ starts' \in [CallKeys -> Nat]
    BY <1>3, <1>a, <2>1 DEF StartRun, KeyStates
  <2>3. Goes(c, "running", "pending") \/ Says(c, "error")
    BY <1>3 DEF StartRun
  <2>. QED  BY <1>a, <1>b, <2>1, <2>2, <2>3 DEF CallsTyped, Steps, Copies, KeyStates
<1>4. ASSUME NEW c \in Calls, ClaimOperation(c) PROVE CallsTyped'
  <2>1. call[c].at = "claiming" /\ UNCHANGED <<keyed, starts, triggerStatus>>
    BY <1>4 DEF ClaimOperation, Is
  <2>2. Goes(c, "asked", "none") \/ Says(c, "existing") \/ Says(c, "error")
    BY <1>4 DEF ClaimOperation
  <2>. QED  BY <1>a, <1>b, <2>1, <2>2 DEF CallsTyped, Steps, Copies
<1>5. ASSUME NEW c \in Calls,
             EndRun(c) \/ OperatorCreates(c) \/ OperatorRuns(c)
      PROVE  CallsTyped'
  <2>1. call[c].at \in {"running", "asked", "read"} /\ Key(c) \in CallKeys /\ UNCHANGED triggerStatus
    BY <1>5, <1>a DEF EndRun, OperatorCreates, OperatorRuns, Is, Key
  <2>2. keyed' \in [CallKeys -> KeyStates] /\ starts' \in [CallKeys -> Nat]
    BY <1>5, <1>a, <2>1 DEF EndRun, OperatorCreates, OperatorRuns, RunAndRecord, KeyStates
  <2>3. Goes(c, "read", keyed[Key(c)]) \/ Says(c, "failed") \/ Says(c, "error")
    BY <1>5 DEF EndRun, OperatorCreates, OperatorRuns, RunAndRecord
  <2>4. keyed[Key(c)] \in Copies
    BY <1>a, <2>1 DEF Copies
  <2>. QED  BY <1>a, <1>b, <2>1, <2>2, <2>3, <2>4 DEF CallsTyped, Steps
<1>6. ASSUME NEW c \in Calls, LoseCall(c) PROVE CallsTyped'
  BY <1>6, <1>a, <1>b DEF LoseCall, CallsTyped, Steps
<1>7. ASSUME NEW status \in TriggerStates, ChangeTrigger(status) PROVE CallsTyped'
  BY <1>7, <1>a DEF ChangeTrigger, CallsTyped
<1>8. CASE UNCHANGED invocationVars
  BY <1>8 DEF invocationVars, CallsTyped
<1>. QED  BY <1>1, <1>2, <1>3, <1>4, <1>5, <1>6, <1>7, <1>8
          DEF InvocationNext, ReceiveWebhook, InvokeTrigger, TriggerAction, CallStep, TriggerStates

(* The first state has the types. *)
LEMMA CallsTypedInit == InvocationInit => CallsTyped
BY DEF InvocationInit, CallsTyped, CallRows, KeyStates, TriggerStates, Copies, Steps, NoCall

(* A step moves one request. *)
LEMMA OneCallMoves ==
    ASSUME CallsTyped, NEW c \in Calls, CallStep(c) \/ LoseCall(c)
    PROVE  /\ \A o \in Calls \ {c} : call'[o] = call[o]
           /\ call'[c].how = call[c].how /\ call'[c].key = call[c].key
           /\ call[c].at \notin {"idle", "over", "lost"} /\ Key(c) \in CallKeys
           /\ \A k \in CallKeys \ {Key(c)} : keyed'[k] = keyed[k] /\ starts'[k] = starts[k]
           /\ UNCHANGED triggerKind
<1>a. keyed \in [CallKeys -> KeyStates] /\ starts \in [CallKeys -> Nat] /\ call \in [Calls -> CallRows]
      /\ \A o \in Calls : call[o].at # "idle" => call[o].key \in CallKeys
  BY DEF CallsTyped
<1>1. CASE ClaimEvent(c) \/ CreateExecution(c) \/ StartRun(c) \/ ClaimOperation(c)
  BY <1>1, <1>a DEF ClaimEvent, CreateExecution, StartRun, ClaimOperation, Goes, Says, Is, Key, CallRows
<1>2. ASSUME EndRun(c) \/ OperatorCreates(c) \/ OperatorRuns(c)
      PROVE  /\ \A o \in Calls \ {c} : call'[o] = call[o]
             /\ call'[c].how = call[c].how /\ call'[c].key = call[c].key
             /\ call[c].at \notin {"idle", "over", "lost"} /\ Key(c) \in CallKeys
             /\ \A k \in CallKeys \ {Key(c)} : keyed'[k] = keyed[k] /\ starts'[k] = starts[k]
             /\ UNCHANGED triggerKind
  BY <1>2, <1>a DEF EndRun, OperatorCreates, OperatorRuns, RunAndRecord, Goes, Says, Is, Key, CallRows
<1>3. CASE LoseCall(c)
  BY <1>3, <1>a DEF LoseCall, Key, CallRows
<1>. QED  BY <1>1, <1>2, <1>3 DEF CallStep

(* A webhook's event is started by the request that inserted its row. *)
LEMMA EventStep == CallsTyped /\ EventInv /\ [InvocationNext]_invocationVars => EventInv'
<1>. SUFFICES ASSUME CallsTyped, EventInv, [InvocationNext]_invocationVars, triggerKind' = "webhook" PROVE EventInv'
  BY DEF EventInv
<1>a. keyed \in [CallKeys -> KeyStates] /\ starts \in [CallKeys -> Nat] /\ call \in [Calls -> CallRows]
      /\ \A c \in Calls : call[c].at # "idle" => call[c].key \in CallKeys
  BY DEF CallsTyped
<1>b. triggerKind = "webhook" /\ UNCHANGED triggerKind
  BY DEF InvocationNext, ReceiveWebhook, InvokeTrigger, TriggerAction, CallStep, ChangeTrigger, invocationVars, Deliver,
         Invoke, Operate, ClaimEvent, CreateExecution, StartRun, ClaimOperation, EndRun, OperatorCreates, OperatorRuns,
         LoseCall
<1>c. /\ \A c \in Calls : /\ call[c].how # "manual"
                          /\ call[c].at \in {"asked", "read", "running"} => call[c].how = "webhook"
                          /\ call[c].at = "claiming" => call[c].copy # "enabled"
      /\ \A k \in CallKeys :
           /\ starts[k] = 0 \/ (starts[k] = 1 /\ keyed[k] # "absent" /\ \A c \in Calls : ~Holding(c, k))
           /\ \A b, c \in Calls : Holding(b, k) /\ Holding(c, k) => b = c
           /\ \A c \in Calls : Holding(c, k) => keyed[k] # "absent"
  BY <1>b DEF EventInv
<1>1. ASSUME NEW c \in Calls, NEW k \in CallKeys, Deliver(c, k) \/ Operate(c, k) PROVE EventInv'
  <2>1. /\ \A o \in Calls \ {c} : call'[o] = call[o]
        /\ call'[c].how # "manual" /\ call'[c].at \in {"asked", "claiming"}
        /\ call'[c].at = "asked" => call'[c].how = "webhook"
        /\ call'[c].at = "claiming" => call'[c].copy # "enabled"
        /\ UNCHANGED <<keyed, starts>>
    BY <1>1, <1>a, <1>b DEF Deliver, Operate, Comes
  <2>. QED  BY <1>c, <2>1 DEF EventInv, Holding
<1>2. ASSUME NEW c \in Calls, Invoke(c, "none") \/ \E k \in CallKeys : Invoke(c, k) PROVE FALSE
  BY <1>2, <1>b DEF Invoke
<1>3. ASSUME NEW c \in Calls, CallStep(c) \/ LoseCall(c) PROVE EventInv'
  <2>. DEFINE k == Key(c)
  <2>0. /\ \A o \in Calls \ {c} : call'[o] = call[o]
        /\ call'[c].how = call[c].how /\ call'[c].key = call[c].key
        /\ call[c].at \notin {"idle", "over", "lost"} /\ k \in CallKeys
        /\ \A j \in CallKeys \ {k} : keyed'[j] = keyed[j] /\ starts'[j] = starts[j]
    BY <1>3, OneCallMoves
  <2>a. ASSUME call'[c].at \in {"over", "lost", "running"}, call[c].how = "webhook" \/ call'[c].at # "running",
               UNCHANGED <<keyed, starts>>
        PROVE  EventInv'
    BY <1>c, <2>0, <2>a DEF EventInv, Holding
  <2>1. CASE ClaimEvent(c)
    <3>1. \/ /\ keyed[k] = "absent" /\ keyed'[k] = "pending" /\ call'[c].at = "read" /\ call[c].how = "webhook"
             /\ UNCHANGED starts
          \/ UNCHANGED <<keyed, starts>> /\ call'[c].at = "over"
      BY <1>a, <2>0, <2>1 DEF ClaimEvent, Is, Goes, Says, CallRows
    <3>2. CASE keyed[k] = "absent" /\ keyed'[k] = "pending" /\ call'[c].at = "read" /\ call[c].how = "webhook"
               /\ UNCHANGED starts
      BY <1>c, <2>0, <3>2 DEF EventInv, Holding, Key
    <3>. QED  BY <2>a, <3>1, <3>2
  <2>2. CASE StartRun(c)
    <3>1. Holding(c, k)
      BY <1>c, <2>2 DEF StartRun, Is, Holding, Key
    <3>2. \/ /\ keyed'[k] = "running" /\ starts'[k] = starts[k] + 1 /\ call'[c].at = "running"
          \/ UNCHANGED <<keyed, starts>> /\ call'[c].at = "over"
      BY <1>a, <2>0, <2>2 DEF StartRun, Is, Goes, Says, CallRows
    <3>3. CASE keyed'[k] = "running" /\ starts'[k] = starts[k] + 1 /\ call'[c].at = "running"
      <4>a. starts[k] = 0
        BY <1>c, <2>0, <3>1
      <4>b. \A o \in Calls : Holding(o, k) => o = c
        BY <1>c, <2>0, <3>1
      <4>c. starts'[k] = 1
        BY <3>3, <4>a
      <4>d. \A o \in Calls : ~Holding(o, k)'
        <5>1. ~Holding(c, k)'
          BY <2>0, <3>3 DEF Holding, Key
        <5>2. \A o \in Calls \ {c} : Holding(o, k)' => Holding(o, k)
          BY <2>0 DEF Holding, Key
        <5>. QED  BY <4>b, <5>1, <5>2
      <4>1. starts[k] = 0 /\ starts'[k] = 1 /\ \A o \in Calls : ~Holding(o, k)'
        BY <4>a, <4>c, <4>d
      <4>. QED  BY <1>c, <2>0, <3>1, <3>3, <4>1 DEF EventInv, Holding
    <3>. QED  BY <2>a, <3>2, <3>3
  <2>3. ASSUME EndRun(c) PROVE EventInv'
    <3>1. keyed'[k] = "failed" /\ UNCHANGED starts /\ call'[c].at = "over"
      BY <1>a, <2>0, <2>3 DEF EndRun, Says, CallRows
    <3>. QED  BY <1>c, <2>0, <2>3, <3>1 DEF EventInv, Holding
  <2>4. CASE ClaimOperation(c)
    <3>1. call'[c].at = "over"
      BY <1>a, <1>c, <2>4 DEF ClaimOperation, Is, Says, CallRows
    <3>. QED  BY <2>a, <2>4, <3>1 DEF ClaimOperation
  <2>5. CASE LoseCall(c)
    BY <1>a, <2>a, <2>5 DEF LoseCall, CallRows
  <2>6. ASSUME CreateExecution(c) \/ OperatorCreates(c) \/ OperatorRuns(c) PROVE FALSE
    BY <1>c, <2>6 DEF CreateExecution, OperatorCreates, OperatorRuns, Is
  <2>. QED  BY <1>3, <2>1, <2>2, <2>3, <2>4, <2>5, <2>6 DEF CallStep
<1>4. CASE UNCHANGED <<keyed, starts, call>>
  BY <1>4, <1>c DEF EventInv, Holding
<1>. QED  BY <1>1, <1>2, <1>3, <1>4
          DEF InvocationNext, ReceiveWebhook, InvokeTrigger, TriggerAction, ChangeTrigger, invocationVars

(* A redelivered event, however it overlaps the first, does not start its  *)
(* execution again (the insert that waits and the commit of                *)
(* services/trigger/webhook.py).                                           *)
THEOREM EventsNeverRunTwice == InvocationSpec => []EventsRunOnce
<1>1. InvocationInit => EventInv
  <2>. SUFFICES ASSUME InvocationInit PROVE EventInv
    OBVIOUS
  <2>1. \A c \in Calls : call[c] = NoCall /\ call[c].how = "none" /\ call[c].at = "idle"
    BY DEF InvocationInit, NoCall
  <2>2. \A k \in CallKeys : starts[k] = 0
    BY DEF InvocationInit
  <2>3. \A c \in Calls, k \in CallKeys : ~Holding(c, k)
    BY <2>1 DEF Holding
  <2>4. \A c \in Calls : /\ call[c].how # "manual"
                         /\ call[c].at \in {"asked", "read", "running"} => call[c].how = "webhook"
                         /\ call[c].at = "claiming" => call[c].copy # "enabled"
    BY <2>1
  <2>5. \A k \in CallKeys :
          /\ starts[k] = 0 \/ (starts[k] = 1 /\ keyed[k] # "absent" /\ \A c \in Calls : ~Holding(c, k))
          /\ \A b, c \in Calls : Holding(b, k) /\ Holding(c, k) => b = c
          /\ \A c \in Calls : Holding(c, k) => keyed[k] # "absent"
    BY <2>2, <2>3
  <2>. QED  BY <2>4, <2>5 DEF EventInv
<1>2. CallsTyped /\ EventInv => EventsRunOnce
  BY DEF CallsTyped, EventInv, EventsRunOnce
<1>. QED  BY <1>1, <1>2, CallsTypedInit, CallsKeepType, EventStep, PTL DEF InvocationSpec

-----------------------------------------------------------------------------
(* Answers. *)

Raced(c) == \E o \in Calls \ {c} : call[o].key = call[c].key /\ call[o].copy = "pending"

\* A request that was told "failed" has ended, and the row of its key says
\* so unless another request read it as pending.  Such a copy is kept.
ToldInv ==
    \A c \in Calls :
        /\ call[c].said = "failed" =>
              /\ call[c].at = "over" /\ keyed[call[c].key] # "absent"
              /\ keyed[call[c].key] = "failed" \/ Raced(c)
        /\ call[c].at = "running" => call[c].copy = "pending"
        /\ call[c].copy = "pending" => call[c].at \in {"read", "running", "over", "lost"}

(* Only who holds a pending copy writes to an execution that is there. *)
LEMMA KeyMoves ==
    ASSUME CallsTyped, ToldInv, NEW c \in Calls, CallStep(c) \/ LoseCall(c)
    PROVE  LET k == Key(c) IN
           /\ call[c].copy = "pending" => call'[c].copy = "pending"
           /\ \/ UNCHANGED keyed /\ call'[c].said = call[c].said
              \/ UNCHANGED keyed /\ call'[c].said \in {"existing", "error"}
              \/ keyed[k] = "absent" /\ keyed'[k] = "pending" /\ call'[c].said = call[c].said
              \/ /\ keyed[k] = "absent" \/ call[c].copy = "pending"
                 /\ keyed'[k] # "absent"
                 /\ call'[c].said = "failed" => keyed'[k] = "failed" /\ call'[c].at = "over"
           /\ call'[c].at = "running" => call'[c].copy = "pending"
           /\ call'[c].copy = "pending" => call'[c].at \in {"read", "running", "over", "lost"}
           /\ call[c].said # "failed"
<1>a. /\ keyed \in [CallKeys -> KeyStates] /\ call \in [Calls -> CallRows]
      /\ call[c].at \notin {"idle", "over", "lost"} /\ Key(c) \in CallKeys /\ call[c].said # "failed"
      /\ call[c].at = "running" => call[c].copy = "pending"
      /\ call[c].copy = "pending" => call[c].at \in {"read", "running", "over", "lost"}
  BY OneCallMoves DEF CallsTyped, ToldInv
<1>1. CASE ClaimEvent(c)
  BY <1>1, <1>a DEF ClaimEvent, Is, Goes, Says, CallRows
<1>2. CASE CreateExecution(c)
  BY <1>2, <1>a DEF CreateExecution, Is, Goes, Says, CallRows
<1>3. CASE StartRun(c)
  BY <1>3, <1>a DEF StartRun, Is, Goes, Says, CallRows
<1>4. CASE ClaimOperation(c)
  BY <1>4, <1>a DEF ClaimOperation, Is, Goes, Says, CallRows
<1>5. ASSUME EndRun(c)
      PROVE  /\ call'[c].copy = call[c].copy /\ call'[c].at = "over" /\ keyed'[Key(c)] = "failed"
  BY <1>5, <1>a DEF EndRun, Says, CallRows
<1>6. ASSUME RunAndRecord(c)
      PROVE  /\ call'[c].copy = call[c].copy /\ call'[c].at = "over" /\ keyed'[Key(c)] = "failed"
  BY <1>6, <1>a DEF RunAndRecord, Says, CallRows
<1>7. ASSUME OperatorCreates(c)
      PROVE  \/ keyed[Key(c)] = "absent" /\ RunAndRecord(c)
             \/ /\ call[c].at = "asked" /\ UNCHANGED keyed /\ call'[c].at = "read"
                /\ call'[c].said = call[c].said
  BY <1>7, <1>a DEF OperatorCreates, Is, Goes, CallRows
<1>8. ASSUME OperatorRuns(c)
      PROVE  \/ call[c].copy = "pending" /\ RunAndRecord(c)
             \/ UNCHANGED keyed /\ call'[c].at = "over" /\ call'[c].said = "error" /\ call'[c].copy = call[c].copy
  BY <1>8, <1>a DEF OperatorRuns, Is, Says, CallRows
<1>11. CASE LoseCall(c)
  BY <1>11, <1>a DEF LoseCall, CallRows
<1>12. ASSUME EndRun(c) PROVE call[c].at = "running"
  BY <1>12 DEF EndRun
<1>. QED  BY <1>a, <1>1, <1>2, <1>3, <1>4, <1>5, <1>6, <1>7, <1>8, <1>11, <1>12 DEF CallStep

(* Every step keeps the answers in line with the rows. *)
LEMMA ToldStep == CallsTyped /\ ToldInv /\ [InvocationNext]_invocationVars => ToldInv'
<1>. SUFFICES ASSUME CallsTyped, ToldInv, [InvocationNext]_invocationVars PROVE ToldInv'
  OBVIOUS
<1>a. /\ keyed \in [CallKeys -> KeyStates] /\ call \in [Calls -> CallRows]
      /\ \A c \in Calls : call[c].at # "idle" => call[c].key \in CallKeys
  BY DEF CallsTyped
<1>1. ASSUME NEW c \in Calls, NEW k \in CallKeys, Deliver(c, k) \/ Invoke(c, k) \/ Operate(c, k) PROVE ToldInv'
  <2>1. /\ \A o \in Calls \ {c} : call'[o] = call[o]
        /\ call[c].said = "none" /\ call[c].copy = "none" /\ call'[c].said # "failed"
        /\ call'[c].copy # "pending" /\ call'[c].at # "running" /\ UNCHANGED keyed
    BY <1>1, <1>a DEF Deliver, Invoke, Operate, Comes, NoCall, CallsTyped, TriggerStates
  <2>2. \A o \in Calls \ {c} : Raced(o) => Raced(o)'
    BY <2>1 DEF Raced
  <2>. QED  BY <2>1, <2>2 DEF ToldInv
<1>2. ASSUME NEW c \in Calls, CallStep(c) \/ LoseCall(c) PROVE ToldInv'
  <2>. DEFINE k == Key(c)
  <2>0. /\ \A o \in Calls \ {c} : call'[o] = call[o]
        /\ call'[c].key = call[c].key /\ k = call[c].key /\ k \in CallKeys
        /\ \A j \in CallKeys \ {k} : keyed'[j] = keyed[j]
    BY <1>2, OneCallMoves DEF Key
  <2>1. /\ call[c].copy = "pending" => call'[c].copy = "pending"
        /\ \/ UNCHANGED keyed /\ call'[c].said = call[c].said
           \/ UNCHANGED keyed /\ call'[c].said \in {"existing", "error"}
           \/ keyed[k] = "absent" /\ keyed'[k] = "pending" /\ call'[c].said = call[c].said
           \/ /\ keyed[k] = "absent" \/ call[c].copy = "pending"
              /\ keyed'[k] # "absent"
              /\ call'[c].said = "failed" => keyed'[k] = "failed" /\ call'[c].at = "over"
        /\ call'[c].at = "running" => call'[c].copy = "pending"
        /\ call'[c].copy = "pending" => call'[c].at \in {"read", "running", "over", "lost"}
        /\ call[c].said # "failed"
    BY <1>2, KeyMoves
  <2>. HIDE DEF k
  <2>2. \A o \in Calls : Raced(o) => Raced(o)'
    BY <2>0, <2>1 DEF Raced
  <2>3. ASSUME NEW o \in Calls \ {c}, call[o].said = "failed"
        PROVE  /\ call'[o].at = "over" /\ keyed'[call'[o].key] # "absent"
               /\ keyed'[call'[o].key] = "failed" \/ Raced(o)'
    <3>1. call[o].at = "over" /\ call[o].key \in CallKeys /\ call'[o] = call[o] /\ keyed[call[o].key] # "absent"
          /\ (keyed[call[o].key] = "failed" \/ Raced(o))
      BY <1>a, <2>0, <2>3 DEF ToldInv
    <3>2. CASE keyed'[call[o].key] = keyed[call[o].key]
      BY <2>2, <3>1, <3>2
    <3>3. CASE keyed'[call[o].key] # keyed[call[o].key]
      <4>1. call[o].key = k /\ call[c].copy = "pending" /\ keyed'[k] # "absent"
        BY <2>0, <2>1, <3>1, <3>3
      <4>2. Raced(o)'
        BY <2>0, <2>1, <3>1, <4>1 DEF Raced
      <4>. QED  BY <3>1, <4>1, <4>2
    <3>. QED  BY <3>2, <3>3
  <2>4. call'[c].said = "failed" => /\ call'[c].at = "over" /\ keyed'[call'[c].key] # "absent"
                                       /\ keyed'[call'[c].key] = "failed"
    BY <2>0, <2>1
  <2>. QED  BY <2>0, <2>1, <2>3, <2>4 DEF ToldInv
<1>3. CASE UNCHANGED <<keyed, call>>
  BY <1>3 DEF ToldInv, Raced
<1>. QED  BY <1>1, <1>2, <1>3
          DEF InvocationNext, ReceiveWebhook, InvokeTrigger, TriggerAction, ChangeTrigger, invocationVars

(* Who was told that the run of an execution failed finds it failed for    *)
(* ever, unless a request that lost the insert opens it again (create and  *)
(* transition of services/workflow/execution.py).                          *)
THEOREM FailedAnswersStand == InvocationSpec => []AnswersStand
<1>1. InvocationInit => ToldInv
  <2>1. InvocationInit => \A c \in Calls : call[c].said = "none" /\ call[c].at = "idle" /\ call[c].copy = "none"
    <3>1. \A c \in Calls : [b \in Calls |-> NoCall][c] = NoCall
      OBVIOUS
    <3>2. NoCall.said = "none" /\ NoCall.at = "idle" /\ NoCall.copy = "none"
      BY DEF NoCall
    <3>. QED  BY <3>1, <3>2 DEF InvocationInit
  <2>. QED  BY <2>1 DEF ToldInv
<1>2. ToldInv => AnswersStand
  BY DEF ToldInv, AnswersStand, Raced, Key
<1>. QED  BY <1>1, <1>2, CallsTypedInit, CallsKeepType, ToldStep, PTL DEF InvocationSpec

-----------------------------------------------------------------------------
(* Model profiles and calls. *)

ProfileRows == [kind : Kinds \cup {"absent"}, default : BOOLEAN]

\* A management request clears what it read.
ManagersInv ==
    /\ profile \in [Profiles -> ProfileRows] /\ DOMAIN manager = Managers
    /\ \A r \in Managers : manager[r].op = "default" => manager[r].cleared = manager[r].copy.others

(* Every step leaves a request what it read. *)
LEMMA ManagersStep == ManagersInv /\ [ModelNext]_modelVars => ManagersInv'
<1>. SUFFICES ASSUME ManagersInv, [ModelNext]_modelVars PROVE ManagersInv'
  OBVIOUS
<1>. USE DEF ManagersInv
<1>a. NoProfile \in ProfileRows /\ DefaultProfile \in ProfileRows
  BY DEF NoProfile, DefaultProfile, ProfileRows, Kinds
<1>1. ASSUME NEW r \in Managers, NEW x \in Profiles, ReadDefaults(r, x) PROVE ManagersInv'
  BY <1>1 DEF ReadDefaults, ClearDefault
<1>2. ASSUME NEW r \in Managers, MakeDefault(r) PROVE ManagersInv'
  <2>1. \A x \in Profiles, b \in BOOLEAN : [profile[x] EXCEPT !.default = b] \in ProfileRows
    BY DEF ProfileRows
  <2>2. profile' \in [Profiles -> ProfileRows]
    BY <1>2, <1>a, <2>1 DEF MakeDefault
  <2>. QED  BY <1>2, <2>2 DEF MakeDefault, NoRequest
<1>3. ASSUME NEW r \in Managers, DeleteProvider(r) PROVE ManagersInv'
  BY <1>3, <1>a DEF DeleteProvider, NoRequest
<1>4. ASSUME NEW r \in Managers, NEW p, CountProfiles(r, p) PROVE ManagersInv'
  BY <1>4 DEF CountProfiles
<1>5. ASSUME NEW x \in Profiles, NEW kind \in Kinds, NEW keep \in BOOLEAN,
             WriteProfile(x, kind, keep)
      PROVE  ManagersInv'
  <2>1. profile[x].default \in BOOLEAN
    BY DEF ProfileRows
  <2>2. [kind |-> kind, default |-> keep /\ profile[x].default] \in ProfileRows
    BY <2>1 DEF ProfileRows
  <2>. QED  BY <1>5, <2>2 DEF WriteProfile
<1>6. ASSUME NEW x \in Profiles, DeleteProfile(x) PROVE ManagersInv'
  BY <1>6, <1>a DEF DeleteProfile
<1>7. CASE UNCHANGED <<profile, manager>>
  BY <1>7
<1>. QED  BY <1>1, <1>2, <1>3, <1>4, <1>5, <1>6, <1>7
          DEF ModelNext, ManagerRequests, Resolve, Generate, AccountAttempt, NodeTimesOut, NodeEnds, modelVars

(* A second default of a provider is the work of a request that read the   *)
(* defaults before another wrote one (_clear_default of                    *)
(* services/model/provider.py takes no lock).                              *)
THEOREM SecondDefaultsNeedARace == ModelSpec => SecondDefaultsAreRaces
<1>1. ModelInit => ManagersInv
  BY DEF ModelInit, ManagersInv, NoRequest, NoProfile, DefaultProfile, ProfileRows, Kinds
<1>2. ManagersInv /\ [ModelNext]_modelVars =>
        [\A x \in Profiles : \A y \in Siblings(x) :
            (~(profile[x].default /\ profile[y].default) /\ profile'[x].default /\ profile'[y].default)
               => \E r \in Managers : /\ manager[r].op = "default" /\ manager[r].profile \in {x, y}
                                      /\ manager[r].copy.others # Defaults(Siblings(manager[r].profile))]_modelVars
  <2>. SUFFICES ASSUME ManagersInv, ModelNext, NEW x \in Profiles, NEW y \in Siblings(x),
                       ~(profile[x].default /\ profile[y].default), profile'[x].default, profile'[y].default
                PROVE  \E r \in Managers : /\ manager[r].op = "default" /\ manager[r].profile \in {x, y}
                                           /\ manager[r].copy.others # Defaults(Siblings(manager[r].profile))
    OBVIOUS
  <2>a. DOMAIN profile = Profiles /\ y \in Profiles /\ y # x /\ x \in Siblings(y)
    BY DEF ManagersInv, Siblings
  <2>b. PICK z \in {x, y} : ~profile[z].default /\ profile'[z].default /\ z \in Profiles
    BY <2>a
  <2>1. PICK r \in Managers : MakeDefault(r)
    <3>1. ASSUME NEW u \in Profiles, NEW kind, NEW keep \in BOOLEAN, WriteProfile(u, kind, keep) PROVE FALSE
      <4>1. profile'[z] = IF z = u THEN [kind |-> kind, default |-> keep /\ profile[u].default] ELSE profile[z]
        BY <2>a, <2>b, <3>1 DEF WriteProfile
      <4>2. CASE z = u
        <5>1. profile'[z].default = (keep /\ profile[z].default)
          BY <4>1, <4>2
        <5>. QED  BY <2>b, <5>1
      <4>3. CASE z # u
        BY <2>b, <4>1, <4>3
      <4>. QED  BY <4>2, <4>3
    <3>2. ASSUME NEW u \in Profiles, DeleteProfile(u) PROVE FALSE
      BY <2>a, <2>b, <3>2 DEF DeleteProfile, NoProfile
    <3>3. ASSUME NEW q \in Managers, DeleteProvider(q) PROVE FALSE
      BY <2>a, <2>b, <3>3 DEF DeleteProvider, NoProfile
    <3>4. CASE UNCHANGED profile
      BY <2>b, <3>4
    <3>. QED  BY <3>1, <3>2, <3>3, <3>4
              DEF ModelNext, ManagerRequests, ReadDefaults, CountProfiles, Resolve, Generate, AccountAttempt,
                  NodeTimesOut, NodeEnds
  <2>. DEFINE m == manager[r]
  <2>2. m.op = "default" /\ m.cleared = m.copy.others
    BY <2>1 DEF MakeDefault, ManagersInv
  <2>3. \A u \in Profiles :
           /\ u \in m.cleared => profile'[u] = profile[u] \/ ~profile'[u].default
           /\ u # m.profile => profile'[u] = profile[u] \/ ~profile'[u].default
    BY <2>1, <2>a DEF MakeDefault
  <2>4. z = m.profile
    BY <2>3, <2>b
  <2>5. PICK w \in {x, y} : w # z /\ w \in Profiles /\ w \in Siblings(z) /\ profile'[w].default
    BY <2>a
  <2>6. profile[w].default
    BY <2>3, <2>4, <2>5
  <2>7. w \notin m.cleared
    <3>1. w \in m.cleared => profile'[w] = [profile[w] EXCEPT !.default = FALSE]
      BY <2>1, <2>b, <2>5 DEF MakeDefault
    <3>2. ~[profile[w] EXCEPT !.default = FALSE].default
      BY <2>5 DEF ManagersInv, ProfileRows
    <3>. QED  BY <2>5, <3>1, <3>2
  <2>. QED  BY <2>2, <2>4, <2>5, <2>6, <2>7 DEF Defaults
<1>. QED  BY <1>1, <1>2, ManagersStep, PTL DEF ModelSpec, SecondDefaultsAreRaces

\* A usage row tells what its call did, and an answer that goes on is accounted.
BillsInv ==
    /\ calls \in Seq(CallOutcomes)
    /\ \A u \in usage : u[1] \in DOMAIN calls /\ calls[u[1]] = u[2]
    /\ modelCall.step = "account" => Len(calls) >= 1
    /\ modelCall.step = "answered" \/ node = "completed" => <<Len(calls), "answer">> \in usage
    /\ node = "completed" => modelCall.step = "none"
    /\ modelCall.step # "none" => node = "running"

(* Every step keeps the bills. *)
LEMMA BillsStep == BillsInv /\ [ModelNext]_modelVars => BillsInv'
<1>. SUFFICES ASSUME BillsInv, [ModelNext]_modelVars PROVE BillsInv'
  OBVIOUS
<1>. USE DEF BillsInv
<1>1. ASSUME NEW asked, Resolve(asked) PROVE BillsInv'
  BY <1>1 DEF Resolve
<1>2. ASSUME NEW outcome \in CallOutcomes, Generate(outcome) PROVE BillsInv'
  <2>1. /\ calls' \in Seq(CallOutcomes) /\ Len(calls') = Len(calls) + 1 /\ Len(calls) \in Nat
        /\ \A i \in DOMAIN calls : i \in DOMAIN calls' /\ calls'[i] = calls[i]
    BY <1>2 DEF Generate
  <2>2. modelCall'.step = "account" /\ UNCHANGED <<usage, node>> /\ node = "running"
    BY <1>2 DEF Generate
  <2>. QED  BY <2>1, <2>2
<1>3. CASE AccountAttempt
  <2>. DEFINE n == Len(calls)
  <2>1. n \in DOMAIN calls /\ node = "running" /\ UNCHANGED <<node, calls>>
    BY <1>3 DEF AccountAttempt
  <2>2. usage' = IF Accountable THEN usage \cup {<<n, calls[n]>>} ELSE usage
    BY <1>3 DEF AccountAttempt
  <2>3. modelCall'.step = IF Accountable THEN AfterAttempt(calls[n]) ELSE "failed"
    BY <1>3 DEF AccountAttempt
  <2>4. AfterAttempt(calls[n]) \in {"answered", "call", "failed"}
        /\ (AfterAttempt(calls[n]) = "answered" => calls[n] = "answer")
    BY DEF AfterAttempt
  <2>. QED  BY <2>1, <2>2, <2>3, <2>4
<1>4. CASE NodeTimesOut
  BY <1>4 DEF NodeTimesOut
<1>5. ASSUME NEW status \in {"completed", "failed", "lost"}, NodeEnds(status) PROVE BillsInv'
  BY <1>5 DEF NodeEnds, NotCalling
<1>6. CASE ManagerRequests \/ UNCHANGED modelVars
  <2>1. UNCHANGED <<calls, usage, modelCall, node>>
    BY <1>6 DEF ManagerRequests, WriteProfile, DeleteProfile, ReadDefaults, MakeDefault, DeleteProvider, CountProfiles,
                modelVars
  <2>. QED  BY <2>1
<1>. QED  BY <1>1, <1>2, <1>3, <1>4, <1>5, <1>6 DEF ModelNext

(* No usage row is invented and no accepted answer goes unbilled, whatever *)
(* managers do to the profiles meanwhile (on_attempt of the node's model   *)
(* call and usage_accounting/service.py).                                  *)
THEOREM AcceptedAnswersAreBilled == ModelSpec => []AnswersAreBilled
<1>1. ModelInit => BillsInv
  BY DEF ModelInit, BillsInv, NotCalling
<1>2. BillsInv => AnswersAreBilled
  BY DEF BillsInv, AnswersAreBilled
<1>. QED  BY <1>1, <1>2, BillsStep, PTL DEF ModelSpec
===============================================================================
