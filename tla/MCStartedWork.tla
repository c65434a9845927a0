---------------------------- MODULE MCStartedWork ----------------------------
(* Who starts an execution besides a schedule: an agent's delegation, or      *)
(* requests for one trigger; and what a node of it calls: a model, through    *)
(* its organization's profiles. They share no row: one of them moves in a     *)
(* behaviour, and its steps alone are fair.                                   *)
EXTENDS AgentDelegation, TriggerInvocation, ModelGovernance

CONSTANTS d1, d2, w1, w2

TwoWorkers == {w1, w2}

\* Profiles 1 and 2 belong to provider "p", 3 to "q".
MCProviderOf == [x \in Profiles |-> IF x = 3 THEN "q" ELSE "p"]

VARIABLE scene

startedVars == <<vars, invocationVars, modelVars, scene>>

MCInit ==
    /\ Init /\ InvocationInit /\ ModelInit
    /\ scene \in {"delegation", "requests", "model"}
    /\ scene # "requests" => triggerKind = "manual"
    /\ scene # "model" => \A x \in Profiles : ~ProfileExists(x)

\* Bound: faults of one behaviour.
MaxFaults == 3

Delegates(A) ==
    /\ scene = "delegation" /\ A
    /\ Cardinality(faults') >= Cardinality(Faults) - MaxFaults
    /\ UNCHANGED <<invocationVars, modelVars, scene>>
Requested(A) == scene = "requests" /\ A /\ UNCHANGED <<vars, modelVars, scene>>
CallsModel(A) == scene = "model" /\ A /\ UNCHANGED <<vars, invocationVars, scene>>

MCNext == Delegates(Next) \/ Requested(InvocationNext) \/ CallsModel(ModelNext)

MCFairness ==
    /\ WF_startedVars(Delegates(Tick))
    /\ \A d \in Delegations : /\ WF_startedVars(Delegates(Recover(d)))
                              /\ WF_startedVars(Delegates(Cancel(d)))
    /\ \A w \in Workers :
          /\ WF_startedVars(Delegates(WorkerStep(w)))
          /\ WF_startedVars(Delegates(\E d \in Delegations : ClaimFrontier(w, d)))
    /\ \A i \in Calls : WF_startedVars(Requested(CallStep(i)))

MCSpec == MCInit /\ [][MCNext]_startedVars /\ MCFairness
=============================================================================
