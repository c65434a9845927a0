-------------------------- MODULE WorkflowProgress --------------------------
(***************************************************************************)
(* What a durable workflow execution promises its caller, without workers, *)
(* leases, retries or recovery: its frontiers take effect one after        *)
(* another, each exactly once, until the last one completes the execution  *)
(* or some failure ends it.                                                *)
(***************************************************************************)
EXTENDS Naturals

CONSTANT Steps   \* how many frontiers the execution has, at least one

VARIABLES done,     \* frontiers whose effects are durable
          outcome   \* "open" until the execution is decided

Init == done = 0 /\ outcome = "open"

\* A frontier that is not the last takes effect.
Advance ==
    /\ outcome = "open"
    /\ done + 1 < Steps
    /\ done' = done + 1
    /\ UNCHANGED outcome

\* The last frontier takes effect and completes the execution in the same step.
Complete ==
    /\ outcome = "open"
    /\ done + 1 = Steps
    /\ done' = Steps
    /\ outcome' = "completed"

Fail ==
    /\ outcome = "open"
    /\ outcome' = "failed"
    /\ UNCHANGED done

Next == Advance \/ Complete \/ Fail

Spec == Init /\ [][Next]_<<done, outcome>>
=============================================================================
