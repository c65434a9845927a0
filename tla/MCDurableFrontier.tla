-------------------------- MODULE MCDurableFrontier --------------------------
(* Instances of DurableFrontier for model checking. *)
EXTENDS DurableFrontier, TLC

CONSTANTS s1, s2, w1, w2, n1, n2

MCSlots == {s1, s2}
MCOwners == {w1, w2}

\* Two tasks in two worker processes, or two tasks of one process.
TwoWorkers == (s1 :> w1) @@ (s2 :> w2)
OneWorker == (s1 :> w1) @@ (s2 :> w1)

\* A scheduled trigger names every node in the first frontier.  Of a graph it
\* runs the root alone and the frontiers after it run a node each; of a linear
\* definition it runs all of them.
ScheduledGraph == <<{n1, n2}, {n2}>>
ScheduledLinear == <<{n1, n2}>>
OneBatch == {1}

\* Which faults a run injects, each at most that often.
NoFaults == [k \in FaultKinds |-> 0]
Lossy == [NoFaults EXCEPT !["crash"] = 1, !["mute"] = 1, !["node"] = 1]
LossyProbe == [Lossy EXCEPT !["probe"] = 1]
OperatorOnly == [NoFaults EXCEPT !["cancel"] = 1]
OperatorAndLoss == [OperatorOnly EXCEPT !["crash"] = 1, !["node"] = 1, !["probe"] = 1]
=============================================================================
