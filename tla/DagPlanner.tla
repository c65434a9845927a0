----------------------------- MODULE DagPlanner -----------------------------
(***************************************************************************)
(* What a workflow definition lets run next: the structural contract of a  *)
(* DAG definition (checkpoint/recovery/dag_contract.py), the planner that  *)
(* computes the frontier of nodes from the completed ones                  *)
(* (dag_planner.py), and the linear order used by definitions without      *)
(* edges (durable_frontier_execution.py, resume_bootstrap.py).             *)
(*                                                                         *)
(* The output of a node is abstracted to the edges its conditions select   *)
(* (condition.py): "taken" is the set of edges selected so far.            *)
(***************************************************************************)
EXTENDS Naturals, FiniteSets

CONSTANT Node                  \* node ids

Modes == {"always", "when", "default"}

Edge == [from: Node, to: Node, mode: Modes]

\* A definition: its nodes, the order they are written in, and its edges. A
\* definition without edges is linear.
Definition ==
  {d \in [nodes: SUBSET Node, rank: [Node -> Nat], edges: SUBSET Edge] :
     d.nodes # {} /\ \A m, n \in d.nodes : d.rank[m] = d.rank[n] => m = n}

Linear(d) == d.edges = {}

OutOf(d, n) == {x \in d.edges : x.from = n}

Predecessors(d, n) == {x.from : x \in {y \in d.edges : y.to = n}}

Conditional(edges) == \E x \in edges : x.mode # "always"

\* WorkflowDagContractValidator.validate. Kahn's algorithm visits every node
\* exactly when each set of nodes has one without a predecessor inside it.
Acyclic(d) ==
  \A S \in SUBSET d.nodes : S # {} => \E n \in S : Predecessors(d, n) \cap S = {}

ValidContract(d) ==
  /\ d.edges # {}
  /\ \A x \in d.edges : x.from \in d.nodes /\ x.to \in d.nodes /\ x.from # x.to
  /\ \A x, y \in d.edges : x.from = y.from =>
       /\ x.to = y.to => x = y
       /\ x.mode = "always" <=> y.mode = "always"
       /\ x.mode = "default" /\ y.mode = "default" => x = y
  /\ \A n \in d.nodes : \E x \in d.edges : n \in {x.from, x.to}
  /\ Acyclic(d)

\* validate_definition: the contract binds the definitions that have edges.
Valid(d) == Linear(d) \/ ValidContract(d)

\* The conditions (expressions over the output of the node) that may hold
\* together: any of them, but at least one.
Matches(edges) == (SUBSET {x \in edges : x.mode = "when"}) \ {{}}

\* The edges a completed node may select: all of them when they are
\* unconditional, the matched ones when some condition holds, otherwise the
\* default edge.
Choices(d, n) ==
  LET out == OutOf(d, n)
  IN IF Conditional(out) THEN Matches(out) \union {{x \in out : x.mode = "default"}}
                         ELSE {out}

ActivePredecessors(taken, n) == {x.from : x \in {y \in taken : y.to = n}}

\* A completed node with a predecessor that is not: plan() raises.
InvalidCompleted(d, done) == {n \in done : ~ Predecessors(d, n) \subseteq done}

PlanFails(d, done) == InvalidCompleted(d, done) # {}

\* One conditional edge anywhere in the definition changes what every join
\* waits for: from all of its predecessors to any selected one.
Ready(d, done, taken, n) ==
  \/ Predecessors(d, n) = {}
  \/ ~ Conditional(d.edges) /\ Predecessors(d, n) \subseteq done
  \/ Conditional(d.edges) /\ ActivePredecessors(taken, n) # {}

PlanFrontier(d, done, taken) == {n \in d.nodes \ done : Ready(d, done, taken, n)}

\* The first node of a linear definition that is not completed.
NextLinear(d, done) ==
  {n \in d.nodes \ done : \A m \in d.nodes \ done : d.rank[n] <= d.rank[m]}

Frontier(d, done, taken) ==
  IF Linear(d) THEN NextLinear(d, done) ELSE PlanFrontier(d, done, taken)

\* Whether the frontier of these facts can be planned at all.
Plannable(d, done) == Linear(d) \/ ~ PlanFails(d, done)
=============================================================================
