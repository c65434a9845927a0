--------------------------- MODULE MCResumeLineage ---------------------------
(* Three-node definitions: linear, a choice one of whose branches skips a    *)
(* node in front of a join (the other branch is a chain), and a fork.        *)
EXTENDS OperatorActions

CONSTANTS a, b, c

Ranks == [n \in {a, b, c} |-> CASE n = a -> 1 [] n = b -> 2 [] OTHER -> 3]

Def(edges) == [nodes |-> {a, b, c}, rank |-> Ranks, edges |-> edges]

E(from, to, mode) == [from |-> from, to |-> to, mode |-> mode]

MCDefinitions ==
  {Def({}),
   Def({E(a, b, "when"), E(a, c, "default"), E(b, c, "always")}),
   Def({E(a, b, "always"), E(a, c, "always")})}
=============================================================================
