-------------------------- MODULE TopologicalOrder --------------------------
(***************************************************************************)
(* What an analysis of dependencies promises: nodes are placed one after   *)
(* another, each after everything it depends on, and none if an edge names *)
(* what is no node.                                                        *)
(***************************************************************************)
EXTENDS Naturals, Sequences

CONSTANTS
  Nodes,     \* the nodes to order
  Names,     \* what an edge may lead from and to
  EdgeIds    \* the positions of the list of edges

VARIABLES
  edges,     \* edges[e]: an edge, as <<from, to>>
  order      \* the nodes placed so far

Placed == {order[i] : i \in DOMAIN order}

Before(m) == {edges[e][1] : e \in {x \in EdgeIds : edges[x][2] = m}}

Init == edges \in [EdgeIds -> Names \X Names] /\ order = <<>>

Place(n) ==
  /\ n \in Nodes \ Placed
  /\ \A e \in EdgeIds : edges[e] \in Nodes \X Nodes
  /\ Before(n) \subseteq Placed
  /\ order' = Append(order, n)
  /\ UNCHANGED edges

Next == \E n \in Nodes : Place(n)

Spec == Init /\ [][Next]_<<edges, order>>
=============================================================================
