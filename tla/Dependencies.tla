---------------------------- MODULE Dependencies ----------------------------
(***************************************************************************)
(* Engine 72 (packages/workflow-intelligence): analyze orders the nodes of *)
(* a dependency graph by Kahn's algorithm, refuses a circular one, and     *)
(* then searches breadth first for what lies downstream of each node.  The *)
(* list of edges may repeat an edge, and may name what is no node.  Nodes  *)
(* are numbers, in the order in which sort() puts their names, and the     *)
(* list of nodes holds none of them twice.                                 *)
(***************************************************************************)
EXTENDS Naturals, FiniteSets, Sequences

CONSTANTS
  Nodes,     \* the nodes of the workflow
  Names,     \* what an edge may lead from and to
  EdgeIds    \* the positions of the list of edges

ASSUME NodesAssumption == Nodes \subseteq Nat \cap Names /\ IsFiniteSet(Nodes)
ASSUME EdgesAssumption == IsFiniteSet(EdgeIds)

VARIABLES
  edges,      \* edges[e]: an edge, as <<from, to>>
  indegree,   \* indegree[n]: the edges to n from nodes not ordered yet
  queue,      \* the nodes that wait for nothing; the least is shifted first
  order,      \* the topological order so far
  verdict,    \* what the sort returned
  start,      \* the nodes whose downstream is still to be found, least first
  pending,    \* what the search from Least(start) has still to visit
  seen,       \* what that search has found
  downstream  \* downstream[n]: what was found from n

search == <<start, pending, seen, downstream>>
vars == <<edges, indegree, queue, order, verdict, search>>

Known == \A e \in EdgeIds : edges[e] \in Nodes \X Nodes
Into(m) == {e \in EdgeIds : edges[e][2] = m}
Between(n, m) == {e \in EdgeIds : edges[e] = <<n, m>>}
Outgoing(n) == {m \in Nodes : Between(n, m) # {}}
Placed == {order[i] : i \in DOMAIN order}
Least(S) == CHOOSE x \in S : \A y \in S : x <= y

TypeOK ==
  /\ edges \in [EdgeIds -> Names \X Names]
  /\ indegree \in [Nodes -> Nat]
  /\ queue \subseteq Nodes
  /\ order \in Seq(Nodes)
  /\ verdict \in {"none", "ordered", "CIRCULAR_DEPENDENCY", "UNKNOWN_DEPENDENCY_NODE"}
  /\ start \subseteq Nodes
  /\ pending \subseteq Nodes
  /\ seen \subseteq Nodes
  /\ downstream \in [Nodes -> SUBSET Nodes]

Init ==
  /\ edges \in [EdgeIds -> Names \X Names]
  /\ indegree = [m \in Nodes |-> Cardinality(Into(m))]
  /\ queue = {m \in Nodes : indegree[m] = 0}
  /\ order = <<>>
  /\ verdict = "none"
  /\ start = Nodes
  /\ pending = {}
  /\ seen = {}
  /\ downstream = [n \in Nodes |-> {}]

(* An edge names what is no node: nothing is sorted.                       *)
Refuse ==
  /\ verdict = "none"
  /\ ~Known
  /\ verdict' = "UNKNOWN_DEPENDENCY_NODE"
  /\ UNCHANGED <<edges, indegree, queue, order, search>>

(* Queue a node at its first released edge, whatever else it waits for.    *)
ShiftEagerly ==
  /\ verdict = "none"
  /\ Known
  /\ \E n \in queue :
       /\ \A m \in queue : n <= m
       /\ order' = Append(order, n)
       /\ indegree' = [m \in Nodes |-> indegree[m] - Cardinality(Between(n, m))]
       /\ queue' = (queue \ {n}) \cup {m \in Outgoing(n) : m \notin Placed \cup {n}}
  /\ UNCHANGED <<edges, verdict, search>>

(* One round of the loop: the least node of the queue, with all its        *)
(* outgoing edges.                                                         *)
Shift ==
  /\ verdict = "none"
  /\ Known
  /\ \E n \in queue :
       /\ \A m \in queue : n <= m
       /\ order' = Append(order, n)
       /\ indegree' = [m \in Nodes |-> indegree[m] - Cardinality(Between(n, m))]
       /\ queue' = (queue \ {n}) \cup {m \in Outgoing(n) : indegree'[m] = 0}
  /\ UNCHANGED <<edges, verdict, search>>

ReturnComplete ==
  /\ verdict = "none"
  /\ Known
  /\ queue = {}
  /\ Len(order) = Cardinality(Nodes)
  /\ verdict' = "ordered"
  /\ pending' = IF Nodes = {} THEN {} ELSE Outgoing(Least(Nodes))
  /\ UNCHANGED <<edges, indegree, queue, order, start, seen, downstream>>

ReturnStarted ==
  /\ verdict = "none"
  /\ Known
  /\ queue = {}
  /\ IF order # <<>>
     THEN /\ verdict' = "ordered"
          /\ pending' = IF Nodes = {} THEN {} ELSE Outgoing(Least(Nodes))
     ELSE verdict' = "CIRCULAR_DEPENDENCY" /\ UNCHANGED pending
  /\ UNCHANGED <<edges, indegree, queue, order, start, seen, downstream>>

Return ==
  /\ verdict = "none"
  /\ Known
  /\ queue = {}
  /\ IF Len(order) = Cardinality(Nodes)
     THEN /\ verdict' = "ordered"
          /\ pending' = IF Nodes = {} THEN {} ELSE Outgoing(Least(Nodes))
     ELSE verdict' = "CIRCULAR_DEPENDENCY" /\ UNCHANGED pending
  /\ UNCHANGED <<edges, indegree, queue, order, start, seen, downstream>>

(* What is queued twice is skipped the second time, so the order of the    *)
(* queue does not matter, nor how often a node is in it.                   *)
VisitOneStep(m) ==
  /\ verdict = "ordered"
  /\ start # {}
  /\ m \in pending
  /\ pending' = pending \ {m}
  /\ seen' = seen \cup {m}
  /\ UNCHANGED <<edges, indegree, queue, order, verdict, start, downstream>>

Visit(m) ==
  /\ verdict = "ordered"
  /\ start # {}
  /\ m \in pending
  /\ pending' = (pending \ {m}) \cup (IF m \in seen THEN {} ELSE Outgoing(m))
  /\ seen' = seen \cup {m}
  /\ UNCHANGED <<edges, indegree, queue, order, verdict, start, downstream>>

Record ==
  /\ verdict = "ordered"
  /\ start # {}
  /\ pending = {}
  /\ LET n == Least(start)
         rest == start \ {n}
     IN /\ downstream' = [downstream EXCEPT ![n] = seen]
        /\ start' = rest
        /\ pending' = IF rest = {} THEN {} ELSE Outgoing(Least(rest))
  /\ seen' = {}
  /\ UNCHANGED <<edges, indegree, queue, order, verdict>>

Next == Refuse \/ Shift \/ Return \/ (\E m \in Nodes : Visit(m)) \/ Record

(* analyze is one synchronous call: it runs until it returns.              *)
Spec == Init /\ [][Next]_vars
FairSpec == Spec /\ WF_vars(Next)

----------------------------------------------------------------------------
(* The sort places a node after everything it depends on, whatever the     *)
(* order in which released nodes are shifted.                              *)
Topological == INSTANCE TopologicalOrder
Ordering == Topological!Spec

(* What lies downstream of n: the least set that holds what n leads to and *)
(* what its own members lead to.                                           *)
Reach(n) ==
  {m \in Nodes : \A S \in SUBSET Nodes :
     Outgoing(n) \subseteq S /\ (\A x \in S : Outgoing(x) \subseteq S) => m \in S}

(* A set of nodes that wait for each other.                                *)
Stuck(S) == S # {} /\ \A m \in S : \E e \in Into(m) : edges[e][1] \in S

(* The verdict is circular exactly if some nodes wait for each other, and  *)
(* otherwise every node is placed, though all the sort keeps are numbers;  *)
(* a graph whose edges name what is no node gets neither verdict.          *)
VerdictExact ==
  /\ verdict = "ordered" =>
       Known /\ ~(\E S \in SUBSET Nodes : Stuck(S)) /\ Placed = Nodes
  /\ verdict = "CIRCULAR_DEPENDENCY" => Known /\ \E S \in SUBSET Nodes : Stuck(S)
  /\ verdict = "UNKNOWN_DEPENDENCY_NODE" => ~Known /\ order = <<>>

(* The search finds what is downstream of a node, and nothing else.        *)
DownstreamExact ==
  verdict = "ordered" => \A n \in Nodes \ start : downstream[n] = Reach(n)

(* Whatever the graph, the analysis comes to its end.                      *)
Analyzed ==
  \/ verdict \in {"CIRCULAR_DEPENDENCY", "UNKNOWN_DEPENDENCY_NODE"}
  \/ verdict = "ordered" /\ start = {}
Terminates == <>Analyzed
=============================================================================
