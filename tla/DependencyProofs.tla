-------------------------- MODULE DependencyProofs --------------------------
(***************************************************************************)
(* Kahn's algorithm as analyze runs it, for every graph: each node is      *)
(* placed after what it depends on, and the verdict is circular exactly if *)
(* some nodes wait for each other.  Everything rests on indegree[m] being  *)
(* the number of edges into m from nodes not placed yet.  Then the search: *)
(* it finds of each node what lies downstream, because nothing is found    *)
(* that is not downstream and what is found leads to nothing else.         *)
(***************************************************************************)
EXTENDS Dependencies, TLAPS, FiniteSetTheorems

Waiting(m) == {e \in Into(m) : edges[e][1] \notin Placed}

Degrees == \A m \in Nodes : indegree[m] = Cardinality(Waiting(m))

Queued == queue = {m \in Nodes \ Placed : indegree[m] = 0}

PlacedAfter == \A m \in Placed : Waiting(m) = {}

Counted == Placed \subseteq Nodes /\ Cardinality(Placed) = Len(order)

(* Nothing is placed, and no verdict on cycles given, before the edges are *)
(* known to lead from nodes to nodes.                                      *)
Screened == ~Known => order = <<>> /\ verdict \in {"none", "UNKNOWN_DEPENDENCY_NODE"}

NeverStuck == \A S \in SUBSET Nodes : Stuck(S) => S \cap Placed = {}

SortInv ==
  TypeOK /\ Degrees /\ Queued /\ PlacedAfter /\ Counted /\ NeverStuck /\ Screened
    /\ VerdictExact

----------------------------------------------------------------------------
(* The sets of edges that are counted are finite.                          *)
LEMMA EdgeSets ==
  ASSUME NEW m
  PROVE  /\ IsFiniteSet(Waiting(m)) /\ Cardinality(Waiting(m)) \in Nat
         /\ Cardinality(Waiting(m)) = 0 <=> Waiting(m) = {}
<1>1. Waiting(m) \in SUBSET EdgeIds
  BY DEF Waiting, Into
<1>2. IsFiniteSet(Waiting(m))
  BY <1>1, EdgesAssumption, FS_Subset
<1>. QED BY <1>2, FS_CardinalityType, FS_EmptySet

LEMMA IntoFinite ==
  ASSUME NEW m
  PROVE  IsFiniteSet(Into(m)) /\ Cardinality(Into(m)) \in Nat
<1>1. Into(m) \in SUBSET EdgeIds
  BY DEF Into
<1>2. IsFiniteSet(Into(m))
  BY <1>1, EdgesAssumption, FS_Subset
<1>. QED BY <1>2, FS_CardinalityType

(* Appending a node places it.                                             *)
LEMMA PlacedGrows ==
  ASSUME order \in Seq(Nodes), NEW n \in Nodes, order' = Append(order, n)
  PROVE  Placed' = Placed \cup {n} /\ order' \in Seq(Nodes) /\ Len(order') = Len(order) + 1
<1>1. order' \in Seq(Nodes) /\ Len(order') = Len(order) + 1
  OBVIOUS
<1>2. \A i \in DOMAIN order : order'[i] = order[i]
  OBVIOUS
<1>3. order'[Len(order) + 1] = n
  OBVIOUS
<1>4. DOMAIN order' = DOMAIN order \cup {Len(order) + 1}
  OBVIOUS
<1>. QED BY <1>1, <1>2, <1>3, <1>4 DEF Placed

(* Placing n releases exactly the edges from n, all of which still counted.*)
LEMMA Released ==
  ASSUME edges' = edges, NEW n \in Nodes, n \notin Placed, Placed' = Placed \cup {n},
         edges \in [EdgeIds -> Names \X Names], NEW m \in Nodes
  PROVE  /\ Waiting(m)' = Waiting(m) \ Between(n, m)
         /\ Between(n, m) \subseteq Waiting(m)
         /\ IsFiniteSet(Between(n, m)) /\ Cardinality(Between(n, m)) \in Nat
         /\ Cardinality(Between(n, m)) = 0 <=> Between(n, m) = {}
         /\ Cardinality(Waiting(m)') = Cardinality(Waiting(m)) - Cardinality(Between(n, m))
         /\ Cardinality(Waiting(m)') \in Nat
<1>1. Waiting(m)' = Waiting(m) \ Between(n, m)
  BY DEF Waiting, Into, Between
<1>2. Between(n, m) \subseteq Waiting(m)
  BY DEF Waiting, Into, Between
<1>3. IsFiniteSet(Waiting(m)) /\ Cardinality(Waiting(m)) \in Nat
  BY EdgeSets
<1>4. IsFiniteSet(Between(n, m))
  BY <1>2, <1>3, FS_Subset
<1>5. Cardinality(Between(n, m)) \in Nat
  BY <1>4, FS_CardinalityType
<1>6. Cardinality(Between(n, m)) = 0 <=> Between(n, m) = {}
  BY <1>4, FS_EmptySet
<1>7. Cardinality(Waiting(m) \ Between(n, m))
        = Cardinality(Waiting(m)) - Cardinality(Waiting(m) \cap Between(n, m))
  BY <1>3, <1>4, FS_Difference
<1>8. Waiting(m) \cap Between(n, m) = Between(n, m)
  BY <1>2
<1>9. IsFiniteSet(Waiting(m) \ Between(n, m))
  BY <1>3, FS_Difference, <1>4
<1>10. Cardinality(Waiting(m) \ Between(n, m)) \in Nat
  BY <1>9, FS_CardinalityType
<1>. QED BY <1>1, <1>2, <1>4, <1>5, <1>6, <1>7, <1>8, <1>10

----------------------------------------------------------------------------
LEMMA SortInvInit == Init => SortInv
<1>. SUFFICES ASSUME Init PROVE SortInv
  OBVIOUS
<1>1. Placed = {}
  BY DEF Init, Placed
<1>2. \A m \in Nodes : Waiting(m) = Into(m)
  BY <1>1 DEF Waiting
<1>3. \A m \in Nodes : Cardinality(Into(m)) \in Nat
  BY IntoFinite
<1>4. TypeOK
  BY <1>3 DEF Init, TypeOK
<1>5. Degrees
  BY <1>2 DEF Init, Degrees
<1>6. Queued
  BY <1>1 DEF Init, Queued
<1>7. Counted
  BY <1>1, FS_EmptySet DEF Init, Counted
<1>8. PlacedAfter /\ NeverStuck
  BY <1>1 DEF PlacedAfter, NeverStuck
<1>9. VerdictExact
  BY DEF Init, VerdictExact
<1>10. Screened
  BY DEF Init, Screened
<1>. QED BY <1>4, <1>5, <1>6, <1>7, <1>8, <1>9, <1>10 DEF SortInv

(* A shift keeps the counts right, and what it queues waits for nothing.   *)
LEMMA ShiftKeeps ==
  ASSUME SortInv, Shift
  PROVE  SortInv'
<1>. USE DEF SortInv
<1>1. PICK n \in queue :
        /\ order' = Append(order, n)
        /\ indegree' = [m \in Nodes |-> indegree[m] - Cardinality(Between(n, m))]
        /\ queue' = (queue \ {n}) \cup {m \in Outgoing(n) : indegree'[m] = 0}
  BY DEF Shift
<1>2. n \in Nodes /\ n \notin Placed /\ indegree[n] = 0
  BY DEF Queued
<1>3. Placed' = Placed \cup {n} /\ order' \in Seq(Nodes) /\ Len(order') = Len(order) + 1
  BY <1>1, <1>2, PlacedGrows DEF TypeOK
<1>4. edges' = edges /\ verdict' = verdict /\ verdict = "none" /\ UNCHANGED search /\ Known
  BY DEF Shift
<1>5. ASSUME NEW m \in Nodes
      PROVE  /\ Waiting(m)' = Waiting(m) \ Between(n, m)
             /\ Between(n, m) \subseteq Waiting(m)
             /\ Cardinality(Between(n, m)) \in Nat
             /\ Cardinality(Between(n, m)) = 0 <=> Between(n, m) = {}
             /\ Cardinality(Waiting(m)') = Cardinality(Waiting(m)) - Cardinality(Between(n, m))
             /\ Cardinality(Waiting(m)') \in Nat
  BY <1>2, <1>3, <1>4, Released DEF TypeOK
<1>6. \A m \in Nodes : indegree'[m] = Cardinality(Waiting(m)') /\ indegree'[m] \in Nat
  BY <1>1, <1>5 DEF Degrees
<1>7. Degrees'
  BY <1>6 DEF Degrees
<1>8. Waiting(n) = {}
  BY <1>2, EdgeSets DEF Degrees
<1>9. TypeOK'
  <2>1. indegree' \in [Nodes -> Nat]
    BY <1>1, <1>6
  <2>2. queue' \subseteq Nodes
    BY <1>1 DEF TypeOK, Outgoing
  <2>. QED BY <2>1, <2>2, <1>3, <1>4 DEF TypeOK, search
<1>10. Queued'
  <2>1. ASSUME NEW m \in queue' PROVE m \in Nodes \ Placed' /\ indegree'[m] = 0
    <3>1. CASE m \in queue \ {n}
      <4>1. m \in Nodes \ Placed /\ indegree[m] = 0 /\ m # n
        BY <3>1 DEF Queued
      <4>2. Between(n, m) = {}
        BY <4>1, <1>5, EdgeSets DEF Degrees
      <4>3. indegree'[m] = 0
        BY <4>1, <4>2, <1>5, <1>6, EdgeSets DEF Degrees
      <4>. QED BY <4>1, <4>3, <1>3
    <3>2. CASE m \in Outgoing(n) /\ indegree'[m] = 0
      <4>1. m \in Nodes /\ Between(n, m) # {}
        BY <3>2 DEF Outgoing
      <4>2. Waiting(m) # {}
        BY <4>1, <1>5
      <4>3. m \notin Placed /\ m # n
        BY <4>2, <1>8 DEF PlacedAfter
      <4>. QED BY <3>2, <4>1, <4>3, <1>3
    <3>. QED BY <1>1, <3>1, <3>2
  <2>2. ASSUME NEW m \in Nodes, m \notin Placed', indegree'[m] = 0 PROVE m \in queue'
    <3>1. m \notin Placed /\ m # n
      BY <2>2, <1>3
    <3>2. CASE indegree[m] = 0
      BY <3>1, <3>2, <1>1 DEF Queued
    <3>3. CASE indegree[m] # 0
      <4>1. Between(n, m) # {}
        BY <3>3, <2>2, <1>5, <1>6 DEF Degrees
      <4>2. m \in Outgoing(n)
        BY <4>1 DEF Outgoing
      <4>. QED BY <4>2, <2>2, <1>1
    <3>. QED BY <3>2, <3>3
  <2>. QED BY <2>1, <2>2 DEF Queued
<1>11. PlacedAfter'
  <2>1. ASSUME NEW m \in Placed' PROVE Waiting(m)' = {}
    <3>1. m \in Nodes /\ Waiting(m) = {}
      BY <1>2, <1>3, <1>8 DEF PlacedAfter, Counted
    <3>. QED BY <3>1, <1>5
  <2>. QED BY <2>1 DEF PlacedAfter
<1>12. Counted'
  <2>1. IsFiniteSet(Placed)
    BY NodesAssumption, FS_Subset DEF Counted
  <2>2. Cardinality(Placed \cup {n}) = Cardinality(Placed) + 1
    BY <2>1, <1>2, FS_AddElement
  <2>. QED BY <2>2, <1>2, <1>3 DEF Counted
<1>13. NeverStuck'
  <2>1. ASSUME NEW S \in SUBSET Nodes, Stuck(S)' PROVE S \cap Placed' = {}
    <3>1. Stuck(S)
      BY <2>1, <1>4 DEF Stuck, Into
    <3>2. S \cap Placed = {}
      BY <3>1 DEF NeverStuck
    <3>3. n \notin S
      BY <3>1, <3>2, <1>8 DEF Stuck, Waiting
    <3>. QED BY <3>2, <3>3, <1>3
  <2>. QED BY <2>1 DEF NeverStuck
<1>14. VerdictExact'
  BY <1>4 DEF VerdictExact
<1>15. Screened'
  BY <1>4 DEF Screened, Known
<1>. QED BY <1>7, <1>9, <1>10, <1>11, <1>12, <1>13, <1>14, <1>15

(* The verdict, from the counts.                                           *)
LEMMA ReturnDecides ==
  ASSUME SortInv, Known, queue = {}
  PROVE  /\ Len(order) = Cardinality(Nodes) =>
              Placed = Nodes /\ ~(\E S \in SUBSET Nodes : Stuck(S))
         /\ Len(order) # Cardinality(Nodes) => Stuck(Nodes \ Placed)
<1>. USE DEF SortInv
<1>1. ASSUME Len(order) = Cardinality(Nodes)
      PROVE  Placed = Nodes /\ ~(\E S \in SUBSET Nodes : Stuck(S))
  <2>1. Placed = Nodes
    BY <1>1, NodesAssumption, FS_Subset DEF Counted
  <2>. QED BY <2>1 DEF NeverStuck, Stuck
<1>2. ASSUME Len(order) # Cardinality(Nodes)
      PROVE  Stuck(Nodes \ Placed)
  <2>1. Nodes \ Placed # {}
    <3>1. Placed # Nodes
      BY <1>2 DEF Counted
    <3>. QED BY <3>1 DEF Counted
  <2>2. ASSUME NEW m \in Nodes \ Placed PROVE \E e \in Into(m) : edges[e][1] \in Nodes \ Placed
    <3>1. indegree[m] # 0
      BY DEF Queued
    <3>2. PICK e \in Waiting(m) : TRUE
      BY <3>1, EdgeSets DEF Degrees
    <3>3. e \in Into(m) /\ edges[e][1] \notin Placed /\ edges[e][1] \in Nodes
      BY DEF Waiting, Into, Known
    <3>. QED BY <3>3
  <2>. QED BY <2>1, <2>2 DEF Stuck
<1>. QED BY <1>1, <1>2

(* What the sort is about does not change otherwise.                       *)
LEMMA SortKept ==
  ASSUME SortInv, UNCHANGED <<edges, indegree, queue, order>>
  PROVE  Degrees' /\ Queued' /\ PlacedAfter' /\ Counted' /\ NeverStuck'
<1>. USE DEF SortInv
<1>1. Placed' = Placed /\ \A m : Waiting(m)' = Waiting(m)
  BY DEF Placed, Waiting, Into
<1>2. \A S : Stuck(S)' <=> Stuck(S)
  BY DEF Stuck, Into
<1>. QED BY <1>1, <1>2 DEF Degrees, Queued, PlacedAfter, Counted, NeverStuck

LEMMA VerdictKept ==
  ASSUME VerdictExact, UNCHANGED <<edges, order, verdict>>
  PROVE  VerdictExact'
<1>1. Placed' = Placed /\ (Known' <=> Known) /\ \A S : Stuck(S)' <=> Stuck(S)
  BY DEF Placed, Stuck, Into, Known
<1>. QED BY <1>1 DEF VerdictExact

LEMMA ScreenedKept ==
  ASSUME Screened, UNCHANGED <<edges, order, verdict>>
  PROVE  Screened'
  BY DEF Screened, Known

LEMMA SortInvStep == SortInv /\ [Next]_vars => SortInv'
<1>. SUFFICES ASSUME SortInv, [Next]_vars PROVE SortInv'
  OBVIOUS
<1>. USE DEF SortInv
<1>1. CASE Shift
  BY <1>1, ShiftKeeps
<1>2. CASE Return
  <2>1. UNCHANGED <<edges, indegree, queue, order, start, seen, downstream>> /\ queue = {}
    BY <1>2 DEF Return
  <2>2. TypeOK'
    BY <1>2 DEF Return, TypeOK, Outgoing
  <2>3. Placed' = Placed /\ Known /\ Known' /\ \A S : Stuck(S)' <=> Stuck(S)
    BY <1>2, <2>1 DEF Return, Placed, Stuck, Into, Known
  <2>4. VerdictExact'
    <3>1. CASE Len(order) = Cardinality(Nodes)
      <4>1. verdict' = "ordered"
        BY <1>2, <3>1 DEF Return
      <4>. QED BY <4>1, <3>1, <2>1, <2>3, ReturnDecides DEF VerdictExact
    <3>2. CASE Len(order) # Cardinality(Nodes)
      <4>1. verdict' = "CIRCULAR_DEPENDENCY"
        BY <1>2, <3>2 DEF Return
      <4>2. Stuck(Nodes \ Placed)
        BY <3>2, <2>1, <2>3, ReturnDecides
      <4>. QED BY <4>1, <4>2, <2>3 DEF VerdictExact
    <3>. QED BY <3>1, <3>2
  <2>5. Screened'
    BY <2>3 DEF Screened
  <2>. QED BY <2>1, <2>2, <2>4, <2>5, SortKept
<1>3. ASSUME NEW m \in Nodes, Visit(m) PROVE SortInv'
  <2>1. TypeOK'
    BY <1>3 DEF Visit, TypeOK, Outgoing
  <2>. QED BY <1>3, <2>1, SortKept, VerdictKept, ScreenedKept DEF Visit
<1>4. CASE Record
  <2>1. TypeOK'
    BY <1>4 DEF Record, TypeOK, Outgoing
  <2>. QED BY <1>4, <2>1, SortKept, VerdictKept, ScreenedKept DEF Record
<1>5. CASE UNCHANGED vars
  <2>1. TypeOK'
    BY <1>5 DEF vars, search, TypeOK
  <2>. QED BY <1>5, <2>1, SortKept, VerdictKept, ScreenedKept DEF vars
<1>6. CASE Refuse
  <2>1. ~Known /\ ~Known' /\ verdict' = "UNKNOWN_DEPENDENCY_NODE"
    BY <1>6 DEF Refuse, Known
  <2>2. UNCHANGED <<edges, indegree, queue, order, search>>
    BY <1>6 DEF Refuse
  <2>3. order = <<>> /\ order' = <<>>
    BY <2>1, <2>2 DEF Screened
  <2>4. TypeOK'
    BY <2>1, <2>2 DEF search, TypeOK
  <2>5. Screened' /\ VerdictExact'
    BY <2>1, <2>3 DEF Screened, VerdictExact
  <2>. QED BY <2>2, <2>4, <2>5, SortKept
<1>. QED BY <1>1, <1>2, <1>3, <1>4, <1>5, <1>6 DEF Next

THEOREM SortInvariant == Spec => []SortInv
<1>. QED BY SortInvInit, SortInvStep, PTL DEF Spec

(* The program variables of analyze keep their types: in particular no     *)
(* in-degree goes below zero, however often an edge is repeated.           *)
THEOREM DependencyTypes == Spec => []TypeOK
<1>1. SortInv => TypeOK
  BY DEF SortInv
<1>. QED BY <1>1, SortInvariant, PTL

(* analyze refuses a graph exactly if an edge names what is no node or     *)
(* some nodes wait for each other, and orders every node of one it accepts.*)
THEOREM VerdictIsExact == Spec => []VerdictExact
<1>1. SortInv => VerdictExact
  BY DEF SortInv
<1>. QED BY <1>1, SortInvariant, PTL

(* The sort implements topological ordering: each node is placed after     *)
(* everything it depends on.                                               *)
THEOREM SortImplementsOrdering == Spec => Ordering
<1>1. Init => Topological!Init
  BY DEF Init, Topological!Init
<1>2. SortInv /\ [Next]_vars => [Topological!Next]_<<edges, order>>
  <2>. SUFFICES ASSUME SortInv, [Next]_vars
                PROVE  [Topological!Next]_<<edges, order>>
    OBVIOUS
  <2>1. CASE Shift
    <3>1. PICK n \in queue : order' = Append(order, n)
      BY <2>1 DEF Shift
    <3>2. n \in Nodes \ Placed /\ Waiting(n) = {}
      BY EdgeSets DEF SortInv, Queued, Degrees
    <3>3. Topological!Before(n) \subseteq Placed
      BY <3>2 DEF Topological!Before, Waiting, Into
    <3>4. Topological!Placed = Placed
      BY DEF Topological!Placed, Placed
    <3>5. Topological!Place(n)
      BY <2>1, <3>1, <3>2, <3>3, <3>4 DEF Topological!Place, Shift, Known
    <3>. QED BY <3>2, <3>5 DEF Topological!Next
  <2>2. CASE UNCHANGED <<edges, order>>
    BY <2>2
  <2>3. Shift \/ UNCHANGED <<edges, order>>
    BY DEF Next, Refuse, Return, Visit, Record, vars
  <2>. QED BY <2>1, <2>2, <2>3
<1>. QED BY <1>1, <1>2, SortInvariant, PTL DEF Spec, Ordering, Topological!Spec

----------------------------------------------------------------------------
(* The search.                                                             *)

(* What has been found from the node whose turn it is leads nowhere but to *)
(* what has been found or is still to visit.                               *)
Searching(n) ==
  /\ seen \cup pending \subseteq Reach(n)
  /\ Outgoing(n) \subseteq seen \cup pending
  /\ \A x \in seen : Outgoing(x) \subseteq seen \cup pending

SearchInv ==
  /\ verdict # "ordered" => seen = {} /\ start = Nodes
  /\ verdict = "ordered" /\ start # {} => Searching(Least(start))
  /\ DownstreamExact

LEMMA LeastOf ==
  ASSUME NEW S \in SUBSET Nodes, S # {}
  PROVE  Least(S) \in S
<1>1. PICK x \in S : \A y \in S : <<y, x>> \notin OpToRel(<, Nat)
  <2>1. S \subseteq Nat
    BY NodesAssumption
  <2>. QED BY <2>1, NatLessThanWellFounded, WFMin
<1>2. \A y \in S : x \in Nat /\ y \in Nat /\ ~(y < x)
  BY <1>1, NodesAssumption DEF OpToRel
<1>3. \A y \in S : x <= y
  BY <1>2
<1>. QED BY <1>3 DEF Least

(* What a node leads to is downstream of it, and so is what that leads to. *)
LEMMA ReachClosed ==
  ASSUME NEW n
  PROVE  /\ Outgoing(n) \subseteq Reach(n)
         /\ \A x \in Reach(n) : Outgoing(x) \subseteq Reach(n)
  BY DEF Reach, Outgoing

(* A set that is closed in this way holds all that is downstream.          *)
LEMMA ReachLeast ==
  ASSUME NEW n, NEW S \in SUBSET Nodes, Outgoing(n) \subseteq S,
         \A x \in S : Outgoing(x) \subseteq S
  PROVE  Reach(n) \subseteq S
  BY DEF Reach

LEMMA SearchKept ==
  ASSUME SearchInv, UNCHANGED <<edges, verdict, search>>
  PROVE  SearchInv'
<1>1. \A n : Outgoing(n)' = Outgoing(n) /\ Reach(n)' = Reach(n)
  BY DEF Outgoing, Between, Reach
<1>2. DownstreamExact'
  BY <1>1 DEF SearchInv, DownstreamExact, search
<1>3. \A n : Searching(n) => Searching(n)'
  BY <1>1 DEF Searching, search
<1>4. Least(start)' = Least(start)
  BY DEF search, Least
<1>. QED BY <1>2, <1>3, <1>4 DEF SearchInv, search

LEMMA SearchInvStep == TypeOK /\ SearchInv /\ [Next]_vars => SearchInv'
<1>. SUFFICES ASSUME TypeOK, SearchInv, [Next]_vars PROVE SearchInv'
  OBVIOUS
<1>1. CASE Shift \/ UNCHANGED vars
  BY <1>1, SearchKept DEF Shift, vars
<1>5. CASE Refuse
  <2>1. /\ verdict # "ordered" /\ verdict' # "ordered" /\ UNCHANGED search
    BY <1>5 DEF Refuse
  <2>. QED BY <2>1 DEF SearchInv, DownstreamExact, search
<1>0. ASSUME edges' = edges
      PROVE  \A n : Outgoing(n)' = Outgoing(n) /\ Reach(n)' = Reach(n)
  BY <1>0 DEF Outgoing, Between, Reach
<1>2. CASE Return
  <2>1. CASE verdict' # "ordered"
    BY <1>2, <2>1 DEF Return, SearchInv, DownstreamExact
  <2>2. CASE verdict' = "ordered"
    <3>1. /\ start = Nodes /\ seen = {} /\ start' = start /\ seen' = seen /\ edges' = edges
          /\ pending' = IF Nodes = {} THEN {} ELSE Outgoing(Least(Nodes))
      BY <1>2, <2>2 DEF Return, SearchInv
    <3>2. ASSUME start' # {} PROVE Searching(Least(start))'
      <4>1. PICK n : n = Least(Nodes) /\ Least(start)' = n
        BY <3>1 DEF Least
      <4>2. seen' = {} /\ pending' = Outgoing(n)
        BY <3>1, <3>2, <4>1
      <4>3. Searching(n)'
        BY <1>0, <3>1, <4>2, ReachClosed DEF Searching
      <4>. QED BY <4>1, <4>3 DEF Searching
    <3>3. DownstreamExact'
      BY <3>1 DEF DownstreamExact
    <3>. QED BY <2>2, <3>2, <3>3 DEF SearchInv
  <2>. QED BY <2>1, <2>2
<1>3. ASSUME NEW m \in Nodes, Visit(m) PROVE SearchInv'
  <2>1. /\ verdict = "ordered" /\ verdict' = verdict /\ start # {} /\ start' = start
        /\ m \in pending /\ seen' = seen \cup {m} /\ edges' = edges /\ downstream' = downstream
        /\ pending' = (pending \ {m}) \cup (IF m \in seen THEN {} ELSE Outgoing(m))
    BY <1>3 DEF Visit
  <2>2. PICK n : n = Least(start) /\ Least(start)' = n
    BY <2>1 DEF Least
  <2>3. Searching(n)
    BY <2>1, <2>2 DEF SearchInv
  <2>4. Outgoing(m) \subseteq Reach(n)
    BY <2>1, <2>3, ReachClosed DEF Searching
  <2>5. /\ seen' \cup pending' \subseteq Reach(n)
        /\ Outgoing(n) \subseteq seen' \cup pending'
        /\ \A x \in seen' : Outgoing(x) \subseteq seen' \cup pending'
    BY <2>1, <2>3, <2>4 DEF Searching
  <2>6. Searching(n)'
    BY <1>0, <2>1, <2>5 DEF Searching
  <2>7. Searching(Least(start))'
    BY <2>2, <2>6 DEF Searching
  <2>8. DownstreamExact'
    BY <1>0, <2>1 DEF SearchInv, DownstreamExact
  <2>. QED BY <2>1, <2>7, <2>8 DEF SearchInv
<1>4. CASE Record
  <2>1. PICK n, rest :
          /\ n = Least(start) /\ rest = start \ {n} /\ start' = rest
          /\ downstream' = [downstream EXCEPT ![n] = seen]
          /\ pending' = IF rest = {} THEN {} ELSE Outgoing(Least(rest))
          /\ seen' = {} /\ pending = {} /\ start # {}
          /\ verdict = "ordered" /\ verdict' = verdict /\ edges' = edges
    BY <1>4 DEF Record
  <2>2. n \in start /\ n \in Nodes
    BY <2>1, LeastOf DEF TypeOK
  <2>3. Searching(n)
    BY <2>1 DEF SearchInv
  <2>4. seen = Reach(n)
    <3>1. Reach(n) \subseteq seen
      BY <2>1, <2>3, ReachLeast DEF Searching, TypeOK
    <3>. QED BY <2>3, <3>1 DEF Searching
  <2>5. DownstreamExact'
    <3>1. ASSUME NEW x \in Nodes \ rest PROVE downstream'[x] = Reach(x)
      <4>1. CASE x = n
        BY <2>1, <2>2, <2>4, <4>1 DEF TypeOK
      <4>2. CASE x # n
        <5>1. downstream[x] = Reach(x)
          BY <2>1, <4>2 DEF SearchInv, DownstreamExact
        <5>. QED BY <2>1, <4>2, <5>1 DEF TypeOK
      <4>. QED BY <4>1, <4>2
    <3>. QED BY <1>0, <2>1, <3>1 DEF DownstreamExact
  <2>6. ASSUME start' # {} PROVE Searching(Least(start))'
    <3>1. PICK k : k = Least(rest) /\ Least(start)' = k
      BY <2>1 DEF Least
    <3>2. seen' = {} /\ pending' = Outgoing(k)
      BY <2>1, <2>6, <3>1
    <3>3. Outgoing(k)' = Outgoing(k) /\ Reach(k)' = Reach(k)
      BY <1>0, <2>1
    <3>4. seen' \cup pending' = Outgoing(k) /\ Outgoing(k) \subseteq Reach(k)
      BY <3>2, ReachClosed
    <3>5. Searching(k)'
      BY <3>2, <3>3, <3>4 DEF Searching
    <3>. QED BY <3>1, <3>5 DEF Searching
  <2>. QED BY <2>1, <2>5, <2>6 DEF SearchInv
<1>. QED BY <1>1, <1>2, <1>3, <1>4, <1>5 DEF Next

(* Of every node the analysis finds what lies downstream of it, neither    *)
(* more nor less, in whatever order the search visits what it has queued.  *)
THEOREM DownstreamIsExact == Spec => []DownstreamExact
<1>1. Init => SearchInv
  BY DEF Init, SearchInv, DownstreamExact
<1>2. SearchInv => DownstreamExact
  BY DEF SearchInv
<1>. QED BY <1>1, <1>2, SearchInvStep, DependencyTypes, PTL DEF Spec
=============================================================================
