------------------------------ MODULE Blueprint ------------------------------
(***************************************************************************)
(* Engines 21-25 (packages/performance-blueprint): the versions of a       *)
(* contract's performance blueprint, its scope, deliverables, milestones   *)
(* and their order, and the definition-of-done packages of a milestone.    *)
(***************************************************************************)
EXTENDS Documents

CONSTANTS
  Contracts,    \* contracts that are planned
  MaxPercent    \* bound: steps of valueAllocationPercent; MaxPercent stands for 100

PerformanceBlueprint ==
  [status : {"DRAFT", "ACTIVE", "SUPERSEDED"}, contract : Contracts, version : Nat]

ScopeItem ==
  [status : {"DRAFT", "CONFIRMED"}, blueprint : Nat, kind : {"INCLUDED", "EXCLUDED"}]

Deliverable == [status : {"DRAFT", "CONFIRMED"}, blueprint : Nat]
BlueprintMilestone == [blueprint : Nat, deliverables : SUBSET Nat, percent : 1..MaxPercent]
MilestoneSequenceEdge == [pred : Nat, succ : Nat]
DodPackage ==
  [status : {"DRAFT", "PUBLISHED", "SUPERSEDED"}, milestone : Nat, version : Nat \ {0}]

RowType ==
  [performanceBlueprints |-> PerformanceBlueprint, scopeItems |-> ScopeItem,
   deliverables |-> Deliverable, blueprintMilestones |-> BlueprintMilestone,
   milestoneSequenceEdges |-> MilestoneSequenceEdge, dodPackages |-> DodPackage]

BlueprintAssumption ==
  /\ MaxPercent \in Nat \ {0} /\ Workers # {} /\ Mortals \subseteq Workers
  /\ Collections = DOMAIN RowType

TypeOK == \A c \in Collections : \A x \in Ids(c) : db[c][x] \in RowType[c]

----------------------------------------------------------------------------
(* The tables.  The UPDATE of each writes the status alone.                *)
PutBlueprint(x, to) == Set("performanceBlueprints", x, to)
PutScope(x, to) == Set("scopeItems", x, to)
PutDeliverable(x, to) == Set("deliverables", x, to)
NewMilestone(row) == New("blueprintMilestones", row)
NewEdge(row) == New("milestoneSequenceEdges", row)
PutPackage(x, to) == Set("dodPackages", x, to)

Terminal(c) ==
  CASE c \in {"performanceBlueprints", "dodPackages"} -> {"SUPERSEDED"}
    [] c \in {"scopeItems", "deliverables"} -> {"CONFIRMED"}

(* One ACTIVE blueprint per contract, one PUBLISHED package per milestone. *)
NoOther(h) ==
  CASE h.c = "performanceBlueprints" /\ h.row.status = "ACTIVE" ->
         \A x \in Ids(h.c) \ {h.id} :
           InStatus(h.c, x, {"ACTIVE"}) => db[h.c][x].contract # h.row.contract
    [] h.c = "dodPackages" /\ h.row.status = "PUBLISHED" ->
         \A x \in Ids(h.c) \ {h.id} :
           InStatus(h.c, x, {"PUBLISHED"}) => db[h.c][x].milestone # h.row.milestone
    [] OTHER -> TRUE

(* The keys: (contract, version), (milestone, version), (pred, succ).      *)
KeyFree(h) ==
  \A x \in Ids(h.c) :
    LET row == db[h.c][x]
    IN CASE h.c = "performanceBlueprints" ->
              <<row.contract, row.version>> # <<h.row.contract, h.row.version>>
         [] h.c = "dodPackages" -> <<row.milestone, row.version>> # <<h.row.milestone, h.row.version>>
         [] h.c = "milestoneSequenceEdges" -> row # h.row
         [] OTHER -> TRUE

Admits(h) ==
  IF h.op = "append" THEN KeyFree(h)
  ELSE ~InStatus(h.c, h.id, Terminal(h.c)) /\ NoOther(h)

----------------------------------------------------------------------------
(* Engine 21.  The rows that were found are superseded one after another.  *)
Supersede(c, found) == [n \in DOMAIN found |-> Set(c, found[n], "SUPERSEDED")]

Draft(w) ==
  \E k \in Contracts :
    /\ Room("performanceBlueprints")
    /\ Ask(w, <<New("performanceBlueprints",
         [status |-> "DRAFT", contract |-> k,
          version |-> 1 + Cardinality({x \in Ids("performanceBlueprints") :
                                         db.performanceBlueprints[x].contract = k})])>>)

Activate(w) ==
  \E b \in Ids("performanceBlueprints") :
    /\ InStatus("performanceBlueprints", b, {"DRAFT"})
    /\ Look(w, [at |-> "scope", id |-> b])

ReadScope(w) ==
  /\ At(w, "scope")
  /\ IF \E x \in Ids("scopeItems") : /\ db.scopeItems[x].blueprint = job[w].id
                                     /\ InStatus("scopeItems", x, {"CONFIRMED"})
     THEN Then(w, [at |-> "milestones", id |-> job[w].id]) ELSE GiveUp(w)

Scheduled(b) == {m \in Ids("blueprintMilestones") : db.blueprintMilestones[m].blueprint = b}
Percent(m) == db.blueprintMilestones[m].percent
Allocated(milestones) == Cardinality(UNION {{m} \X (1..Percent(m)) : m \in milestones})

ReadMilestones(w) ==
  /\ At(w, "milestones")
  /\ LET found == Scheduled(job[w].id)
     IN IF found # {} THEN Then(w, [at |-> "packages", id |-> job[w].id, milestones |-> found])
        ELSE GiveUp(w)

Done(m) == \E p \in Ids("dodPackages") : /\ db.dodPackages[p].milestone = m
                                         /\ InStatus("dodPackages", p, {"PUBLISHED"})

ReadPackages(w) ==
  /\ At(w, "packages")
  /\ IF /\ \A m \in job[w].milestones : Done(m)
        /\ Allocated(job[w].milestones) <= MaxPercent
     THEN Then(w, [at |-> "active", id |-> job[w].id]) ELSE GiveUp(w)

ActiveOf(k) ==
  {x \in Ids("performanceBlueprints") : /\ db.performanceBlueprints[x].contract = k
                                        /\ InStatus("performanceBlueprints", x, {"ACTIVE"})}

(* The row that is written as ACTIVE is the draft read at the start.       *)
ReadActive(w) ==
  /\ At(w, "active")
  /\ LET b == job[w].id
     IN \E found \in Listing(ActiveOf(db.performanceBlueprints[b].contract)) :
          Decide(w, Supersede("performanceBlueprints", found) \o <<PutBlueprint(b, "ACTIVE")>>)

----------------------------------------------------------------------------
(* Engines 22 and 23.                                                      *)
DefineScope(w) ==
  \E b \in Ids("performanceBlueprints"), k \in {"INCLUDED", "EXCLUDED"} :
    /\ Room("scopeItems")
    /\ InStatus("performanceBlueprints", b, {"DRAFT"})
    /\ Ask(w, <<New("scopeItems", [status |-> "DRAFT", blueprint |-> b, kind |-> k])>>)

ConfirmScope(w) ==
  \E x \in Ids("scopeItems") :
    InStatus("scopeItems", x, {"DRAFT"}) /\ Ask(w, <<PutScope(x, "CONFIRMED")>>)

DefineDeliverable(w) ==
  \E s \in Ids("scopeItems") :
    /\ Room("deliverables")
    /\ db.scopeItems[s].kind = "INCLUDED"
    /\ Ask(w, <<New("deliverables", [status |-> "DRAFT", blueprint |-> db.scopeItems[s].blueprint])>>)

ConfirmDeliverable(w) ==
  \E x \in Ids("deliverables") :
    InStatus("deliverables", x, {"DRAFT"}) /\ Ask(w, <<PutDeliverable(x, "CONFIRMED")>>)

----------------------------------------------------------------------------

(* Engine 24.                                                              *)
Schedulable(d) == InStatus("deliverables", d, {"CONFIRMED"})

Schedule(w) ==
  \E ds \in SUBSET Ids("deliverables") \ {{}}, p \in 1..MaxPercent :
    \E b \in {db.deliverables[d].blueprint : d \in ds} :
      /\ Room("blueprintMilestones")
      /\ \A d \in ds : Schedulable(d) /\ db.deliverables[d].blueprint = b
      /\ Look(w, [at |-> "allocate",
                  row |-> [blueprint |-> b, deliverables |-> ds, percent |-> p]])

Fits(row) == Allocated(Scheduled(row.blueprint)) + row.percent <= MaxPercent

Allocate(w) ==
  /\ At(w, "allocate")
  /\ IF Fits(job[w].row) THEN Decide(w, <<NewMilestone(job[w].row)>>) ELSE GiveUp(w)

AddDependency(w) ==
  \E m, n \in Ids("blueprintMilestones") :
    /\ Room("milestoneSequenceEdges")
    /\ m # n
    /\ db.blueprintMilestones[m].blueprint = db.blueprintMilestones[n].blueprint
    /\ Look(w, [at |-> "edges", row |-> [pred |-> m, succ |-> n]])

(* hasPath, over the edges of the collection: every set of milestones that *)
(* the edges do not leave has, with the successors of from, also to.       *)
Edges == {db.milestoneSequenceEdges[e] : e \in Ids("milestoneSequenceEdges")}
After(milestones) == {edge.succ : edge \in {edge \in Edges : edge.pred \in milestones}}

HasPath(from, to) ==
  \A S \in SUBSET Ids("blueprintMilestones") : After(S \cup {from}) \subseteq S => to \in S

ReadEdgesBackwards(w) ==
  /\ At(w, "edges")
  /\ LET edge == job[w].row
     IN IF HasPath(edge.pred, edge.succ) THEN GiveUp(w) ELSE Decide(w, <<NewEdge(edge)>>)

ReadEdges(w) ==
  /\ At(w, "edges")
  /\ LET edge == job[w].row
     IN IF HasPath(edge.succ, edge.pred) THEN GiveUp(w) ELSE Decide(w, <<NewEdge(edge)>>)

----------------------------------------------------------------------------
(* Engine 25.                                                              *)
DraftPackage(w) ==
  \E m \in Ids("blueprintMilestones") :
    /\ Room("dodPackages")
    /\ Ask(w, <<New("dodPackages",
         [status |-> "DRAFT", milestone |-> m,
          version |-> 1 + Cardinality({p \in Ids("dodPackages") :
                                         db.dodPackages[p].milestone = m})])>>)

Publish(w) ==
  \E p \in Ids("dodPackages") :
    /\ InStatus("dodPackages", p, {"DRAFT"})
    /\ Look(w, [at |-> "published", id |-> p])

PublishedOf(m) == {p \in Ids("dodPackages") : /\ db.dodPackages[p].milestone = m
                                              /\ InStatus("dodPackages", p, {"PUBLISHED"})}

ReadPublished(w) ==
  /\ At(w, "published")
  /\ LET p == job[w].id
     IN \E found \in Listing(PublishedOf(db.dodPackages[p].milestone)) :
          Decide(w, Supersede("dodPackages", found) \o <<PutPackage(p, "PUBLISHED")>>)

----------------------------------------------------------------------------
Handle(w) ==
  \/ Draft(w) \/ Activate(w)
  \/ DefineScope(w) \/ ConfirmScope(w) \/ DefineDeliverable(w) \/ ConfirmDeliverable(w)
  \/ Schedule(w) \/ AddDependency(w)
  \/ DraftPackage(w) \/ Publish(w)

Continue(w) ==
  \/ ReadScope(w) \/ ReadMilestones(w) \/ ReadPackages(w) \/ ReadActive(w)
  \/ Allocate(w) \/ ReadEdges(w) \/ ReadPublished(w) \/ Commit(w, Admits(Due(w)))

(* Every request is carried through to its end; and with processes that    *)
(* die at any moment in between.                                           *)
Proceed == \E w \in Workers : Handle(w) \/ Continue(w)
Next == Proceed \/ \E w \in Mortals : Die(w)
Spec == Empty /\ [][Next]_vars

----------------------------------------------------------------------------
(* Two drafts, activations or publications at once leave a contract with   *)
(* one plan in force, a milestone with one definition of done, and no      *)
(* version number given twice.                                             *)
OnePlan ==
  /\ \A k \in Contracts : Cardinality(ActiveOf(k)) <= 1
  /\ \A m \in Ids("blueprintMilestones") : Cardinality(PublishedOf(m)) <= 1
  /\ \A x, y \in Ids("performanceBlueprints") :
       LET p == db.performanceBlueprints[x]
           q == db.performanceBlueprints[y]
       IN p.contract = q.contract /\ p.version = q.version => x = y

(* A milestone rests on confirmed deliverables of its own blueprint, and   *)
(* still does when they are confirmed twice.                               *)
MilestonesConfirmed ==
  \A m \in Ids("blueprintMilestones") :
    \A d \in db.blueprintMilestones[m].deliverables :
      /\ InStatus("deliverables", d, {"CONFIRMED"})
      /\ db.deliverables[d].blueprint = db.blueprintMilestones[m].blueprint

(* Requests one after another, none of which dies: a plan is superseded    *)
(* only when another took its place, and so is a definition of done.       *)
PlanNeverLost ==
  Quiet =>
    /\ \A x \in Ids("performanceBlueprints") :
         InStatus("performanceBlueprints", x, {"SUPERSEDED"})
           => ActiveOf(db.performanceBlueprints[x].contract) # {}
    /\ \A p \in Ids("dodPackages") :
         InStatus("dodPackages", p, {"SUPERSEDED"})
           => PublishedOf(db.dodPackages[p].milestone) # {}

(* Requests one after another: the milestones of a blueprint share out at  *)
(* most the whole value, and their order has no cycle.                     *)
(* PERFORMANCE_BLUEPRINT_SECURITY.md:3: allocation is "bounded at 100%".   *)
AllocationBounded ==
  \A b \in Ids("performanceBlueprints") : Allocated(Scheduled(b)) <= MaxPercent

(* Same doc: dependency edges are "checked for cycles before acceptance".  *)
EdgesAcyclic == \A m \in Ids("blueprintMilestones") : ~HasPath(m, m)

(* Requests one after another: a blueprint becomes active only with a      *)
(* published definition of done behind every milestone it then has.  Same  *)
(* doc: it "cannot activate without" one.                                  *)
ActivatedWithDone ==
  \A b \in Ids("performanceBlueprints") :
    ~InStatus("performanceBlueprints", b, {"ACTIVE"})
      /\ db'.performanceBlueprints[b].status = "ACTIVE"
    => Scheduled(b) # {} /\ \A m \in Scheduled(b) : PublishedOf(m) # {}

----------------------------------------------------------------------------
(* Inductive invariant: what a request is about to write is still true,    *)
(* whatever others have written since it read.  Blueprints and packages    *)
(* alike have versions for an owner, one of them in force.                 *)
Plans == {"performanceBlueprints", "dodPackages"}
Owner(c, row) == IF c = "performanceBlueprints" THEN row.contract ELSE row.milestone
InForce(c) == IF c = "performanceBlueprints" THEN "ACTIVE" ELSE "PUBLISHED"
InForceOf(c, k) == {x \in Ids(c) : Owner(c, db[c][x]) = k /\ InStatus(c, x, {InForce(c)})}

Confirmed(row) ==
  \A d \in row.deliverables : /\ d \in Ids("deliverables")
                             /\ InStatus("deliverables", d, {"CONFIRMED"})
                             /\ db.deliverables[d].blueprint = row.blueprint

EndsExist(edge) == {edge.pred, edge.succ} \subseteq Ids("blueprintMilestones")

ReplaceSound(h) ==
  /\ h.c \in {"performanceBlueprints", "scopeItems", "deliverables", "dodPackages"}
  /\ h.c \in Plans => Owner(h.c, h.row) = Owner(h.c, db[h.c][h.id])
  /\ h.c = "performanceBlueprints" => h.row.version = db[h.c][h.id].version
  /\ h.c = "deliverables" => /\ h.row.status = "CONFIRMED"
                             /\ h.row.blueprint = db[h.c][h.id].blueprint

AppendSound(h) ==
  /\ h.c \in Plans => h.row.status = "DRAFT"
  /\ h.c = "blueprintMilestones" => Confirmed(h.row)
  /\ h.c = "milestoneSequenceEdges" => EndsExist(h.row) /\ h.row.pred # h.row.succ

WriteSound(h) ==
  /\ WriteTyped(h, RowType)
  /\ h.op = "replace" => ReplaceSound(h)
  /\ h.op = "append" => AppendSound(h)

JobSound(j) ==
  /\ j.at \in {"idle", "scope", "milestones", "packages", "active", "allocate", "edges",
               "published", "write"}
  /\ j.at \in {"scope", "milestones", "packages", "active"} => j.id \in Ids("performanceBlueprints")
  /\ j.at = "allocate" => j.row \in BlueprintMilestone /\ Confirmed(j.row)
  /\ j.at = "edges" =>
       j.row \in MilestoneSequenceEdge /\ EndsExist(j.row) /\ j.row.pred # j.row.succ
  /\ j.at = "published" => j.id \in Ids("dodPackages")
  /\ j.at = "write" => Listed(j.todo) /\ \A n \in DOMAIN j.todo : WriteSound(j.todo[n])

OneEach ==
  \A c \in Plans : \A x, y \in Ids(c) :
    /\ InStatus(c, x, {InForce(c)}) /\ InStatus(c, y, {InForce(c)})
    /\ Owner(c, db[c][x]) = Owner(c, db[c][y])
    => x = y

VersionedOnce ==
  \A x, y \in Ids("performanceBlueprints") :
    LET p == db.performanceBlueprints[x]
        q == db.performanceBlueprints[y]
    IN p.contract = q.contract /\ p.version = q.version => x = y

TablesSound ==
  /\ OneEach /\ VersionedOnce
  /\ \A m \in Ids("blueprintMilestones") : Confirmed(db.blueprintMilestones[m])
  /\ \A e \in Ids("milestoneSequenceEdges") : EndsExist(db.milestoneSequenceEdges[e])

IInv ==
  /\ TablesTyped(RowType) /\ TablesSound
  /\ job = [w \in Workers |-> job[w]]
  /\ \A w \in Workers : JobSound(job[w])

(* Requests one after another: what a request read is so still.            *)
TakesForce(h) == h.op = "replace" /\ h.c \in Plans /\ h.row.status = InForce(h.c)

Activatable(b) == Scheduled(b) # {} /\ \A m \in Scheduled(b) : Done(m)

FreshAt(todo, n) ==
  /\ TakesForce(todo[n]) /\ todo[n].c = "performanceBlueprints" =>
       Activatable(todo[n].id) /\ \A k \in DOMAIN todo : todo[k].c = "performanceBlueprints"
  /\ todo[n].c = "blueprintMilestones" => n = 1 /\ Fits(todo[n].row)
  /\ todo[n].c = "milestoneSequenceEdges" => n = 1 /\ ~HasPath(todo[n].row.succ, todo[n].row.pred)

Fresh(j) ==
  /\ j.at = "packages" => j.milestones # {} /\ j.milestones = Scheduled(j.id)
  /\ j.at = "active" => Activatable(j.id)
  /\ j.at = "write" => \A n \in DOMAIN j.todo : FreshAt(j.todo, n)

Bounded ==
  \A m \in Ids("blueprintMilestones") :
    Allocated(Scheduled(db.blueprintMilestones[m].blueprint)) <= MaxPercent

SerialInv == InTurn => Bounded /\ EdgesAcyclic /\ \A w \in Workers : Fresh(job[w])

(* And none of which dies: who is superseded has a successor, or the one   *)
(* request there is has it to write still, and nothing will refuse it.     *)
Last(todo) == todo[Len(todo)]

HandsOver(todo) ==
  /\ TakesForce(Last(todo)) /\ InStatus(Last(todo).c, Last(todo).id, {"DRAFT"})
  /\ LET inForce == InForceOf(Last(todo).c, Owner(Last(todo).c, Last(todo).row))
     IN \/ Len(todo) = 1 /\ inForce = {}
        \/ /\ Len(todo) = 2 /\ todo[1].op = "replace" /\ todo[1].c = Last(todo).c
           /\ todo[1].row.status = "SUPERSEDED" /\ todo[1].id \in inForce

Kept(j) ==
  /\ j.at \in {"scope", "milestones", "packages", "active"} =>
       InStatus("performanceBlueprints", j.id, {"DRAFT"})
  /\ j.at = "published" => InStatus("dodPackages", j.id, {"DRAFT"})
  /\ j.at = "write" =>
       \/ HandsOver(j.todo)
       \/ Len(j.todo) = 1 /\ ~(j.todo[1].op = "replace" /\ j.todo[1].c \in Plans)

Succeeds(j, c, k) ==
  /\ j.at = "write" /\ TakesForce(Last(j.todo))
  /\ Last(j.todo).c = c /\ Owner(c, Last(j.todo).row) = k

Followed(j) ==
  \A c \in Plans : \A x \in Ids(c) :
    InStatus(c, x, {"SUPERSEDED"}) =>
      InForceOf(c, Owner(c, db[c][x])) # {} \/ Succeeds(j, c, Owner(c, db[c][x]))

ReliableInv == Reliable => \A w \in Workers : Kept(job[w]) /\ Followed(job[w])
=============================================================================
