----------------------------- MODULE Completion -----------------------------
(***************************************************************************)
(* Engines 36-40 (packages/completion-assurance): inspections, issues and  *)
(* their corrective action plans, change requests, acceptance decisions    *)
(* and completion certificates.  Several requests make two writes, so a    *)
(* crash may separate a plan from its issue or a decision from the one it  *)
(* supersedes.                                                             *)
(***************************************************************************)
EXTENDS Documents

CONSTANT WorkItems   \* work items that are accepted and certified

Inspection ==
  [status : {"SCHEDULED", "COMPLETED", "CANCELLED"}, passed : BOOLEAN, again : Nat]

IssueRecord ==
  [status : {"OPEN", "ESCALATED", "CAPA_IN_PROGRESS", "RESOLVED", "CLOSED"}]

CorrectiveActionPlan == [status : {"OPEN", "COMPLETED", "VERIFIED"}, issue : Nat]
ChangeRequest == [status : {"DRAFT", "SUBMITTED", "APPROVED", "REJECTED", "IMPLEMENTED"}]
ChangeApproval == [request : Nat, decision : {"APPROVE", "REJECT"}]
AcceptanceDecision ==
  [status : {"ACTIVE", "SUPERSEDED"}, item : WorkItems, accepts : BOOLEAN, prior : Nat]

CompletionCertificate ==
  [status : {"CERTIFIED", "REVOKED"}, item : WorkItems, decision : Nat, number : Nat]

RowType ==
  [inspections |-> Inspection, issueRecords |-> IssueRecord,
   correctiveActionPlans |-> CorrectiveActionPlan, changeRequests |-> ChangeRequest,
   changeApprovals |-> ChangeApproval, acceptanceDecisions |-> AcceptanceDecision,
   completionCertificates |-> CompletionCertificate]

CompletionAssumption ==
  Workers # {} /\ Mortals \subseteq Workers /\ Collections = DOMAIN RowType

TypeOK == \A c \in Collections : \A x \in Ids(c) : db[c][x] \in RowType[c]

----------------------------------------------------------------------------
PutInspection(x, row) == Put("inspections", x, row)
PutIssue(x, to) == Set("issueRecords", x, to)
PutPlan(x, to) == Set("correctiveActionPlans", x, to)
PutChange(x, to) == Set("changeRequests", x, to)
NewApproval(x, d) == New("changeApprovals", [request |-> x, decision |-> d])
PutDecision(x, to) == Set("acceptanceDecisions", x, to)
PutCertificate(x, to) == Set("completionCertificates", x, to)

Terminal(c) ==
  CASE c = "inspections" -> {"COMPLETED", "CANCELLED"}
    [] c = "issueRecords" -> {"CLOSED"}
    [] c = "correctiveActionPlans" -> {"VERIFIED"}
    [] c = "changeRequests" -> {"IMPLEMENTED", "REJECTED"}
    [] c = "acceptanceDecisions" -> {"SUPERSEDED"}
    [] c = "completionCertificates" -> {"REVOKED"}

AnyActive(row) == TRUE

(* One ACTIVE decision and one CERTIFIED certificate per work item are     *)
(* partial unique indexes; certificate numbers are unique.                 *)
OneActive(row) ==
  \A x \in Ids("acceptanceDecisions") :
    InStatus("acceptanceDecisions", x, {"ACTIVE"})
      => db.acceptanceDecisions[x].item # row.item

OneCertified(row) ==
  \A x \in Ids("completionCertificates") :
    InStatus("completionCertificates", x, {"CERTIFIED"})
      => db.completionCertificates[x].item # row.item

NumberFree(row) ==
  \A x \in Ids("completionCertificates") : db.completionCertificates[x].number # row.number

Admits(h) ==
  IF h.op = "replace" THEN ~InStatus(h.c, h.id, Terminal(h.c))
  ELSE /\ h.c = "acceptanceDecisions" => OneActive(h.row)
       /\ h.c = "completionCertificates" => OneCertified(h.row) /\ NumberFree(h.row)

----------------------------------------------------------------------------
(* Engine 36.  again 0: not a reinspection.                                *)
Failed(x) == InStatus("inspections", x, {"COMPLETED"}) /\ ~db.inspections[x].passed
Schedule(w) ==
  \E prior \in {0} \cup Ids("inspections") :
    /\ Room("inspections")
    /\ prior # 0 => Failed(prior)
    /\ Ask(w, <<New("inspections", [status |-> "SCHEDULED", passed |-> FALSE,
                                    again |-> prior])>>)

(* The findings cover the checklist; passed: all required items passed.    *)
Complete(w) ==
  \E x \in Ids("inspections"), passed \in BOOLEAN :
    /\ InStatus("inspections", x, {"SCHEDULED"})
    /\ Ask(w, <<PutInspection(x, [db.inspections[x] EXCEPT
                                    !.status = "COMPLETED", !.passed = passed])>>)

----------------------------------------------------------------------------
(* Engine 37.                                                              *)
Raise(w) ==
  Room("issueRecords") /\ Ask(w, <<New("issueRecords", [status |-> "OPEN"])>>)

Escalate(w) ==
  \E x \in Ids("issueRecords") :
    InStatus("issueRecords", x, {"OPEN"}) /\ Ask(w, <<PutIssue(x, "ESCALATED")>>)

OpenCapa(w) ==
  \E x \in Ids("issueRecords") :
    /\ Room("correctiveActionPlans")
    /\ InStatus("issueRecords", x, {"OPEN", "ESCALATED"})
    /\ Ask(w, <<New("correctiveActionPlans", [status |-> "OPEN", issue |-> x]),
                PutIssue(x, "CAPA_IN_PROGRESS")>>)

CompleteCapa(w) ==
  \E p \in Ids("correctiveActionPlans") :
    InStatus("correctiveActionPlans", p, {"OPEN"}) /\ Ask(w, <<PutPlan(p, "COMPLETED")>>)

(* verifyResolution: the plan first, then the issue, read in between.      *)
VerifyResolution(w) ==
  \E p \in Ids("correctiveActionPlans") :
    /\ InStatus("correctiveActionPlans", p, {"COMPLETED"})
    /\ Look(w, [at |-> "verify", put |-> PutPlan(p, "VERIFIED")])

WriteVerified(w) ==
  /\ At(w, "verify")
  /\ LET h == job[w].put
     IN IF Admits(h)
        THEN /\ db' = Written(h)
             /\ Carry(w, [at |-> "readIssue", issue |-> h.row.issue])
        ELSE GiveUp(w)

ReadIssue(w) ==
  At(w, "readIssue") /\ Decide(w, <<PutIssue(job[w].issue, "RESOLVED")>>)

CloseIssue(w) ==
  \E x \in Ids("issueRecords") :
    InStatus("issueRecords", x, {"RESOLVED"}) /\ Ask(w, <<PutIssue(x, "CLOSED")>>)

----------------------------------------------------------------------------
(* Engine 38.                                                              *)
Draft(w) ==
  Room("changeRequests") /\ Ask(w, <<New("changeRequests", [status |-> "DRAFT"])>>)

Submit(w) ==
  \E x \in Ids("changeRequests") :
    InStatus("changeRequests", x, {"DRAFT"}) /\ Ask(w, <<PutChange(x, "SUBMITTED")>>)

DecideChange(w) ==
  \E x \in Ids("changeRequests"), d \in {"APPROVE", "REJECT"} :
    /\ Room("changeApprovals")
    /\ InStatus("changeRequests", x, {"SUBMITTED"})
    /\ Ask(w, <<NewApproval(x, d), PutChange(x, IF d = "APPROVE" THEN "APPROVED" ELSE "REJECTED")>>)

Implement(w) ==
  \E x \in Ids("changeRequests") :
    InStatus("changeRequests", x, {"APPROVED"}) /\ Ask(w, <<PutChange(x, "IMPLEMENTED")>>)

----------------------------------------------------------------------------
(* Engine 39: the decision in force is superseded, then the new appended.  *)
Active(i) ==
  {x \in Ids("acceptanceDecisions") : /\ db.acceptanceDecisions[x].item = i
                                      /\ InStatus("acceptanceDecisions", x, {"ACTIVE"})}

Supersede(prior) == IF prior = 0 THEN <<>> ELSE <<PutDecision(prior, "SUPERSEDED")>>

DecideAcceptance(w) ==
  \E i \in WorkItems, accepts \in BOOLEAN :
    \E prior \in IF Active(i) = {} THEN {0} ELSE Active(i) :
      /\ Room("acceptanceDecisions")
      /\ Ask(w, Supersede(prior)
                \o <<New("acceptanceDecisions",
                         [status |-> "ACTIVE", item |-> i, accepts |-> accepts,
                          prior |-> prior])>>)

----------------------------------------------------------------------------
(* Engine 40.  That the gate and the inspection passed and no blocker is   *)
(* open is what the caller says; whether the decision is of this work item *)
(* is not asked.                                                           *)
Issue(w) ==
  \E i \in WorkItems, d \in Ids("acceptanceDecisions") :
    /\ Room("completionCertificates")
    /\ \A x \in Ids("completionCertificates") :
         InStatus("completionCertificates", x, {"CERTIFIED"})
           => db.completionCertificates[x].item # i
    /\ Look(w, [at |-> "readDecision", item |-> i, decision |-> d])

Accepting(d) ==
  InStatus("acceptanceDecisions", d, {"ACTIVE"}) /\ db.acceptanceDecisions[d].accepts

ReadDecision(w) ==
  /\ At(w, "readDecision")
  /\ IF Accepting(job[w].decision)
     THEN Then(w, [at |-> "number", item |-> job[w].item, decision |-> job[w].decision])
     ELSE GiveUp(w)

NumberCertificate(w) ==
  /\ At(w, "number")
  /\ Decide(w, <<New("completionCertificates",
                     [status |-> "CERTIFIED", item |-> job[w].item,
                      decision |-> job[w].decision,
                      number |-> Len(db.completionCertificates) + 1])>>)

Revoke(w) ==
  \E x \in Ids("completionCertificates") :
    /\ InStatus("completionCertificates", x, {"CERTIFIED"})
    /\ Ask(w, <<PutCertificate(x, "REVOKED")>>)

----------------------------------------------------------------------------
Handle(w) ==
  \/ Schedule(w) \/ Complete(w)
  \/ Raise(w) \/ Escalate(w) \/ OpenCapa(w) \/ CompleteCapa(w) \/ VerifyResolution(w)
  \/ CloseIssue(w)
  \/ Draft(w) \/ Submit(w) \/ DecideChange(w) \/ Implement(w)
  \/ DecideAcceptance(w) \/ Issue(w) \/ Revoke(w)

Continue(w) ==
  \/ WriteVerified(w) \/ ReadIssue(w) \/ ReadDecision(w) \/ NumberCertificate(w)
  \/ Commit(w, Admits(Due(w)))

(* Every request is carried through to its end; and with processes that    *)
(* die at any moment in between.                                           *)
Proceed == \E w \in Workers : Handle(w) \/ Continue(w)
Next == Proceed \/ \E w \in Mortals : Die(w)
Spec == Empty /\ [][Next]_vars

----------------------------------------------------------------------------
(* A verdict is final, so what a reinspection follows stays a failure,     *)
(* also when an inspection is completed twice at once with other findings. *)
ReinspectsFailure ==
  \A x \in Ids("inspections") :
    db.inspections[x].again # 0 => Failed(db.inspections[x].again)

(* COMPLETION_ASSURANCE_SECURITY.md:3: no issue resolves without a         *)
(* verified plan, wherever a request stops.                                *)
ResolvedOnPlan ==
  \A x \in Ids("issueRecords") :
    InStatus("issueRecords", x, {"RESOLVED", "CLOSED"}) =>
      \E p \in Ids("correctiveActionPlans") :
        /\ db.correctiveActionPlans[p].issue = x
        /\ InStatus("correctiveActionPlans", p, {"VERIFIED"})

(* A change is implemented only with an approval on record, though the     *)
(* approval and the status are two writes and decisions may compete.       *)
ImplementedOnApproval ==
  \A x \in Ids("changeRequests") :
    InStatus("changeRequests", x, {"IMPLEMENTED"}) =>
      \E a \in Ids("changeApprovals") :
        db.changeApprovals[a] = [request |-> x, decision |-> "APPROVE"]

(* One decision in force and one certificate per work item, and no number  *)
(* twice, whatever is decided and issued at once.                          *)
OneInForce ==
  /\ \A i \in WorkItems : Cardinality(Active(i)) <= 1
  /\ \A x, y \in Ids("completionCertificates") :
       LET p == db.completionCertificates[x]
           q == db.completionCertificates[y]
       IN x # y => /\ p.number # q.number
                   /\ p.status = "CERTIFIED" /\ q.status = "CERTIFIED" => p.item # q.item

(* Requests one after another, none of which dies: the plans of an issue   *)
(* tell its status.                                                        *)
IssueFollowsPlans ==
  Quiet => \A p \in Ids("correctiveActionPlans") :
             LET plan == db.correctiveActionPlans[p]
             IN plan.status = "VERIFIED"
                  <=> InStatus("issueRecords", plan.issue, {"RESOLVED", "CLOSED"})

(* The same: a decision is superseded only by one that took its place.     *)
SupersededBySuccessor ==
  Quiet => \A x \in Ids("acceptanceDecisions") :
             InStatus("acceptanceDecisions", x, {"SUPERSEDED"})
               <=> \E y \in Ids("acceptanceDecisions") : db.acceptanceDecisions[y].prior = x

(* Requests one after another: a certificate is issued on a decision in    *)
(* force that accepts.  COMPLETION_ASSURANCE_SECURITY.md:3 says so of all. *)
CertifiedOnActive ==
  Len(db'.completionCertificates) > Len(db.completionCertificates)
  => LET d == db'.completionCertificates[Len(db'.completionCertificates)].decision
     IN /\ InStatus("acceptanceDecisions", d, {"ACTIVE"})
        /\ db.acceptanceDecisions[d].accepts

----------------------------------------------------------------------------
(* Inductive invariant: what a request is about to write is still true,    *)
(* whatever others have written since it read.                             *)
Planned(x) ==
  \E p \in Ids("correctiveActionPlans") :
    db.correctiveActionPlans[p].issue = x /\ InStatus("correctiveActionPlans", p, {"VERIFIED"})

Approved(x) ==
  \E a \in Ids("changeApprovals") : db.changeApprovals[a] = [request |-> x, decision |-> "APPROVE"]

WriteSound(h) ==
  /\ WriteTyped(h, RowType)
  /\ h.op = "replace" =>
       /\ h.c # "changeApprovals"
       /\ h.c = "inspections" => /\ h.row.status = "COMPLETED"
                                 /\ h.row.again = db.inspections[h.id].again
       /\ h.c = "issueRecords" /\ h.row.status \in {"RESOLVED", "CLOSED"} => Planned(h.id)
       /\ h.c = "correctiveActionPlans" => h.row.issue = db.correctiveActionPlans[h.id].issue
       /\ h.c = "acceptanceDecisions" =>
            /\ h.row.status = "SUPERSEDED"
            /\ h.row.item = db.acceptanceDecisions[h.id].item
            /\ h.row.prior = db.acceptanceDecisions[h.id].prior
       /\ h.c = "completionCertificates" =>
            /\ h.row.status = "REVOKED"
            /\ h.row.number = db.completionCertificates[h.id].number
  /\ h.op = "append" =>
       /\ h.c = "inspections" =>
            /\ h.row.status = "SCHEDULED"
            /\ h.row.again # 0 => h.row.again \in Ids("inspections") /\ Failed(h.row.again)
       /\ h.c = "issueRecords" => h.row.status = "OPEN"
       /\ h.c = "correctiveActionPlans" => h.row.issue \in Ids("issueRecords")
       /\ h.c = "changeRequests" => h.row.status = "DRAFT"

(* The status of a change may wait for the approval written before it.     *)
Decided(todo, n) ==
  todo[n].c = "changeRequests" /\ todo[n].row.status \in {"APPROVED", "IMPLEMENTED"} =>
    \/ Approved(todo[n].id)
    \/ n - 1 \in DOMAIN todo /\ todo[n - 1] = NewApproval(todo[n].id, "APPROVE")

JobSound(j) ==
  /\ j.at \in {"idle", "verify", "readIssue", "readDecision", "number", "write"}
  /\ j.at = "verify" => /\ WriteSound(j.put) /\ j.put.op = "replace"
                        /\ j.put.c = "correctiveActionPlans" /\ j.put.row.status = "VERIFIED"
  /\ j.at = "readIssue" => j.issue \in Ids("issueRecords") /\ Planned(j.issue)
  /\ j.at \in {"readDecision", "number"} =>
       j.item \in WorkItems /\ j.decision \in Ids("acceptanceDecisions")
  /\ j.at = "write" => /\ Listed(j.todo)
                       /\ \A n \in DOMAIN j.todo : WriteSound(j.todo[n]) /\ Decided(j.todo, n)

TablesSound ==
  /\ ReinspectsFailure /\ ResolvedOnPlan /\ OneInForce
  /\ \A x \in Ids("inspections") :
       db.inspections[x].again # 0 => db.inspections[x].again \in Ids("inspections")
  /\ \A p \in Ids("correctiveActionPlans") :
       db.correctiveActionPlans[p].issue \in Ids("issueRecords")
  /\ \A x \in Ids("changeRequests") :
       InStatus("changeRequests", x, {"APPROVED", "IMPLEMENTED"}) => Approved(x)

IInv ==
  /\ TablesTyped(RowType) /\ TablesSound
  /\ job = [w \in Workers |-> job[w]]
  /\ \A w \in Workers : JobSound(job[w])

(* Requests one after another: the decision a request read is in force.    *)
Fresh(j) ==
  /\ j.at = "number" => Accepting(j.decision)
  /\ j.at = "write" => \A n \in DOMAIN j.todo :
       j.todo[n].op = "append" /\ j.todo[n].c = "completionCertificates" =>
         n = 1 /\ Accepting(j.todo[n].row.decision)

SerialInv == InTurn => \A w \in Workers : Fresh(job[w])

(* And none of them dies: what is half done is known from the request.     *)
Capa(x) == Put("issueRecords", x, [status |-> "CAPA_IN_PROGRESS"])
Resolution(x) == Put("issueRecords", x, [status |-> "RESOLVED"])
OnlyWrite(j, h) == j.at = "write" /\ Len(j.todo) = 1 /\ Head(j.todo) = h

Opening(j) == {x \in Ids("issueRecords") : OnlyWrite(j, Capa(x))}
Resolving(j) ==
  {x \in Ids("issueRecords") : OnlyWrite(j, Resolution(x)) \/ (j.at = "readIssue" /\ j.issue = x)}
Replacing(j) ==
  {x \in Ids("acceptanceDecisions") :
     /\ j.at = "write" /\ Len(j.todo) = 1
     /\ Head(j.todo).c = "acceptanceDecisions" /\ Head(j.todo).row.prior = x}

LastKept(h) ==
  /\ h.c = "issueRecords" /\ h.op = "replace" =>
       \/ h = Capa(h.id) \/ h = Resolution(h.id)
       \/ h.row.status = "ESCALATED" /\ InStatus("issueRecords", h.id, {"OPEN"})
       \/ h.row.status = "CLOSED" /\ InStatus("issueRecords", h.id, {"RESOLVED"})
  /\ h.c = "correctiveActionPlans" =>
       /\ h.op = "replace" /\ h.row.status = "COMPLETED"
       /\ InStatus("correctiveActionPlans", h.id, {"OPEN"})
  /\ h.c = "acceptanceDecisions" =>
       /\ h.op = "append" /\ h.row.status = "ACTIVE" /\ Room(h.c)
       /\ Active(h.row.item) = {} /\ h.row.prior \in {0} \cup Ids(h.c)

PairKept(h, g) ==
  \/ \E x \in Ids("issueRecords") :
       /\ InStatus("issueRecords", x, {"OPEN", "ESCALATED"})
       /\ h = New("correctiveActionPlans", [status |-> "OPEN", issue |-> x]) /\ g = Capa(x)
  \/ \E x \in Ids("acceptanceDecisions") :
       /\ h.op = "replace" /\ h.c = "acceptanceDecisions" /\ h.id = x
       /\ InStatus("acceptanceDecisions", x, {"ACTIVE"})
       /\ g.op = "append" /\ g.c = "acceptanceDecisions" /\ g.row.status = "ACTIVE"
       /\ g.row.item = db.acceptanceDecisions[x].item /\ g.row.prior = x /\ Room(g.c)
  \/ h.c = "changeApprovals" /\ g.c = "changeRequests"

Kept(j) ==
  /\ j.at = "verify" => InStatus("correctiveActionPlans", j.put.id, {"COMPLETED"})
  /\ j.at = "write" => \/ Len(j.todo) = 1 /\ LastKept(Head(j.todo))
                       \/ Len(j.todo) = 2 /\ PairKept(Head(j.todo), Head(Tail(j.todo)))

IssuesFollow(j) ==
  \A p \in Ids("correctiveActionPlans") :
    LET plan == db.correctiveActionPlans[p]
        issue == db.issueRecords[plan.issue]
    IN /\ \A q \in Ids("correctiveActionPlans") :
            db.correctiveActionPlans[q].issue = plan.issue => p = q
       /\ plan.issue \in Opening(j) =>
            plan.status = "OPEN" /\ issue.status \in {"OPEN", "ESCALATED"}
       /\ plan.issue \in Resolving(j) =>
            plan.status = "VERIFIED" /\ issue.status = "CAPA_IN_PROGRESS"
       /\ plan.issue \notin Opening(j) \cup Resolving(j) =>
            /\ issue.status \in {"CAPA_IN_PROGRESS", "RESOLVED", "CLOSED"}
            /\ plan.status = "VERIFIED" <=> issue.status \in {"RESOLVED", "CLOSED"}

SuccessorsFollow(j) ==
  \A x \in Ids("acceptanceDecisions") :
    InStatus("acceptanceDecisions", x, {"SUPERSEDED"})
      <=> x \in Replacing(j) \/ \E y \in Ids("acceptanceDecisions") : db.acceptanceDecisions[y].prior = x

ReliableInv ==
  Reliable =>
    /\ \A y \in Ids("acceptanceDecisions") :
         db.acceptanceDecisions[y].prior \in {0} \cup Ids("acceptanceDecisions")
    /\ \A w \in Workers :
         Kept(job[w]) /\ IssuesFollow(job[w]) /\ SuccessorsFollow(job[w])
=============================================================================
