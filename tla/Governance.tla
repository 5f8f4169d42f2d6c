----------------------------- MODULE Governance -----------------------------
(***************************************************************************)
(* Engines 06-10 (packages/governance-core): a governed execution and its  *)
(* history, its milestones and their order, definitions of done,           *)
(* certification by reviewers, and the proposals that ask a provider to    *)
(* release a payment.  The rows of executions, milestones and requests     *)
(* carry a version that every replace must advance, so that a request that *)
(* read an older row is refused.  What facts and evidence say of a         *)
(* definition of done is the caller's: passed or not.                      *)
(***************************************************************************)
EXTENDS Documents

CONSTANTS
  People,   \* who requests and who reviews a certification
  Keys,     \* idempotency keys of proposals
  MaxVersion   \* bound: an execution or milestone at this version is left alone

ExecutionState == {"DRAFT", "PLANNED", "ACTIVE", "SUSPENDED", "COMPLETED", "CANCELLED"}

Execution == [state : ExecutionState, version : Nat \ {0}]
ExecutionHistory ==
  [execution : Nat, from : ExecutionState \cup {"none"}, to : ExecutionState,
   sequence : Nat \ {0}]
MilestoneNode == [state : {"PLANNED", "COMPLETED"}, version : Nat \ {0}]
MilestoneDependency == [pred : Nat, succ : Nat]
DefinitionOfDoneVersion ==
  [status : {"DRAFT", "PUBLISHED", "SUPERSEDED"}, milestone : Nat, version : Nat \ {0}]
DodEvaluation == [milestone : Nat, definition : Nat, passed : BOOLEAN]
CertificationRequest ==
  [status : {"PENDING", "APPROVED", "REJECTED"}, milestone : Nat, evaluation : Nat,
   by : People, reviewers : SUBSET People, version : Nat \ {0}]
CertificationDecision ==
  [request : Nat, reviewer : People, decision : {"APPROVED", "REJECTED"}]
DigitalCertificationRecord == [request : Nat, milestone : Nat, number : Nat \ {0}]
PaymentTriggerDefinition == [milestone : Nat, definition : Nat, certified : BOOLEAN]
PaymentAuthorizationProposal ==
  [status : {"PROPOSED", "BLOCKED"}, trigger : Nat, certificate : Nat, key : Keys]

(* releaseIntents is not a table: it is what the provider was asked.       *)
RowType ==
  [governedExecutions |-> Execution, executionHistory |-> ExecutionHistory,
   governedMilestones |-> MilestoneNode, milestoneDependencies |-> MilestoneDependency,
   dodVersions |-> DefinitionOfDoneVersion, dodEvaluations |-> DodEvaluation,
   certificationRequests |-> CertificationRequest,
   certificationDecisions |-> CertificationDecision,
   digitalCertifications |-> DigitalCertificationRecord,
   paymentTriggerDefinitions |-> PaymentTriggerDefinition,
   paymentAuthorizationProposals |-> PaymentAuthorizationProposal,
   releaseIntents |-> [proposal : Nat]]

GovernanceAssumption ==
  /\ IsFiniteSet(Workers) /\ Workers # {} /\ Mortals \subseteq Workers
  /\ Collections = DOMAIN RowType

TypeOK == \A c \in Collections : \A x \in Ids(c) : db[c][x] \in RowType[c]

----------------------------------------------------------------------------
(* The tables.                                                             *)
NewHistory(row) == New("executionHistory", row)
NewDependency(row) == New("milestoneDependencies", row)
NewEvaluation(row) == New("dodEvaluations", row)
NewDecision(row) == New("certificationDecisions", row)
NewCertificate(row) == New("digitalCertifications", row)
NewTrigger(row) == New("paymentTriggerDefinitions", row)
NewProposal(row) == New("paymentAuthorizationProposals", row)
AskProvider(row) == New("releaseIntents", row)
PutExecution(x, row) == Put("governedExecutions", x, row)
PutMilestone(x, row) == Put("governedMilestones", x, row)
PutVersion(x, row) == Put("dodVersions", x, row)
PutRequest(x, row) == Put("certificationRequests", x, row)

Versioned == {"governedExecutions", "governedMilestones", "certificationRequests"}

Advances(h) == h.c \in Versioned => h.row.version > db[h.c][h.id].version

(* The unique key of a row of a table.                                     *)
Key(c, row) ==
  CASE c = "executionHistory" -> <<row.execution, row.sequence>>
    [] c = "milestoneDependencies" -> <<row.pred, row.succ>>
    [] c = "dodVersions" -> <<row.milestone, row.version>>
    [] c = "certificationDecisions" -> <<row.request, row.reviewer>>
    [] c = "paymentAuthorizationProposals" -> <<row.key>>

Keyed == {"executionHistory", "milestoneDependencies", "dodVersions",
          "certificationDecisions", "paymentAuthorizationProposals"}

KeyFree(h) ==
  /\ h.c \in Keyed => \A x \in Ids(h.c) : Key(h.c, db[h.c][x]) # Key(h.c, h.row)
  /\ h.c = "digitalCertifications" =>
       \A x \in Ids(h.c) : /\ db[h.c][x].request # h.row.request
                           /\ db[h.c][x].number # h.row.number

Admits(h) == IF h.op = "append" THEN KeyFree(h) ELSE Advances(h)

Bumped(row) == [row EXCEPT !.version = @ + 1]

----------------------------------------------------------------------------
(* Engine 06.  create and transition write the execution, and then record  *)
(* reads the history and appends to it.                                    *)
Allowed ==
  [DRAFT |-> {"PLANNED", "CANCELLED"}, PLANNED |-> {"ACTIVE", "CANCELLED"},
   ACTIVE |-> {"SUSPENDED", "COMPLETED", "CANCELLED"}, SUSPENDED |-> {"ACTIVE", "CANCELLED"},
   COMPLETED |-> {}, CANCELLED |-> {}]

CreateExecution(w) ==
  /\ Room("governedExecutions")
  /\ db' = [db EXCEPT !.governedExecutions = Append(@, [state |-> "DRAFT", version |-> 1])]
  /\ Receive(w, [at |-> "record", id |-> Len(db.governedExecutions) + 1,
                 from |-> "none", to |-> "DRAFT"])

Transition(w) ==
  \E x \in Ids("governedExecutions") :
    \E to \in Allowed[db.governedExecutions[x].state] :
      /\ db.governedExecutions[x].version < MaxVersion
      /\ Look(w, [at |-> "move", id |-> x, to |-> to, row |-> db.governedExecutions[x]])

Move(w) ==
  /\ At(w, "move")
  /\ LET j == job[w]
         h == PutExecution(j.id, [Bumped(j.row) EXCEPT !.state = j.to])
     IN \/ /\ Admits(h)
           /\ db' = Written(h)
           /\ Carry(w, [at |-> "record", id |-> j.id, from |-> j.row.state, to |-> j.to])
        \/ ~Admits(h) /\ GiveUp(w)

HistoryOf(x) == {n \in Ids("executionHistory") : db.executionHistory[n].execution = x}

Record(w) ==
  /\ At(w, "record")
  /\ LET j == job[w]
     IN Decide(w, <<NewHistory([execution |-> j.id, from |-> j.from, to |-> j.to,
           sequence |-> Cardinality(HistoryOf(j.id)) + 1])>>)

----------------------------------------------------------------------------
(* Engine 07, for the milestones of one execution.                         *)
CreateMilestone(w) ==
  /\ Room("governedMilestones")
  /\ Ask(w, <<New("governedMilestones", [state |-> "PLANNED", version |-> 1])>>)

AddDependency(w) ==
  \E m, n \in Ids("governedMilestones") :
    /\ Room("milestoneDependencies")
    /\ m # n
    /\ Look(w, [at |-> "edges", row |-> [pred |-> m, succ |-> n]])

EdgeSet == {db.milestoneDependencies[e] : e \in Ids("milestoneDependencies")}

After(milestones) == {edge.succ : edge \in {edge \in EdgeSet : edge.pred \in milestones}}

(* Every set of milestones that the edges do not leave has, with the       *)
(* successors of from, also to.                                            *)
HasPath(from, to) ==
  \A S \in SUBSET Ids("governedMilestones") : After(S \cup {from}) \subseteq S => to \in S

ReadEdges(w) ==
  /\ At(w, "edges")
  /\ LET edge == job[w].row
     IN IF HasPath(edge.succ, edge.pred) THEN GiveUp(w)
        ELSE Decide(w, <<NewDependency(edge)>>)

(* complete reads the milestone, its dependencies and their milestones.    *)
Complete(w) ==
  \E m \in Ids("governedMilestones") :
    /\ db.governedMilestones[m].version < MaxVersion
    /\ Look(w, [at |-> "predecessors", id |-> m, row |-> db.governedMilestones[m]])

Predecessors(m) ==
  {db.milestoneDependencies[e].pred : e \in {e \in Ids("milestoneDependencies") :
                                               db.milestoneDependencies[e].succ = m}}

ReadPredecessors(w) ==
  /\ At(w, "predecessors")
  /\ Then(w, [at |-> "ready", id |-> job[w].id, row |-> job[w].row,
              preds |-> Predecessors(job[w].id)])

Completed(m) == db.governedMilestones[m].state = "COMPLETED"

SomeReady(preds) == preds # {} => \E p \in preds : Completed(p)

AllReady(preds) == \A p \in preds : Completed(p)

ReadReadiness(w) ==
  /\ At(w, "ready")
  /\ LET j == job[w]
     IN IF AllReady(j.preds)
        THEN Decide(w, <<PutMilestone(j.id,
                             [Bumped(j.row) EXCEPT !.state = "COMPLETED"])>>)
        ELSE GiveUp(w)

----------------------------------------------------------------------------
(* Engine 08.                                                              *)
VersionsOf(m) == {d \in Ids("dodVersions") : db.dodVersions[d].milestone = m}

CreateVersion(w) ==
  \E m \in Ids("governedMilestones") :
    /\ Room("dodVersions")
    /\ Ask(w, <<New("dodVersions", [status |-> "DRAFT", milestone |-> m,
                                    version |-> Cardinality(VersionsOf(m)) + 1])>>)

Publish(w) ==
  \E d \in Ids("dodVersions") :
    InStatus("dodVersions", d, {"DRAFT"})
      /\ Look(w, [at |-> "published", id |-> d, row |-> db.dodVersions[d]])

PublishedOf(m) == {d \in VersionsOf(m) : InStatus("dodVersions", d, {"PUBLISHED"})}

Supersede(found) == [n \in DOMAIN found |->
  PutVersion(found[n], [db.dodVersions[found[n]] EXCEPT !.status = "SUPERSEDED"])]

ReadPublished(w) ==
  /\ At(w, "published")
  /\ LET j == job[w]
     IN \E found \in Listing(PublishedOf(j.row.milestone)) :
          Decide(w, Supersede(found) \o <<PutVersion(j.id, [j.row EXCEPT !.status = "PUBLISHED"])>>)

Evaluate(w) ==
  \E d \in Ids("dodVersions"), passed \in BOOLEAN :
    /\ Room("dodEvaluations")
    /\ InStatus("dodVersions", d, {"PUBLISHED"})
    /\ Ask(w, <<NewEvaluation([milestone |-> db.dodVersions[d].milestone,
                                       definition |-> d, passed |-> passed])>>)

----------------------------------------------------------------------------
(* Engine 09.  The milestone of a request is not compared with that of the *)
(* evaluation it cites.                                                    *)
RequestCertification(w) ==
  \E e \in Ids("dodEvaluations"), m \in Ids("governedMilestones"), u \in People :
    \E rs \in SUBSET (People \ {u}) \ {{}} :
      /\ Room("certificationRequests")
      /\ db.dodEvaluations[e].passed
      /\ Ask(w, <<New("certificationRequests",
                      [status |-> "PENDING", milestone |-> m, evaluation |-> e, by |-> u,
                       reviewers |-> rs, version |-> 1])>>)

DecideCertification(w) ==
  \E r \in Ids("certificationRequests"), to \in {"APPROVED", "REJECTED"} :
    \E u \in db.certificationRequests[r].reviewers :
      /\ Room("certificationDecisions")
      /\ Look(w, [at |-> "decisions", id |-> r, row |-> db.certificationRequests[r],
                  decision |-> [request |-> r, reviewer |-> u, decision |-> to]])

Verdict(j) ==
  PutRequest(j.id, [Bumped(j.row) EXCEPT !.status = j.decision.decision])

Verdicts(j) == <<NewDecision(j.decision), Verdict(j)>>

Decided(r, u) ==
  \E x \in Ids("certificationDecisions") :
    db.certificationDecisions[x].request = r /\ db.certificationDecisions[x].reviewer = u

ReadDecisions(w) ==
  /\ At(w, "decisions")
  /\ IF Decided(job[w].id, job[w].decision.reviewer) THEN GiveUp(w)
     ELSE Decide(w, Verdicts(job[w]))

IssuableUnlessRejected == {"PENDING", "APPROVED"}

Issuable == {"APPROVED"}

Issue(w) ==
  \E r \in Ids("certificationRequests") :
    /\ InStatus("certificationRequests", r, Issuable)
    /\ Look(w, [at |-> "issued", row |-> [request |-> r,
                                          milestone |-> db.certificationRequests[r].milestone]])

ReadIssued(w) ==
  /\ At(w, "issued")
  /\ IF \E x \in Ids("digitalCertifications") :
          db.digitalCertifications[x].request = job[w].row.request
     THEN GiveUp(w) ELSE Then(w, [at |-> "number", row |-> job[w].row])

NumberCertificate(w) ==
  /\ At(w, "number")
  /\ Decide(w, <<NewCertificate([request |-> job[w].row.request, milestone |-> job[w].row.milestone,
                      number |-> Len(db.digitalCertifications) + 1])>>)

----------------------------------------------------------------------------
(* Engine 10.  A trigger names any milestone and any definition.           *)
DefineTrigger(w) ==
  \E m \in Ids("governedMilestones"), d \in Ids("dodVersions"), certified \in BOOLEAN :
    /\ Room("paymentTriggerDefinitions")
    /\ Ask(w, <<NewTrigger([milestone |-> m, definition |-> d, certified |-> certified])>>)

(* evaluate, which propose calls first.                                    *)
Propose(w) ==
  \E t \in Ids("paymentTriggerDefinitions"), k \in Keys :
    /\ Room("paymentAuthorizationProposals")
    /\ Look(w, [at |-> "evaluation", trigger |-> t, key |-> k])

Passed(t) ==
  LET trigger == db.paymentTriggerDefinitions[t]
  IN \E e \in Ids("dodEvaluations") :
       db.dodEvaluations[e] = [milestone |-> trigger.milestone,
                               definition |-> trigger.definition, passed |-> TRUE]

ReadEvaluation(w) ==
  /\ At(w, "evaluation")
  /\ Then(w, [at |-> "certificate", trigger |-> job[w].trigger, key |-> job[w].key,
              passed |-> Passed(job[w].trigger)])

CertificatesFor(t) ==
  {x \in Ids("digitalCertifications") :
     db.digitalCertifications[x].milestone = db.paymentTriggerDefinitions[t].milestone}

(* The first one listed; 0 when there is none.                             *)
CertificateFor(t) ==
  IF CertificatesFor(t) = {} THEN {0}
  ELSE {x \in CertificatesFor(t) : \A y \in CertificatesFor(t) : x <= y}

ReadCertificate(w) ==
  /\ At(w, "certificate")
  /\ \E x \in CertificateFor(job[w].trigger) :
       Then(w, [at |-> "key", trigger |-> job[w].trigger, key |-> job[w].key,
                passed |-> job[w].passed, certificate |-> x])

Eligible(j) ==
  /\ j.passed
  /\ db.paymentTriggerDefinitions[j.trigger].certified => j.certificate # 0

ReadKey(w) ==
  /\ At(w, "key")
  /\ LET j == job[w]
     IN IF \E x \in Ids("paymentAuthorizationProposals") :
             db.paymentAuthorizationProposals[x].key = j.key
        THEN GiveUp(w)
        ELSE Decide(w, <<NewProposal([status |-> IF Eligible(j) THEN "PROPOSED" ELSE "BLOCKED",
                trigger |-> j.trigger, certificate |-> j.certificate, key |-> j.key])>>)

(* createEscrowReleaseIntent, with a provider configured for the trigger.  *)
Release(w) ==
  \E p \in Ids("paymentAuthorizationProposals") :
    /\ Room("releaseIntents")
    /\ InStatus("paymentAuthorizationProposals", p, {"PROPOSED"})
    /\ Ask(w, <<AskProvider([proposal |-> p])>>)

----------------------------------------------------------------------------
Handle(w) ==
  \/ CreateExecution(w) \/ Transition(w) \/ Move(w) \/ Record(w)
  \/ CreateMilestone(w) \/ AddDependency(w) \/ ReadEdges(w)
  \/ Complete(w) \/ ReadPredecessors(w) \/ ReadReadiness(w)
  \/ CreateVersion(w) \/ Publish(w) \/ ReadPublished(w) \/ Evaluate(w)
  \/ RequestCertification(w) \/ DecideCertification(w) \/ ReadDecisions(w)
  \/ Issue(w) \/ ReadIssued(w) \/ NumberCertificate(w)
  \/ DefineTrigger(w) \/ Propose(w) \/ ReadEvaluation(w) \/ ReadCertificate(w) \/ ReadKey(w)
  \/ Release(w)

(* Every request is carried through to its end; and with processes that    *)
(* die at any moment in between.                                           *)
Proceed == \E w \in Workers : Handle(w) \/ Commit(w, Admits(Due(w)))
Next == Proceed \/ \E w \in Mortals : Die(w)
Spec == Empty /\ [][Next]_vars

----------------------------------------------------------------------------
(* Whatever transitions race, an execution never leaves an end state, and  *)
(* each step it takes is one the transition table has: the version refuses *)
(* the writer who read an older row (202608110011:155-170).                *)
MovesAreAllowed ==
  \A x \in Ids("governedExecutions") :
    LET from == db.governedExecutions[x].state
        to == db'.governedExecutions[x].state
    IN from # to => to \in Allowed[from]

(* The history never tells of more transitions than took place.            *)
HistoryTookPlace ==
  \A x \in Ids("governedExecutions") :
    Cardinality(HistoryOf(x)) <= db.governedExecutions[x].version

(* Requests one after another: a milestone is completed after those before *)
(* it, and the order they are in has no cycle, so all can be completed.    *)
CompletedInOrder ==
  \A m \in Ids("governedMilestones") :
    ~Completed(m) /\ Completed(m)' => \A p \in Predecessors(m) : Completed(p)

OrderIsAcyclic == \A m \in Ids("governedMilestones") : ~HasPath(m, m)

(* Requests one after another, each possibly cut short: one version of a   *)
(* milestone's definition of done is published at most.                    *)
OnePublished ==
  \A m \in Ids("governedMilestones") : Cardinality(PublishedOf(m)) <= 1

(* A request has the status some reviewer of it, other than who made it,   *)
(* decided on, and a reviewer decides once.                                *)
StatusIsDecided ==
  /\ \A r \in Ids("certificationRequests") :
       LET row == db.certificationRequests[r]
       IN row.status # "PENDING" =>
            \E x \in Ids("certificationDecisions") :
              LET d == db.certificationDecisions[x]
              IN /\ d.request = r /\ d.decision = row.status
                 /\ d.reviewer \in row.reviewers \ {row.by}
  /\ \A x, y \in Ids("certificationDecisions") :
       Key("certificationDecisions", db.certificationDecisions[x])
         = Key("certificationDecisions", db.certificationDecisions[y]) => x = y

(* A request is certified once, on a reviewer's approval, whatever other   *)
(* reviewers decide before or after; no two certificates have one number.  *)
CertifiedOnApproval ==
  \A x \in Ids("digitalCertifications") :
    LET certificate == db.digitalCertifications[x]
    IN /\ \E d \in Ids("certificationDecisions") :
            /\ db.certificationDecisions[d].request = certificate.request
            /\ db.certificationDecisions[d].decision = "APPROVED"
       /\ \A y \in Ids("digitalCertifications") \ {x} :
            /\ db.digitalCertifications[y].request # certificate.request
            /\ db.digitalCertifications[y].number # certificate.number

(* The provider is asked to release only for a trigger whose milestone met *)
(* the definition the trigger names, and, when the trigger asks for it,    *)
(* was certified.  batch-h.ts:36: "no unconditional release path exists".  *)
ReleasedWhenDue ==
  \A x \in Ids("releaseIntents") :
    LET proposal == db.paymentAuthorizationProposals[db.releaseIntents[x].proposal]
        trigger == db.paymentTriggerDefinitions[proposal.trigger]
    IN /\ \E e \in Ids("dodEvaluations") :
            LET evaluation == db.dodEvaluations[e]
            IN /\ evaluation.passed
               /\ evaluation.milestone = trigger.milestone
               /\ evaluation.definition = trigger.definition
       /\ trigger.certified =>
            \E c \in Ids("digitalCertifications") :
              db.digitalCertifications[c].milestone = trigger.milestone

(* A proposal repeated under its key is one proposal.  The same report:    *)
(* "idempotent non-custodial payment authorization proposals".             *)
ProposedOnce ==
  \A x, y \in Ids("paymentAuthorizationProposals") :
    db.paymentAuthorizationProposals[x].key = db.paymentAuthorizationProposals[y].key => x = y

----------------------------------------------------------------------------
(* Inductive invariant: what a request is about to write is still true,    *)
(* whatever others have written since it read; what it read of a row with  *)
(* a version is out of date only if its write will be refused.             *)
ApprovalOf(r) ==
  \E d \in Ids("certificationDecisions") :
    /\ db.certificationDecisions[d].request = r
    /\ db.certificationDecisions[d].decision = "APPROVED"

Backing(d, r, row) ==
  d.request = r /\ d.decision = row.status /\ d.reviewer \in row.reviewers \ {row.by}

Backed(r, row) ==
  \E x \in Ids("certificationDecisions") : Backing(db.certificationDecisions[x], r, row)

ReleaseDue(t) ==
  /\ Passed(t)
  /\ db.paymentTriggerDefinitions[t].certified => CertificatesFor(t) # {}

ReplaceSound(h) ==
  /\ h.c \in {"governedMilestones", "dodVersions", "certificationRequests"}
  /\ h.c = "dodVersions" => h.row.milestone = db.dodVersions[h.id].milestone
  /\ h.c = "certificationRequests" =>
       /\ h.row.by = db.certificationRequests[h.id].by
       /\ h.row.reviewers = db.certificationRequests[h.id].reviewers

AppendSound(h) ==
  /\ h.c # "governedExecutions"
  /\ h.c = "executionHistory" => h.row.execution \in Ids("governedExecutions")
  /\ h.c = "governedMilestones" => h.row.state = "PLANNED"
  /\ h.c = "milestoneDependencies" =>
       {h.row.pred, h.row.succ} \subseteq Ids("governedMilestones") /\ h.row.pred # h.row.succ
  /\ h.c = "dodVersions" => h.row.status = "DRAFT"
  /\ h.c = "certificationRequests" => h.row.status = "PENDING" /\ h.row.by \notin h.row.reviewers
  /\ h.c = "digitalCertifications" => ApprovalOf(h.row.request)
  /\ h.c = "paymentAuthorizationProposals" =>
       /\ h.row.trigger \in Ids("paymentTriggerDefinitions")
       /\ h.row.status = "PROPOSED" => ReleaseDue(h.row.trigger)
  /\ h.c = "releaseIntents" =>
       /\ h.row.proposal \in Ids("paymentAuthorizationProposals")
       /\ InStatus("paymentAuthorizationProposals", h.row.proposal, {"PROPOSED"})

WriteSound(h) ==
  /\ WriteTyped(h, RowType)
  /\ h.op = "replace" => ReplaceSound(h)
  /\ h.op = "append" => AppendSound(h)

(* The status of a request may wait for the decision written before it.    *)
Waits(todo, n) ==
  /\ todo[n].c = "certificationRequests" /\ todo[n].op = "replace" =>
       \/ Backed(todo[n].id, todo[n].row)
       \/ /\ n - 1 \in DOMAIN todo
          /\ todo[n - 1].op = "append" /\ todo[n - 1].c = "certificationDecisions"
          /\ Backing(todo[n - 1].row, todo[n].id, todo[n].row)
  /\ todo[n].c = "executionHistory" => n = 1

JobSound(j) ==
  /\ j.at \in {"idle", "record", "move", "edges", "predecessors", "ready", "published",
               "decisions", "issued", "number", "evaluation", "certificate", "key", "write"}
  /\ j.at = "record" => /\ j.id \in Ids("governedExecutions") /\ j.to \in ExecutionState
                        /\ j.from \in ExecutionState \cup {"none"}
  /\ j.at = "move" =>
       /\ j.id \in Ids("governedExecutions") /\ j.row \in Execution /\ j.to \in Allowed[j.row.state]
       /\ j.row.version <= db.governedExecutions[j.id].version
       /\ j.row.version = db.governedExecutions[j.id].version => j.row = db.governedExecutions[j.id]
  /\ j.at = "edges" =>
       /\ j.row \in MilestoneDependency /\ j.row.pred # j.row.succ
       /\ {j.row.pred, j.row.succ} \subseteq Ids("governedMilestones")
  /\ j.at \in {"predecessors", "ready"} =>
       j.id \in Ids("governedMilestones") /\ j.row \in MilestoneNode
  /\ j.at = "published" => /\ j.id \in Ids("dodVersions") /\ j.row \in DefinitionOfDoneVersion
                           /\ j.row.milestone = db.dodVersions[j.id].milestone
  /\ j.at = "decisions" =>
       /\ j.id \in Ids("certificationRequests") /\ j.row \in CertificationRequest
       /\ j.row.by = db.certificationRequests[j.id].by
       /\ j.row.reviewers = db.certificationRequests[j.id].reviewers
       /\ j.decision \in CertificationDecision
       /\ j.decision.request = j.id /\ j.decision.reviewer \in j.row.reviewers
  /\ j.at \in {"issued", "number"} =>
       j.row \in [request : Nat, milestone : Nat] /\ ApprovalOf(j.row.request)
  /\ j.at \in {"evaluation", "certificate", "key"} =>
       j.trigger \in Ids("paymentTriggerDefinitions") /\ j.key \in Keys
  /\ j.at \in {"certificate", "key"} => j.passed \in BOOLEAN /\ (j.passed => Passed(j.trigger))
  /\ j.at = "key" => j.certificate \in Nat /\ (j.certificate # 0 => CertificatesFor(j.trigger) # {})
  /\ j.at = "write" => /\ Listed(j.todo)
                       /\ \A n \in DOMAIN j.todo : WriteSound(j.todo[n]) /\ Waits(j.todo, n)

(* The requests that have changed an execution and not yet recorded it.    *)
Recording(j, x) ==
  \/ j.at = "record" /\ j.id = x
  \/ j.at = "write" /\ Head(j.todo).c = "executionHistory" /\ Head(j.todo).row.execution = x

Recorders(x) == {w \in Workers : Recording(job[w], x)}

HistoryCounted ==
  \A x \in Ids("governedExecutions") :
    Cardinality(HistoryOf(x)) + Cardinality(Recorders(x)) <= db.governedExecutions[x].version

TablesSound ==
  /\ StatusIsDecided /\ CertifiedOnApproval /\ ReleasedWhenDue /\ ProposedOnce
  /\ \A n \in Ids("executionHistory") :
       db.executionHistory[n].execution \in Ids("governedExecutions")
  /\ \A e \in Ids("milestoneDependencies") :
       {db.milestoneDependencies[e].pred, db.milestoneDependencies[e].succ}
         \subseteq Ids("governedMilestones")
  /\ \A r \in Ids("certificationRequests") :
       db.certificationRequests[r].by \notin db.certificationRequests[r].reviewers
  /\ \A p \in Ids("paymentAuthorizationProposals") :
       /\ db.paymentAuthorizationProposals[p].trigger \in Ids("paymentTriggerDefinitions")
       /\ InStatus("paymentAuthorizationProposals", p, {"PROPOSED"})
            => ReleaseDue(db.paymentAuthorizationProposals[p].trigger)
  /\ \A x \in Ids("releaseIntents") :
       /\ db.releaseIntents[x].proposal \in Ids("paymentAuthorizationProposals")
       /\ InStatus("paymentAuthorizationProposals", db.releaseIntents[x].proposal, {"PROPOSED"})

IInv ==
  /\ TablesTyped(RowType) /\ TablesSound /\ HistoryCounted
  /\ job = [w \in Workers |-> job[w]]
  /\ \A w \in Workers : JobSound(job[w])

(* Requests one after another: what a request read is so still.            *)
Publishing(h) == h.op = "replace" /\ h.c = "dodVersions" /\ h.row.status = "PUBLISHED"
Superseding(h, x) ==
  h.op = "replace" /\ h.c = "dodVersions" /\ h.id = x /\ h.row.status = "SUPERSEDED"

FreshAt(todo, n) ==
  /\ Publishing(todo[n]) =>
       /\ n = Len(todo)
       /\ \A x \in PublishedOf(todo[n].row.milestone) : \E k \in 1..(n - 1) : Superseding(todo[k], x)
  /\ todo[n].c = "milestoneDependencies" =>
       n = 1 /\ ~HasPath(todo[n].row.succ, todo[n].row.pred)
  /\ todo[n].c = "governedMilestones" /\ todo[n].op = "replace" =>
       n = 1 /\ AllReady(Predecessors(todo[n].id))

Fresh(j) ==
  /\ j.at = "ready" => j.preds = Predecessors(j.id)
  /\ j.at = "write" => \A n \in DOMAIN j.todo : FreshAt(j.todo, n)

PublishedApart ==
  \A x, y \in Ids("dodVersions") :
    /\ InStatus("dodVersions", x, {"PUBLISHED"}) /\ InStatus("dodVersions", y, {"PUBLISHED"})
    /\ db.dodVersions[x].milestone = db.dodVersions[y].milestone
    => x = y

SerialInv ==
  InTurn => /\ PublishedApart /\ OrderIsAcyclic
            /\ \A w \in Workers : Fresh(job[w])
=============================================================================
