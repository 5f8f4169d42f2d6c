------------------------- MODULE AgreementExecution -------------------------
(***************************************************************************)
(* Engines 14 and 15 (packages/agreement-creation): the approval of a      *)
(* document version step by step, and its signature by several signatories *)
(* whose provider calls back, repeatedly and in any order.                 *)
(*                                                                         *)
(* callback runs in one transaction, and its read of the packages locks    *)
(* them (batch-f-repository.ts:861-871): from the read to the commit no    *)
(* other request writes a package.                                         *)
(***************************************************************************)
EXTENDS Documents

CONSTANTS
  DocumentVersions,   \* documents put up for approval
  Users,              \* who requests and approves
  MaxSteps,           \* bound: steps of an approval policy
  Signers,            \* the signatories of a package
  Witnessed,          \* those of them whose signature needs a witness
  Events              \* what the provider reports, each perhaps many times

ApprovalPolicy == [steps : 1..MaxSteps]
ApprovalRequest ==
  [status : {"PENDING", "APPROVED", "REJECTED", "INVALIDATED"}, document : DocumentVersions,
   policy : Nat, requester : Users, completed : 0..MaxSteps]

ApprovalDecision ==
  [request : Nat, step : Nat, approver : Users, decision : {"APPROVE", "REJECT"}]

SignaturePackage ==
  [status : {"DRAFT", "SENT", "PARTIALLY_SIGNED", "COMPLETED", "DECLINED"},
   request : Nat, signed : SUBSET Signers, witnessed : SUBSET Signers]

SignatureCallback == [event : Events, package : Nat]
ExecutionCertificate == [status : {"VALID", "REVOKED"}, package : Nat]

RowType ==
  [approvalPolicies |-> ApprovalPolicy, approvalRequests |-> ApprovalRequest,
   approvalDecisions |-> ApprovalDecision, signaturePackages |-> SignaturePackage,
   signatureCallbacks |-> SignatureCallback,
   agreementExecutionCertificates |-> ExecutionCertificate]

ExecutionAssumption ==
  /\ Witnessed \subseteq Signers
  /\ \A e \in Events : e.act \in {"SIGNED", "WITNESSED", "DECLINED"}
  /\ Workers # {} /\ Mortals \subseteq Workers /\ Collections = DOMAIN RowType /\ MaxSteps \in Nat

TypeOK == \A c \in Collections : \A x \in Ids(c) : db[c][x] \in RowType[c]

----------------------------------------------------------------------------
(* The tables.                                                             *)
NewPolicy(row) == New("approvalPolicies", row)
PutRequest(x, row) == Put("approvalRequests", x, row)
NewDecision(row) == New("approvalDecisions", row)
PutPackage(x, row) == Put("signaturePackages", x, row)
NewCallback(row) == New("signatureCallbacks", row)
PutCertificate(x, to) == Set("agreementExecutionCertificates", x, to)

Closed(h) ==
  h.c = "signaturePackages" /\ InStatus(h.c, h.id, {"COMPLETED", "DECLINED"})

(* One decision per step of a request, one use of an event, one            *)
(* certificate per package.                                                *)
KeyFree(h) ==
  \A x \in Ids(h.c) :
    LET row == db[h.c][x]
    IN CASE h.c = "approvalDecisions" -> <<row.request, row.step>> # <<h.row.request, h.row.step>>
         [] h.c = "signatureCallbacks" -> row.event # h.row.event
         [] h.c = "agreementExecutionCertificates" -> row.package # h.row.package
         [] OTHER -> TRUE

Admits(h) == IF h.op = "append" THEN KeyFree(h) ELSE ~Closed(h)

----------------------------------------------------------------------------
(* Engine 14.                                                              *)
Policy(w) ==
  \E n \in 1..MaxSteps : Room("approvalPolicies") /\ Ask(w, <<NewPolicy([steps |-> n])>>)

Route(w) ==
  \E p \in Ids("approvalPolicies"), d \in DocumentVersions, u \in Users :
    /\ Room("approvalRequests")
    /\ Ask(w, <<New("approvalRequests", [status |-> "PENDING", document |-> d, policy |-> p,
                                         requester |-> u, completed |-> 0])>>)

(* That the approver has the role and the assurance of the step is what    *)
(* the caller passes.                                                      *)
Approver(r, u) == u # r.requester

Decided(r, decision) ==
  IF decision = "REJECT" THEN "REJECTED"
  ELSE IF r.completed + 1 = db.approvalPolicies[r.policy].steps THEN "APPROVED"
  ELSE "PENDING"

CountedIfApproved(r, decision) ==
  [r EXCEPT !.completed = IF decision = "APPROVE" THEN @ + 1 ELSE @,
            !.status = Decided(r, decision)]

Counted(r, decision) == [r EXCEPT !.completed = @ + 1, !.status = Decided(r, decision)]

DecideRequest(w) ==
  \E x \in Ids("approvalRequests"), u \in Users, d \in {"APPROVE", "REJECT"} :
    LET r == db.approvalRequests[x]
    IN /\ Room("approvalDecisions")
       /\ r.status = "PENDING"
       /\ Approver(r, u)
       /\ Ask(w, <<NewDecision([request |-> x, step |-> r.completed, approver |-> u,
                                decision |-> d]),
                   PutRequest(x, Counted(r, d))>>)

(* invalidateOnChange, of a document whose content is no longer the same.  *)
InvalidateOnChange(w) ==
  \E x \in Ids("approvalRequests") :
    Ask(w, <<PutRequest(x, [db.approvalRequests[x] EXCEPT !.status = "INVALIDATED"])>>)

----------------------------------------------------------------------------
(* Engine 15.  The document is the one of the approval, which never        *)
(* changes.                                                                *)
Approved(x) == InStatus("approvalRequests", x, {"APPROVED"})

CreatePackage(w) ==
  \E x \in Ids("approvalRequests") :
    /\ Room("signaturePackages")
    /\ Approved(x)
    /\ Ask(w, <<New("signaturePackages",
                    [status |-> "DRAFT", request |-> x, signed |-> {}, witnessed |-> {}])>>)

(* send: read, ask the provider to send, write.                            *)
Send(w) ==
  \E x \in Ids("signaturePackages") :
    /\ InStatus("signaturePackages", x, {"DRAFT"})
    /\ Ask(w, <<PutPackage(x, [db.signaturePackages[x] EXCEPT !.status = "SENT"])>>)

Consumed(e) == \E x \in Ids("signatureCallbacks") : db.signatureCallbacks[x].event = e

(* The transaction of callback begins: a replay is answered at once.       *)
Callback(w) ==
  \E e \in Events, x \in Ids("signaturePackages") :
    /\ Room("signatureCallbacks")
    /\ ~Consumed(e)
    /\ Look(w, [at |-> "lock", event |-> e, package |-> x])

Locking(w) == At(w, "merge")
Free(w) == \A v \in Workers \ {w} : ~Locking(v)

LockPackages(w) ==
  /\ At(w, "lock")
  /\ Free(w)
  /\ LET p == job[w].package
     IN IF InStatus("signaturePackages", p, {"COMPLETED", "DECLINED"}) THEN GiveUp(w)
        ELSE Then(w, [at |-> "merge", event |-> job[w].event, package |-> p,
                      row |-> db.signaturePackages[p]])

(* Whom an event is about: callback does not ask whether its user is one   *)
(* of the signatories, and finds nobody to mark if he is not.              *)
Concerned(e) == {e.user} \cap Signers

MergedOver(row, e) ==
  IF e.act = "DECLINED" THEN [row EXCEPT !.status = "DECLINED"]
  ELSE [row EXCEPT !.signed = Concerned(e), !.status = "PARTIALLY_SIGNED"]

Merged(row, e) ==
  LET signed == row.signed \cup (IF e.act = "SIGNED" THEN Concerned(e) ELSE {})
      witnessed == row.witnessed \cup (IF e.act = "WITNESSED" THEN Concerned(e) ELSE {})
  IN IF e.act = "DECLINED" THEN [row EXCEPT !.status = "DECLINED"]
     ELSE [row EXCEPT !.signed = signed, !.witnessed = witnessed,
                      !.status = IF signed = Signers /\ Witnessed \subseteq witnessed
                                 THEN "COMPLETED" ELSE "PARTIALLY_SIGNED"]

(* Commit of the transaction: the event used and the package written, or,  *)
(* when the event was used meanwhile, neither.                             *)
Merge(w) ==
  /\ At(w, "merge")
  /\ LET used == NewCallback([event |-> job[w].event, package |-> job[w].package])
         put == PutPackage(job[w].package, Merged(job[w].row, job[w].event))
     IN /\ db' = IF KeyFree(used) /\ Room(used.c) /\ ~Closed(put)
                 THEN [db EXCEPT ![used.c] = Append(@, used.row), ![put.c][put.id] = put.row]
                 ELSE db
        /\ Return(w)

Issue(w) ==
  \E x \in Ids("signaturePackages") :
    /\ InStatus("signaturePackages", x, {"COMPLETED"})
    /\ Look(w, [at |-> "certificates", package |-> x])

ReadCertificates(w) ==
  /\ At(w, "certificates")
  /\ IF \E x \in Ids("agreementExecutionCertificates") :
          db.agreementExecutionCertificates[x].package = job[w].package
     THEN GiveUp(w)
     ELSE Decide(w, <<New("agreementExecutionCertificates",
                          [status |-> "VALID", package |-> job[w].package])>>)

Revoke(w) ==
  \E x \in Ids("agreementExecutionCertificates") : Ask(w, <<PutCertificate(x, "REVOKED")>>)

----------------------------------------------------------------------------
Handle(w) ==
  \/ Policy(w) \/ Route(w) \/ DecideRequest(w) \/ InvalidateOnChange(w)
  \/ CreatePackage(w) \/ Send(w) \/ Callback(w) \/ Issue(w) \/ Revoke(w)

(* A write of a package waits for a callback that has locked it.           *)
Write(w) ==
  /\ At(w, "write")
  /\ job[w].todo[1].c = "signaturePackages" => Free(w)
  /\ Commit(w, Admits(Due(w)))

Continue(w) == LockPackages(w) \/ Merge(w) \/ ReadCertificates(w) \/ Write(w)

(* Every request is carried through to its end; and with processes that    *)
(* die at any moment in between.                                           *)
Proceed == \E w \in Workers : Handle(w) \/ Continue(w)
Next == Proceed \/ \E w \in Mortals : Die(w)
Spec == Empty /\ [][Next]_vars

----------------------------------------------------------------------------
(* AGREEMENT_CREATION_SECURITY.md:3: an approved request has, for each     *)
(* step of its policy, one approval by somebody who is not the requester,  *)
(* whatever was decided and invalidated at once and wherever a decision    *)
(* was cut off.                                                            *)
ApprovedByAll ==
  \A x \in Ids("approvalRequests") :
    LET r == db.approvalRequests[x]
    IN r.status = "APPROVED" =>
         \A n \in 0..(db.approvalPolicies[r.policy].steps - 1) :
           \E d \in Ids("approvalDecisions") :
             /\ db.approvalDecisions[d].request = x
             /\ db.approvalDecisions[d].step = n
             /\ db.approvalDecisions[d].decision = "APPROVE"
             /\ db.approvalDecisions[d].approver # r.requester

(* A certificate of execution stands on signatures of everybody: the       *)
(* package it names is complete and stays so, in any order of callbacks,   *)
(* sends and crashes.                                                      *)
CertifiedFullySigned ==
  \A x \in Ids("agreementExecutionCertificates") :
    LET p == db.signaturePackages[db.agreementExecutionCertificates[x].package]
    IN p.signed = Signers /\ Witnessed \subseteq p.witnessed

(* One certificate per package, revoked or not.                            *)
OneCertificate ==
  \A x, y \in Ids("agreementExecutionCertificates") :
    db.agreementExecutionCertificates[x].package = db.agreementExecutionCertificates[y].package
      => x = y

(* batch-f-repository.ts:862-867: of two callbacks for different           *)
(* signatories none erases the other's signature.  A late send can.        *)
CallbackKeepsSignatures ==
  \A x \in Ids("signaturePackages") :
    db'.signaturePackages[x].status # "SENT"
      => /\ db.signaturePackages[x].signed \subseteq db'.signaturePackages[x].signed
         /\ db.signaturePackages[x].witnessed \subseteq db'.signaturePackages[x].witnessed

(* An event is used once, and what it reports is in the package it was     *)
(* used for: redeliveries change nothing, and nothing used is lost         *)
(* (index.ts:837-845).  An event of somebody who is no signatory is used   *)
(* too, and reports no signature.                                          *)
UsedIsKept ==
  \A x \in Ids("signatureCallbacks") :
    LET e == db.signatureCallbacks[x].event
        p == db.signaturePackages[db.signatureCallbacks[x].package]
    IN /\ e.act = "SIGNED" => Concerned(e) \subseteq p.signed
       /\ e.act = "WITNESSED" => Concerned(e) \subseteq p.witnessed
       /\ e.act = "DECLINED" => p.status = "DECLINED"

(* Requests one after another, none of which dies: the decisions of a      *)
(* request are those it has counted, so that the next step can be decided. *)
DecisionsCounted ==
  Quiet => \A x \in Ids("approvalRequests") :
             db.approvalRequests[x].completed =
               Cardinality({d \in Ids("approvalDecisions") : db.approvalDecisions[d].request = x})

(* Requests one after another: a package is made of a document whose       *)
(* approval is in force.                                                   *)
PackagedWhenApproved ==
  Len(db'.signaturePackages) > Len(db.signaturePackages)
  => InStatus("approvalRequests",
              db'.signaturePackages[Len(db'.signaturePackages)].request, {"APPROVED"})

----------------------------------------------------------------------------
(* Inductive invariant: a request that is pending or approved has, for     *)
(* each step it counts, an approval by somebody else; a package that is    *)
(* complete is signed by all, and certificates are of such; who holds the  *)
(* lock has the package as it is in the table.  A decision that is written *)
(* before it is counted makes its request true only with itself.           *)
Granted(x, n, u) ==
  \E d \in Ids("approvalDecisions") :
    LET a == db.approvalDecisions[d]
    IN a.request = x /\ a.step = n /\ a.decision = "APPROVE" /\ a.approver # u

Earned(x, r, steps) ==
  /\ r.policy \in Ids("approvalPolicies")
  /\ r.status = "PENDING" => r.completed < db.approvalPolicies[r.policy].steps
  /\ r.status = "APPROVED" => r.completed = db.approvalPolicies[r.policy].steps
  /\ r.status \in {"PENDING", "APPROVED"} => \A n \in 0..(steps - 1) : Granted(x, n, r.requester)

FullySigned(p) == p.signed = Signers /\ Witnessed \subseteq p.witnessed
Complete(x) == x \in Ids("signaturePackages") /\ InStatus("signaturePackages", x, {"COMPLETED"})

WriteSound(h) ==
  /\ WriteTyped(h, RowType) /\ h.c # "signatureCallbacks"
  /\ h.op = "replace" =>
       h.c \in {"approvalRequests", "signaturePackages", "agreementExecutionCertificates"}
  /\ h.c = "approvalRequests" =>
       IF h.op = "append" THEN h.row.completed = 0 /\ Earned(0, h.row, 0)
       ELSE Earned(h.id, h.row, h.row.completed)
  /\ h.c = "approvalDecisions" => h.row.request \in Ids("approvalRequests")
  /\ h.c = "signaturePackages" => h.row.status = IF h.op = "append" THEN "DRAFT" ELSE "SENT"
  /\ h.c = "agreementExecutionCertificates" =>
       /\ Complete(h.row.package)
       /\ h.op = "replace" => h.row.package = db.agreementExecutionCertificates[h.id].package

Counts(h, g) ==
  /\ WriteSound(h) /\ h.c = "approvalDecisions"
  /\ WriteTyped(g, RowType) /\ g.c = "approvalRequests" /\ g.op = "replace"
  /\ g.id = h.row.request /\ g.row.completed = h.row.step + 1
  /\ Earned(g.id, g.row, h.row.step)
  /\ g.row.status \in {"PENDING", "APPROVED"} =>
       h.row.decision = "APPROVE" /\ h.row.approver # g.row.requester

JobSound(j) ==
  /\ j.at \in {"idle", "lock", "merge", "certificates", "write"}
  /\ j.at \in {"lock", "merge"} => j.event \in Events /\ j.package \in Ids("signaturePackages")
  /\ j.at = "merge" => j.row = db.signaturePackages[j.package]
  /\ j.at = "certificates" => Complete(j.package)
  /\ j.at = "write" =>
       \/ j.todo = <<j.todo[1]>> /\ WriteSound(j.todo[1]) /\ j.todo[1].c # "approvalDecisions"
       \/ j.todo = <<j.todo[1], j.todo[2]>> /\ Counts(j.todo[1], j.todo[2])

RowsSound ==
  /\ \A x \in Ids("approvalRequests") :
       LET r == db.approvalRequests[x] IN Earned(x, r, r.completed)
  /\ \A d \in Ids("approvalDecisions") : db.approvalDecisions[d].request \in Ids("approvalRequests")
  /\ \A x \in Ids("signatureCallbacks") :
       db.signatureCallbacks[x].package \in Ids("signaturePackages")
  /\ \A x \in Ids("signaturePackages") : Complete(x) => FullySigned(db.signaturePackages[x])
  /\ \A x \in Ids("agreementExecutionCertificates") :
       Complete(db.agreementExecutionCertificates[x].package)

IInv ==
  /\ TablesTyped(RowType) /\ RowsSound /\ OneCertificate
  /\ \A v, w \in Workers : Locking(v) /\ Locking(w) => v = w
  /\ job = [w \in Workers |-> job[w]]
  /\ \A w \in Workers : JobSound(job[w])

(* While requests come in turn, what a request read is so until it writes, *)
(* and if none dies a decision that was written will be counted.           *)
Counting(j, x) ==
  /\ j.at = "write" /\ j.todo = <<j.todo[1]>>
  /\ j.todo[1].c = "approvalRequests" /\ j.todo[1].op = "replace" /\ j.todo[1].id = x

DecisionsOn(x) == {d \in Ids("approvalDecisions") : db.approvalDecisions[d].request = x}

Current(j) ==
  j.at = "write" =>
    LET h == j.todo[1]
    IN /\ h.c = "signaturePackages" =>
            IF h.op = "append" THEN h.row.request \in Ids("approvalRequests") /\ Approved(h.row.request)
            ELSE /\ h.row.signed = db.signaturePackages[h.id].signed
                 /\ h.row.witnessed = db.signaturePackages[h.id].witnessed
       /\ h.c = "approvalDecisions" => h.row.step = db.approvalRequests[h.row.request].completed

SerialInv ==
  InTurn =>
    /\ UsedIsKept
    /\ \A w \in Workers : Current(job[w])
    /\ Deathless => \A x \in Ids("approvalRequests") : \A w \in Workers :
         Cardinality(DecisionsOn(x)) =
           IF Counting(job[w], x) THEN job[w].todo[1].row.completed
           ELSE db.approvalRequests[x].completed
=============================================================================
