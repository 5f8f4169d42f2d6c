----------------------------- MODULE DisputeHold -----------------------------
(***************************************************************************)
(* Engines 49 and 50 (packages/settlement-execution): a dispute places a   *)
(* hold on a release request and lifts it when it closes; a settlement     *)
(* account closes when nothing is owed and no hold is active on its        *)
(* milestone, and a closed account gets one certificate.  A dispute and    *)
(* its hold are two documents, written one after the other.                *)
(***************************************************************************)
EXTENDS Requests

CONSTANTS
  Disputes,     \* identifiers of disputes; a dispute has one hold
  Releases,     \* release requests
  Milestone,    \* Milestone[r]: the milestone of release request r
  Accounts,     \* identifiers of final settlement accounts
  MaxAmount,    \* bound: amounts in minor units
  MaxFilings    \* bound: evidence and positions filed in a dispute

DisputeAssumption ==
  /\ DOMAIN Milestone = Releases
  /\ MaxAmount \in Nat \ {0}
  /\ MaxFilings \in Nat

VARIABLES
  dispute,      \* disputes: status and release request
  decided,      \* disputes with a row in disputeDecisions
  hold,         \* disputeHolds: "none", "active" or "released"
  filings,      \* how many rows of disputeEvidence and disputePositions
  account,      \* finalSettlementAccounts: status, milestone, outstanding amount
  certificates  \* financialClosureCertificates ISSUED per account

disputeVars == <<dispute, decided, hold, filings>>
accountVars == <<account, certificates>>
vars == <<disputeVars, accountVars, job>>

None == "none"
NoDispute == [status |-> "none", release |-> None]
NoAccount == [status |-> "none", milestone |-> None, owed |-> 0]
Milestones == {Milestone[r] : r \in Releases}

DisputeRec ==
  [status : {"OPEN", "DECIDED", "APPEALED", "CLOSED"}, release : Releases] \cup {NoDispute}

AccountRec ==
  [status : {"DRAFT", "CLOSED"}, milestone : Milestones, owed : 0..MaxAmount] \cup {NoAccount}

Calls ==
  {"placeHold", "file", "decision", "status", "close", "lift",
   "closeAccount", "checkIssued", "certify"}

Jobs ==
  [at : {"placeHold", "file", "decision", "close", "lift"}, id : Disputes]
  \cup [at : {"status"}, id : Disputes, to : {"DECIDED", "APPEALED"}]
  \cup [at : {"closeAccount", "checkIssued", "certify"}, id : Accounts]

TypeOK ==
  /\ dispute \in [Disputes -> DisputeRec]
  /\ decided \subseteq Disputes
  /\ hold \in [Disputes -> {"none", "active", "released"}]
  /\ filings \in [Disputes -> Nat]
  /\ account \in [Accounts -> AccountRec]
  /\ certificates \in [Accounts -> Nat]
  /\ Carrying(Calls, Jobs)

Init ==
  /\ dispute = [d \in Disputes |-> NoDispute]
  /\ decided = {}
  /\ hold = [d \in Disputes |-> "none"]
  /\ filings = [d \in Disputes |-> 0]
  /\ account = [a \in Accounts |-> NoAccount]
  /\ certificates = [a \in Accounts |-> 0]
  /\ job = [w \in Workers |-> Idle]

Raised == {d \in Disputes : dispute[d].status # "none"}
Held == {dispute[d].release : d \in {x \in Raised : hold[x] = "active"}}
HeldMilestones == {Milestone[r] : r \in Held}

(* UPDATE of a dispute writes its status; CLOSED is terminal.              *)
PutStatus(d, to) ==
  dispute' = IF dispute[d].status = "CLOSED" THEN dispute
             ELSE [dispute EXCEPT ![d].status = to]

----------------------------------------------------------------------------
(* raise: append the dispute, then its hold.                               *)
Raise(w) ==
  /\ \E d \in Disputes \ Raised, r \in Releases :
       /\ dispute' = [dispute EXCEPT ![d] = [status |-> "OPEN", release |-> r]]
       /\ Receive(w, [at |-> "placeHold", id |-> d])
  /\ UNCHANGED <<decided, hold, filings, accountVars>>

PlaceHold(w) ==
  /\ At(w, "placeHold")
  /\ hold' = [hold EXCEPT ![job[w].id] = "active"]
  /\ Return(w)
  /\ UNCHANGED <<dispute, decided, filings, accountVars>>

(* submitEvidence and submitPosition.                                      *)
File(w) ==
  /\ \E d \in Raised :
       /\ dispute[d].status # "CLOSED"
       /\ filings[d] < MaxFilings
       /\ Receive(w, [at |-> "file", id |-> d])
  /\ UNCHANGED <<disputeVars, accountVars>>

AppendFiling(w) ==
  /\ At(w, "file")
  /\ filings' = [filings EXCEPT ![job[w].id] = @ + 1]
  /\ Return(w)
  /\ UNCHANGED <<dispute, decided, hold, accountVars>>

Decide(w) ==
  /\ \E d \in Raised :
       /\ dispute[d].status = "OPEN"
       /\ Receive(w, [at |-> "decision", id |-> d])
  /\ UNCHANGED <<disputeVars, accountVars>>

(* One decision per dispute is a unique constraint.  Appended and not      *)
(* followed by the status, it leaves a dispute nobody can decide.          *)
AppendDecision(w) ==
  /\ At(w, "decision")
  /\ LET d == job[w].id
     IN IF d \in decided THEN Return(w) /\ UNCHANGED decided
        ELSE /\ decided' = decided \cup {d}
             /\ Carry(w, [at |-> "status", id |-> d, to |-> "DECIDED"])
  /\ UNCHANGED <<dispute, hold, filings, accountVars>>

Appeal(w) ==
  /\ \E d \in Raised :
       /\ dispute[d].status = "DECIDED"
       /\ Receive(w, [at |-> "status", id |-> d, to |-> "APPEALED"])
  /\ UNCHANGED <<disputeVars, accountVars>>

WriteStatus(w) ==
  /\ At(w, "status")
  /\ PutStatus(job[w].id, job[w].to)
  /\ Return(w)
  /\ UNCHANGED <<decided, hold, filings, accountVars>>

Close(w) ==
  /\ \E d \in Raised :
       /\ dispute[d].status \in {"DECIDED", "APPEALED"}
       /\ Receive(w, [at |-> "close", id |-> d])
  /\ UNCHANGED <<disputeVars, accountVars>>

(* CLOSED first, refused when it is CLOSED already, which throws; then the *)
(* hold is looked for and lifted.                                          *)
WriteClosed(w) ==
  /\ At(w, "close")
  /\ LET d == job[w].id
     IN /\ PutStatus(d, "CLOSED")
        /\ IF dispute[d].status = "CLOSED" THEN Return(w)
           ELSE Carry(w, [at |-> "lift", id |-> d])
  /\ UNCHANGED <<decided, hold, filings, accountVars>>

LiftedOfRelease(d) == {x \in Raised : dispute[x].release = dispute[d].release}

(* The holds of this dispute.                                              *)
Lifted(d) == {d}

LiftHold(w) ==
  /\ At(w, "lift")
  /\ hold' = [d \in Disputes |-> IF d \in Lifted(job[w].id) /\ hold[d] = "active"
                                 THEN "released" ELSE hold[d]]
  /\ Return(w)
  /\ UNCHANGED <<dispute, decided, filings, accountVars>>

----------------------------------------------------------------------------
(* Engine 50.                                                              *)
OpenAccount(w) ==
  /\ At(w, "idle")
  /\ \E a \in Accounts, m \in Milestones, entitled \in 1..MaxAmount, settled \in 0..MaxAmount :
       /\ account[a].status = "none"
       /\ settled <= entitled
       /\ account' = [account EXCEPT ![a] =
                        [status |-> "DRAFT", milestone |-> m, owed |-> entitled - settled]]
  /\ UNCHANGED <<disputeVars, certificates, job>>

(* That there is no open dispute is what the caller says.                  *)
CloseAccount(w) ==
  /\ \E a \in Accounts :
       /\ account[a].status = "DRAFT"
       /\ account[a].owed = 0
       /\ Receive(w, [at |-> "closeAccount", id |-> a])
  /\ UNCHANGED <<disputeVars, accountVars>>

(* CLOSED is terminal and refused by a trigger under a hold.               *)
Closable(a) ==
  /\ account[a].status = "DRAFT"
  /\ account[a].milestone \notin HeldMilestones

WriteAccountClosed(w) ==
  /\ At(w, "closeAccount")
  /\ LET a == job[w].id
     IN account' = IF Closable(a) THEN [account EXCEPT ![a].status = "CLOSED"] ELSE account
  /\ Return(w)
  /\ UNCHANGED <<disputeVars, certificates>>

IssueCertificate(w) ==
  /\ \E a \in Accounts :
       /\ account[a].status = "CLOSED"
       /\ Receive(w, [at |-> "checkIssued", id |-> a])
  /\ UNCHANGED <<disputeVars, accountVars>>

CheckIssued(w) ==
  /\ At(w, "checkIssued")
  /\ IF certificates[job[w].id] > 0 THEN Return(w)
     ELSE Carry(w, [job[w] EXCEPT !.at = "certify"])
  /\ UNCHANGED <<disputeVars, accountVars>>

(* One issued certificate per account is a partial unique index.           *)
Certifiable(a) == account[a].status = "CLOSED" /\ certificates[a] = 0

InsertCertificate(w) ==
  /\ At(w, "certify")
  /\ LET a == job[w].id
     IN certificates' = IF Certifiable(a) THEN [certificates EXCEPT ![a] = @ + 1]
                        ELSE certificates
  /\ Return(w)
  /\ UNCHANGED <<disputeVars, account>>

----------------------------------------------------------------------------
Die(w) == Crash(w) /\ UNCHANGED <<disputeVars, accountVars>>

Continue(w) ==
  \/ PlaceHold(w) \/ AppendFiling(w) \/ AppendDecision(w) \/ WriteStatus(w)
  \/ WriteClosed(w) \/ LiftHold(w)
  \/ WriteAccountClosed(w) \/ CheckIssued(w) \/ InsertCertificate(w)

Handle(w) ==
  \/ Raise(w) \/ File(w) \/ Decide(w) \/ Appeal(w) \/ Close(w)
  \/ OpenAccount(w) \/ CloseAccount(w) \/ IssueCertificate(w) \/ Continue(w)

Next == \E w \in Workers : Handle(w) \/ Die(w)
Spec == Init /\ [][Next]_vars

----------------------------------------------------------------------------
(* A hold is lifted only by the closure of its own dispute, whatever other *)
(* disputes there are of the same release request.                         *)
OnlyClosureLifts ==
  \A d \in Disputes : hold[d] = "released" => dispute[d].status = "CLOSED"

(* A dispute closes only on a decision, though three requests write its    *)
(* status from what they read before.                                      *)
ClosedOnDecision == \A d \in Disputes : dispute[d].status = "CLOSED" => d \in decided

(* A certificate is issued once, for an account that owes nothing.         *)
OneCertificate ==
  \A a \in Accounts :
    /\ certificates[a] <= 1
    /\ certificates[a] = 1 => account[a].status = "CLOSED" /\ account[a].owed = 0

(* If no process dies: between requests exactly the disputes that are not  *)
(* closed hold their release request.                                      *)
HoldFollowsDispute ==
  Quiet => \A d \in Raised : hold[d] = "active" <=> dispute[d].status # "CLOSED"
----------------------------------------------------------------------------
(* The inductive invariant.  A decision is never taken back, CLOSED is     *)
(* final, and what an account owes is fixed when it is opened.             *)
TablesSound ==
  /\ OnlyClosureLifts
  /\ \A d \in Disputes : dispute[d].status \in {"DECIDED", "APPEALED", "CLOSED"} => d \in decided
  /\ \A a \in Accounts : account[a].status = "CLOSED" => account[a].owed = 0
  /\ OneCertificate

CarriedSound(j) ==
  /\ j.at \in {"placeHold", "file", "decision", "status", "close", "lift"} => j.id \in Raised
  /\ j.at \in {"status", "close"} => j.id \in decided
  /\ j.at = "lift" => dispute[j.id].status = "CLOSED"
  /\ j.at = "closeAccount" => account[j.id].status # "none" /\ account[j.id].owed = 0

IInv == TypeOK /\ TablesSound /\ \A w \in Workers : CarriedSound(job[w])

(* What one request at a time may rely on: the hold of a dispute is as the *)
(* dispute says, or about to be.                                           *)
HoldsRight(d) == hold[d] = "active" <=> dispute[d].status # "CLOSED"

SerialSound ==
  /\ \A w \in Workers : At(w, "placeHold") => dispute[job[w].id].status # "CLOSED"
  /\ \A d \in Raised :
       HoldsRight(d) \/ \E w \in Workers : job[w].at \in {"placeHold", "lift"} /\ job[w].id = d
=============================================================================
