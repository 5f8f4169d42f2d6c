------------------------------ MODULE Settlement ------------------------------
(***************************************************************************)
(* Engines 41 to 50 on one database: authorisations, payments, funding and *)
(* release, disputes and closure.  Any worker may have a request of any    *)
(* engine.  What ties the engines together is the dispute hold: Engine 49  *)
(* writes it, and the tables of the other engines refuse money to a        *)
(* release request that is held.  So held is no variable here but what the *)
(* disputes say.  A scene gives the values of the constants: a behaviour   *)
(* plays one of the scenes, with the records and the workers of its cast.  *)
(***************************************************************************)
EXTENDS PaymentAuthority

CONSTANT Program   \* Program[s]: who and what takes part in scene s

VARIABLES
  scene,
  instr, journal, matched, provider, asked, calls, reported,            \* payments
  eligible, entitlement, invoice, commitment, reservation, release,     \* funding
  dispute, decided, hold, filings, account, certificates                \* disputes

Scenes == DOMAIN Program
Cast == [s \in Scenes |-> Program[s]]   \* for TLC, which evaluates it once

Case(s) == INSTANCE DisputeHold WITH
  Disputes <- Cast[s].disputes, Releases <- Cast[s].releases,
  Milestone <- Cast[s].milestone, Accounts <- Cast[s].accounts,
  MaxAmount <- Cast[s].maxAmount, MaxFilings <- Cast[s].maxFilings

Pay(s) == INSTANCE PaymentExecution WITH
  Instructions <- Cast[s].instructions, Keys <- Cast[s].keys,
  Payloads <- Cast[s].payloads, Releases <- Cast[s].releases,
  ReleaseOf <- Cast[s].releaseOf, Statements <- Cast[s].statements,
  MaxCalls <- Cast[s].maxCalls, held <- Case(s)!Held

Fund(s) == INSTANCE FundingRelease WITH
  Eligibilities <- Cast[s].eligibilities, Entitlements <- Cast[s].entitlements,
  Invoices <- Cast[s].invoices, Commitments <- Cast[s].commitments,
  Reservations <- Cast[s].reservations, Releases <- Cast[s].releases,
  Numbers <- Cast[s].numbers, MaxAmount <- Cast[s].maxAmount, held <- Case(s)!Held

(* Who makes requests of Engine 46, of 47 and 48, of 41 to 45, and of 49   *)
(* and 50; who may die.                                                    *)
Approvers(s) == Cast[s].approvers
Payers(s) == Cast[s].payers
Releasers(s) == Cast[s].releasers
Parties(s) == Cast[s].parties
Mortals(s) == Cast[s].mortals

Clients(s) == Approvers(s) \cup Payers(s) \cup Releasers(s) \cup Parties(s)

ASSUME SettlementAssumption ==
  \A s \in Scenes :
    /\ Clients(s) \cup Mortals(s) \subseteq Workers
    /\ Pay(s)!PaymentAssumption
    /\ Fund(s)!AmountAssumption
    /\ Case(s)!DisputeAssumption

paymentVars == <<instr, journal, matched, provider, asked, calls, reported>>
fundingVars == <<eligible, entitlement, invoice, commitment, reservation, release>>
caseVars == <<dispute, decided, hold, filings, account, certificates>>
allVars == <<scene, store, paymentVars, fundingVars, caseVars, job>>

Begin ==
  \E s \in Scenes :
    /\ scene = s
    /\ Init /\ Case(s)!Init /\ Pay(s)!Init /\ Fund(s)!Init

----------------------------------------------------------------------------
Authorize(w) == UNCHANGED <<paymentVars, fundingVars, caseVars>> /\ Handle(w)

Execute(s, w) == UNCHANGED <<store, fundingVars, caseVars>> /\ Pay(s)!Handle(w)

Release(s, w) == UNCHANGED <<store, paymentVars, caseVars>> /\ Fund(s)!Handle(w)

Dispute(s, w) == UNCHANGED <<store, paymentVars, fundingVars>> /\ Case(s)!Handle(w)

ProviderActs(s) == UNCHANGED <<store, fundingVars, caseVars>> /\ Pay(s)!ProviderSettles

Dies(w) == UNCHANGED <<store, paymentVars, fundingVars, caseVars>> /\ Crash(w)

Playing(s) == scene = s /\ UNCHANGED scene

Play ==
  \E s \in Scenes :
    /\ Playing(s)
    /\ \/ \E w \in Approvers(s) : Authorize(w)
       \/ \E w \in Payers(s) : Execute(s, w)
       \/ ProviderActs(s)
       \/ \E w \in Releasers(s) : Release(s, w)
       \/ \E w \in Parties(s) : Dispute(s, w)
       \/ \E w \in Mortals(s) : Dies(w)

Scenario == Begin /\ [][Play]_allVars

----------------------------------------------------------------------------
(* Requests come one after another and none of them dies.                  *)
InTurn(s) ==
  /\ Mortals(s) = {}
  /\ \A v, w \in Clients(s) : v = w

RecordsTyped ==
  \A s \in Scenes : scene = s =>
    TypeOK /\ Pay(s)!TypeOK /\ Fund(s)!TypeOK /\ Case(s)!TypeOK

(* However requests race, are repeated with other contents or die halfway: *)
(* a key pays one payload, an invoice number is in force once, an account  *)
(* gets one certificate.                                                   *)
OnceOnly ==
  \A s \in Scenes : scene = s =>
    /\ Pay(s)!OnePayloadPerKey
    /\ Fund(s)!OneLiveInvoice
    /\ Case(s)!OneCertificate

(* Records are not better than what they stand for, though each is written *)
(* from reads made earlier: a settlement was reported by the provider, the *)
(* attempts were made, and conditions that are met rest on an approved     *)
(* invoice for the net of a confirmed entitlement.  Of two disputes of one *)
(* milestone each lifts its own hold only, when it closes, which takes a   *)
(* decision.                                                               *)
RecordsTrue ==
  \A s \in Scenes : scene = s =>
    /\ Pay(s)!SettlementReported /\ Pay(s)!AttemptsWithinCalls
    /\ Fund(s)!MetIsBacked
    /\ Case(s)!OnlyClosureLifts /\ Case(s)!ClosedOnDecision

(* What the engines keep when requests come one after another and none     *)
(* dies: enough votes decide, a payment under way is on record as one,     *)
(* reservations stay within their commitment, and the open disputes are    *)
(* those that hold.  Each of these is a read in one call that decides on a *)
(* write in another one, or two writes that belong together.               *)
SerialPromises ==
  \A s \in Scenes : scene = s /\ InTurn(s) =>
    /\ VotesDecide
    /\ Pay(s)!RecordsFollowProvider
    /\ Fund(s)!WithinCommitment
    /\ Case(s)!HoldFollowsDispute

(* From the moment a dispute has placed its hold no instruction is issued  *)
(* for the release request, its conditions are not met, and no account of  *)
(* its milestone closes: also for a request that read before the hold came *)
(* and writes after it.                                                    *)
HeldIsKept(s) ==
  /\ \A i \in Cast[s].instructions :
       instr[i].status = "none" /\ instr'[i].status # "none"
         => Cast[s].releaseOf[instr'[i].payload] \notin Case(s)!Held
  /\ \A q \in Cast[s].releases :
       release[q].status # "CONDITIONS_MET" /\ release'[q].status = "CONDITIONS_MET"
         => q \notin Case(s)!Held
  /\ \A a \in Cast[s].accounts :
       account[a].status = "DRAFT" /\ account'[a].status = "CLOSED"
         => account[a].milestone \notin Case(s)!HeldMilestones

HoldStopsMoney == [][\A s \in Scenes : scene = s => HeldIsKept(s)]_allVars

(* SETTLEMENT_EXECUTION_SECURITY.md:3: a retried release can never         *)
(* double-instruct the provider.                                           *)
NeverInstructedTwice ==
  [][\A k \in DOMAIN calls : calls'[k] > calls[k] => provider[k] \in {"none", "FAILED"}]_allVars
=============================================================================
