--------------------------- MODULE FundingRelease ---------------------------
(***************************************************************************)
(* Engines 41-45 (packages/settlement-assurance): eligibility of a         *)
(* milestone, the entitlement computed for it, invoices against the        *)
(* entitlement, funding committed by a custodian and reserved for          *)
(* invoices, and the release request that brings them together.            *)
(***************************************************************************)
EXTENDS Requests, Integers

CONSTANTS
  Eligibilities, Entitlements, Invoices, Commitments, Reservations, Releases,
                \* identifiers of records
  Numbers,      \* invoice numbers
  MaxAmount     \* bound: amounts, in minor units

AmountAssumption == MaxAmount \in Nat \ {0}

VARIABLES
  eligible,     \* paymentEligibilities: "none", "yes" or "no"
  entitlement,  \* financialEntitlements: status and net payable
  invoice,      \* invoices
  commitment,   \* fundingCommitments
  reservation,  \* fundReservations
  release,      \* releaseRequests
  held          \* release requests under an active dispute hold (written by Engine 49)

records == <<eligible, entitlement, invoice, commitment, reservation, release>>
vars == <<records, held, job>>

Amounts == 1..MaxAmount
None == "none"
Blank == [status |-> "none"]

EntitlementRec == [status : {"DRAFT", "CONFIRMED"}, net : 0..MaxAmount]
InvoiceRec == [status : {"SUBMITTED", "MATCHED", "APPROVED", "REJECTED"},
               number : Numbers, ent : Entitlements, amount : Amounts]

CommitmentRec == [status : {"PENDING_CONFIRMATION", "CONFIRMED"}, amount : Amounts]
ReservationRec == [status : {"RESERVED", "RELEASED", "CANCELLED"},
                   com : Commitments, inv : Invoices, amount : Amounts]

ReleaseRec == [status : {"DRAFT", "CONDITIONS_MET", "BLOCKED", "CANCELLED"},
               ent : Entitlements, inv : Invoices, res : Reservations, amount : Amounts]

Calls ==
  {"entitle", "confirm", "numbers", "invoice", "invoiceStatus", "custodian", "funded",
   "sumReserved", "insertReservation", "reservationStatus",
   "readInvoice", "readReservation", "readHold", "evaluated", "cancel"}

Jobs ==
  [at : {"entitle"}, net : 0..MaxAmount]
  \cup [at : {"confirm"}, id : Entitlements, net : 0..MaxAmount]
  \cup [at : {"numbers", "invoice"}, number : Numbers, ent : Entitlements,
        amount : Amounts, net : 0..MaxAmount]
  \cup [at : {"invoiceStatus"}, id : Invoices, to : {"APPROVED", "REJECTED"}]
  \cup [at : {"custodian", "funded"}, id : Commitments]
  \cup [at : {"sumReserved", "insertReservation"}, com : Commitments, inv : Invoices,
        amount : Amounts, committed : Amounts]
  \cup [at : {"reservationStatus"}, id : Reservations, to : {"RELEASED", "CANCELLED"}]
  \cup [at : {"readInvoice", "readReservation", "readHold", "evaluated"},
        id : Releases, to : {"CONDITIONS_MET", "BLOCKED"}]
  \cup [at : {"cancel"}, id : Releases]

TypeOK ==
  /\ eligible \in [Eligibilities -> {"none", "yes", "no"}]
  /\ entitlement \in [Entitlements -> EntitlementRec \cup {Blank}]
  /\ invoice \in [Invoices -> InvoiceRec \cup {Blank}]
  /\ commitment \in [Commitments -> CommitmentRec \cup {Blank}]
  /\ reservation \in [Reservations -> ReservationRec \cup {Blank}]
  /\ release \in [Releases -> ReleaseRec \cup {Blank}]
  /\ held \subseteq Releases
  /\ Carrying(Calls, Jobs)

Init ==
  /\ eligible = [e \in Eligibilities |-> "none"]
  /\ entitlement = [e \in Entitlements |-> Blank]
  /\ invoice = [i \in Invoices |-> Blank]
  /\ commitment = [c \in Commitments |-> Blank]
  /\ reservation = [r \in Reservations |-> Blank]
  /\ release = [q \in Releases |-> Blank]
  /\ held = {}
  /\ job = [w \in Workers |-> Idle]

Free(table) == {x \in DOMAIN table : table[x].status = "none"}
Known(table) == DOMAIN table \ Free(table)
Room(table, label) ==
  Cardinality(Free(table)) > Cardinality({w \in Workers : At(w, label)})

----------------------------------------------------------------------------
(* Engine 41.  Its inputs are claims of the caller.                        *)
Assess(w) ==
  /\ At(w, "idle")
  /\ \E e \in Eligibilities, certified \in BOOLEAN, triggered \in BOOLEAN :
       /\ eligible[e] = "none"
       /\ eligible' = [eligible EXCEPT ![e] = IF certified /\ triggered THEN "yes" ELSE "no"]
  /\ UNCHANGED <<entitlement, invoice, commitment, reservation, release, held, job>>

(* Engine 42.  gross + variations - retention - tax - penalty, refused     *)
(* when negative; variations alone may be negative.                        *)
NetPayable(gross, variations, deductions) == gross + variations - deductions

Calculate(w) ==
  /\ Room(entitlement, "entitle")
  /\ \E e \in Eligibilities, gross \in Amounts, variations \in -MaxAmount..MaxAmount,
        deductions \in 0..MaxAmount :
       /\ eligible[e] = "yes"
       /\ NetPayable(gross, variations, deductions) \in 0..MaxAmount
       /\ Receive(w, [at |-> "entitle", net |-> NetPayable(gross, variations, deductions)])
  /\ UNCHANGED <<records, held>>

InsertEntitlement(w) ==
  /\ At(w, "entitle")
  /\ \E e \in Free(entitlement) :
       entitlement' = [entitlement EXCEPT ![e] = [status |-> "DRAFT", net |-> job[w].net]]
  /\ Return(w)
  /\ UNCHANGED <<eligible, invoice, commitment, reservation, release, held>>

Confirm(w) ==
  /\ \E e \in Known(entitlement) :
       /\ entitlement[e].status = "DRAFT"
       /\ Receive(w, [at |-> "confirm", id |-> e, net |-> entitlement[e].net])
  /\ UNCHANGED <<records, held>>

(* CONFIRMED is terminal: of two confirmations the second is refused.      *)
WriteConfirmed(w) ==
  /\ At(w, "confirm")
  /\ LET e == job[w].id
     IN entitlement' = IF entitlement[e].status = "CONFIRMED" THEN entitlement
                       ELSE [entitlement EXCEPT ![e].status = "CONFIRMED"]
  /\ Return(w)
  /\ UNCHANGED <<eligible, invoice, commitment, reservation, release, held>>

----------------------------------------------------------------------------
(* Engine 43.                                                              *)
Live(i) == invoice[i].status \in {"SUBMITTED", "MATCHED", "APPROVED"}

NumberFree(n) == \A i \in Invoices : Live(i) => invoice[i].number # n

MatchOf(amount, net) == IF amount = net THEN "MATCHED" ELSE "SUBMITTED"
SubmitInvoice(w) ==
  /\ Room(invoice, "invoice")
  /\ \E e \in Known(entitlement), n \in Numbers, a \in Amounts :
       /\ entitlement[e].status = "CONFIRMED"
       /\ Receive(w, [at |-> "numbers", number |-> n, ent |-> e, amount |-> a,
                      net |-> entitlement[e].net])
  /\ UNCHANGED <<records, held>>

CheckNumber(w) ==
  /\ At(w, "numbers")
  /\ IF \E i \in Invoices : Live(i) /\ invoice[i].number = job[w].number THEN Return(w)
     ELSE Carry(w, [job[w] EXCEPT !.at = "invoice"])
  /\ UNCHANGED <<records, held>>

(* One live invoice per number is a partial unique index.                  *)
InsertInvoice(w) ==
  /\ At(w, "invoice")
  /\ LET j == job[w]
     IN IF NumberFree(j.number) /\ Free(invoice) # {}
        THEN \E i \in Free(invoice) :
               invoice' = [invoice EXCEPT ![i] =
                 [status |-> MatchOf(j.amount, j.net), number |-> j.number,
                  ent |-> j.ent, amount |-> j.amount]]
        ELSE UNCHANGED invoice
  /\ Return(w)
  /\ UNCHANGED <<eligible, entitlement, commitment, reservation, release, held>>

ApproveInvoice(w) ==
  /\ \E i \in Known(invoice) :
       /\ invoice[i].status = "MATCHED"
       /\ Receive(w, [at |-> "invoiceStatus", id |-> i, to |-> "APPROVED"])
  /\ UNCHANGED <<records, held>>

RejectInvoice(w) ==
  /\ \E i \in Known(invoice) :
       /\ invoice[i].status \notin {"APPROVED", "REJECTED"}
       /\ Receive(w, [at |-> "invoiceStatus", id |-> i, to |-> "REJECTED"])
  /\ UNCHANGED <<records, held>>

Governed(row, terminal) == row.status \notin terminal

WriteInvoice(w) ==
  /\ At(w, "invoiceStatus")
  /\ LET i == job[w].id
     IN invoice' = IF Governed(invoice[i], {"APPROVED", "REJECTED"})
                   THEN [invoice EXCEPT ![i].status = job[w].to] ELSE invoice
  /\ Return(w)
  /\ UNCHANGED <<eligible, entitlement, commitment, reservation, release, held>>

----------------------------------------------------------------------------
(* Engine 44.                                                              *)
RecordCommitment(w) ==
  /\ At(w, "idle")
  /\ \E c \in Free(commitment), a \in Amounts :
       commitment' = [commitment EXCEPT ![c] = [status |-> "PENDING_CONFIRMATION", amount |-> a]]
  /\ UNCHANGED <<eligible, entitlement, invoice, reservation, release, held, job>>

ConfirmCommitment(w) ==
  /\ \E c \in Known(commitment) :
       /\ commitment[c].status = "PENDING_CONFIRMATION"
       /\ Receive(w, [at |-> "custodian", id |-> c])
  /\ UNCHANGED <<records, held>>

(* The custodian confirms, or the request throws.                          *)
AskCustodian(w) ==
  /\ At(w, "custodian")
  /\ Carry(w, [job[w] EXCEPT !.at = "funded"]) \/ Return(w)
  /\ UNCHANGED <<records, held>>

WriteCommitment(w) ==
  /\ At(w, "funded")
  /\ commitment' = [commitment EXCEPT ![job[w].id].status = "CONFIRMED"]
  /\ Return(w)
  /\ UNCHANGED <<eligible, entitlement, invoice, reservation, release, held>>

(* The sum of what is reserved of a commitment, counted in minor units:    *)
(* the first of a reservation, the second, and so on to its amount.        *)
ReservedUnits(c) ==
  {u \in Reservations \X Amounts :
     /\ reservation[u[1]].status = "RESERVED"
     /\ reservation[u[1]].com = c
     /\ u[2] <= reservation[u[1]].amount}

Reserved(c) == Cardinality(ReservedUnits(c))

Reserve(w) ==
  /\ Room(reservation, "insertReservation")
  /\ \E c \in Known(commitment), i \in Known(invoice), a \in Amounts :
       /\ commitment[c].status = "CONFIRMED"
       /\ Receive(w, [at |-> "sumReserved", com |-> c, inv |-> i, amount |-> a,
                      committed |-> commitment[c].amount])
  /\ UNCHANGED <<records, held>>

AffordsAlone(j) == j.amount <= j.committed

Affords(j) == Reserved(j.com) + j.amount <= j.committed
SumReserved(w) ==
  /\ At(w, "sumReserved")
  /\ IF Affords(job[w]) THEN Carry(w, [job[w] EXCEPT !.at = "insertReservation"])
     ELSE Return(w)
  /\ UNCHANGED <<records, held>>

InsertReservation(w) ==
  /\ At(w, "insertReservation")
  /\ \E r \in Free(reservation) :
       reservation' = [reservation EXCEPT ![r] =
         [status |-> "RESERVED", com |-> job[w].com, inv |-> job[w].inv,
          amount |-> job[w].amount]]
  /\ Return(w)
  /\ UNCHANGED <<eligible, entitlement, invoice, commitment, release, held>>

(* releaseReservation and cancelReservation.                               *)
EndReservation(w) ==
  /\ \E r \in Known(reservation), to \in {"RELEASED", "CANCELLED"} :
       /\ reservation[r].status = "RESERVED"
       /\ Receive(w, [at |-> "reservationStatus", id |-> r, to |-> to])
  /\ UNCHANGED <<records, held>>

WriteReservation(w) ==
  /\ At(w, "reservationStatus")
  /\ LET r == job[w].id
     IN reservation' = IF Governed(reservation[r], {"RELEASED", "CANCELLED"})
                       THEN [reservation EXCEPT ![r].status = job[w].to] ELSE reservation
  /\ Return(w)
  /\ UNCHANGED <<eligible, entitlement, invoice, commitment, release, held>>

----------------------------------------------------------------------------
(* Engine 45.  draft reads three records that never change in what it      *)
(* uses of them, so its reads are one step.                                *)
Draft(w) ==
  /\ At(w, "idle")
  /\ \E q \in Free(release), e \in Known(entitlement), i \in Known(invoice),
        r \in Known(reservation), full \in BOOLEAN, a \in Amounts :
       /\ full => a = entitlement[e].net
       /\ a <= reservation[r].amount
       /\ release' = [release EXCEPT ![q] =
            [status |-> "DRAFT", ent |-> e, inv |-> i, res |-> r, amount |-> a]]
  /\ UNCHANGED <<eligible, entitlement, invoice, commitment, reservation, held, job>>

Evaluate(w) ==
  /\ \E q \in Known(release), to \in {"CONDITIONS_MET", "BLOCKED"} :
       /\ release[q].status # "CANCELLED"
       /\ Receive(w, [at |-> "readInvoice", id |-> q, to |-> to])
  /\ UNCHANGED <<records, held>>

(* Each record is read by a call of its own and may be a blocker.          *)
ReadFor(w, label, next, ok) ==
  /\ At(w, label)
  /\ Carry(w, [at |-> next, id |-> job[w].id, to |-> IF ok THEN job[w].to ELSE "BLOCKED"])
  /\ UNCHANGED <<records, held>>

ReadInvoice(w) ==
  ReadFor(w, "readInvoice", "readReservation",
          invoice[release[job[w].id].inv].status = "APPROVED")

ReadReservation(w) ==
  ReadFor(w, "readReservation", "readHold",
          reservation[release[job[w].id].res].status = "RESERVED")

ReadHold(w) == ReadFor(w, "readHold", "evaluated", job[w].id \notin held)

PermittedUnderHold(q, to) == release[q].status # "CANCELLED"

(* CANCELLED is terminal, and a trigger refuses CONDITIONS_MET under an    *)
(* active hold: evaluate read the holds earlier.                           *)
Permitted(q, to) ==
  /\ release[q].status # "CANCELLED"
  /\ to = "CONDITIONS_MET" => q \notin held

PutRelease(q, to) ==
  release' = IF Permitted(q, to) THEN [release EXCEPT ![q].status = to] ELSE release

WriteEvaluation(w) ==
  /\ At(w, "evaluated")
  /\ PutRelease(job[w].id, job[w].to)
  /\ Return(w)
  /\ UNCHANGED <<eligible, entitlement, invoice, commitment, reservation, held>>

Cancel(w) ==
  /\ \E q \in Known(release) :
       /\ release[q].status # "CANCELLED"
       /\ Receive(w, [at |-> "cancel", id |-> q])
  /\ UNCHANGED <<records, held>>

WriteCancelled(w) ==
  /\ At(w, "cancel")
  /\ PutRelease(job[w].id, "CANCELLED")
  /\ Return(w)
  /\ UNCHANGED <<eligible, entitlement, invoice, commitment, reservation, held>>

----------------------------------------------------------------------------
Die(w) == Crash(w) /\ UNCHANGED <<records, held>>

Handle(w) ==
  \/ Assess(w) \/ Calculate(w) \/ InsertEntitlement(w) \/ Confirm(w) \/ WriteConfirmed(w)
  \/ SubmitInvoice(w) \/ CheckNumber(w) \/ InsertInvoice(w)
  \/ ApproveInvoice(w) \/ RejectInvoice(w) \/ WriteInvoice(w)
  \/ RecordCommitment(w) \/ ConfirmCommitment(w) \/ AskCustodian(w) \/ WriteCommitment(w)
  \/ Reserve(w) \/ SumReserved(w) \/ InsertReservation(w)
  \/ EndReservation(w) \/ WriteReservation(w)
  \/ Draft(w) \/ Evaluate(w) \/ ReadInvoice(w) \/ ReadReservation(w) \/ ReadHold(w)
  \/ WriteEvaluation(w) \/ Cancel(w) \/ WriteCancelled(w)

Next == \E w \in Workers : Handle(w) \/ Die(w)
Spec == Init /\ [][Next]_vars

----------------------------------------------------------------------------
(* Whatever requests race, two invoices in force never share a number.     *)
OneLiveInvoice ==
  \A i, k \in Invoices :
    Live(i) /\ Live(k) /\ invoice[i].number = invoice[k].number => i = k

(* Conditions met: the invoice is approved, for exactly the net of a       *)
(* confirmed entitlement, and the request asks for no more than was        *)
(* reserved, though each of these was read at another time.                *)
MetIsBacked ==
  \A q \in Known(release) :
    release[q].status = "CONDITIONS_MET" =>
      LET i == invoice[release[q].inv]
      IN /\ i.status = "APPROVED"
         /\ entitlement[i.ent].status = "CONFIRMED"
         /\ i.amount = entitlement[i.ent].net
         /\ release[q].amount <= reservation[release[q].res].amount

(* SETTLEMENT_ASSURANCE_SECURITY.md:3: reservations never oversubscribe a  *)
(* commitment.  With one request at a time they do not; two at once may.   *)
WithinCommitment ==
  \A c \in Known(commitment) : Reserved(c) <= commitment[c].amount
----------------------------------------------------------------------------
(* The inductive invariant.  What records say of each other never changes: *)
(* a confirmed entitlement and its net, the entitlement and the amount of  *)
(* an invoice, an approval, the amounts of commitments and reservations.   *)
ForTheNet(i) == invoice[i].amount = entitlement[invoice[i].ent].net

InvoicesSound ==
  \A i \in Known(invoice) :
    /\ entitlement[invoice[i].ent].status = "CONFIRMED"
    /\ invoice[i].status \in {"MATCHED", "APPROVED"} => ForTheNet(i)

ReservationsSound ==
  \A r \in Known(reservation) : reservation[r].com \in Known(commitment)

ReleasesSound ==
  \A q \in Known(release) :
    /\ release[q].inv \in Known(invoice)
    /\ release[q].res \in Known(reservation)
    /\ release[q].amount <= reservation[release[q].res].amount
    /\ release[q].status = "CONDITIONS_MET" => invoice[release[q].inv].status = "APPROVED"

TablesSound == OneLiveInvoice /\ InvoicesSound /\ ReservationsSound /\ ReleasesSound

CarriedSound(j) ==
  /\ j.at = "confirm" => j.id \in Known(entitlement)
  /\ j.at \in {"numbers", "invoice"} =>
       entitlement[j.ent].status = "CONFIRMED" /\ j.net = entitlement[j.ent].net
  /\ j.at = "invoiceStatus" =>
       j.id \in Known(invoice) /\ (j.to = "APPROVED" => ForTheNet(j.id))
  /\ j.at \in {"custodian", "funded"} => j.id \in Known(commitment)
  /\ j.at \in {"sumReserved", "insertReservation"} =>
       j.com \in Known(commitment) /\ j.committed = commitment[j.com].amount
  /\ j.at = "reservationStatus" => j.id \in Known(reservation)
  /\ j.at \in {"readInvoice", "readReservation", "readHold", "evaluated", "cancel"} =>
       j.id \in Known(release)
  /\ j.at \in {"readReservation", "readHold", "evaluated"} /\ j.to = "CONDITIONS_MET" =>
       invoice[release[j.id].inv].status = "APPROVED"

IInv == TypeOK /\ TablesSound /\ \A w \in Workers : CarriedSound(job[w])

(* What one request at a time may rely on: the sum it read is the sum.     *)
SerialSound ==
  /\ WithinCommitment
  /\ \A w \in Workers, c \in Commitments :
       At(w, "insertReservation") /\ job[w].com = c
         => Reserved(c) + job[w].amount <= job[w].committed
=============================================================================
