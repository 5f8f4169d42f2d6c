-------------------------- MODULE PaymentExecution --------------------------
(***************************************************************************)
(* Engines 47 and 48 (packages/settlement-execution): payment instructions *)
(* issued under an idempotency key, submitted to the financial provider,   *)
(* refreshed from what it reports and reversed; the ledger and its         *)
(* reconciliation.  The provider is called between the read of an          *)
(* instruction and the write that records the answer.                      *)
(***************************************************************************)
EXTENDS Requests

CONSTANTS
  Instructions,  \* identifiers of instructions
  Keys,          \* idempotency keys
  Payloads,      \* digests of what a payment says: beneficiary, amount, provider
  Releases,      \* release requests
  ReleaseOf,     \* ReleaseOf[p]: the release request that payload p names
  Statements,    \* references of provider statements
  MaxCalls       \* bound: calls of submitPayment under one key, and ledger postings

PaymentAssumption ==
  /\ ReleaseOf \in [Payloads -> Releases]
  /\ MaxCalls \in Nat \ {0}

VARIABLES
  instr,       \* paymentInstructions
  journal,     \* how many balanced journals the ledger holds per instruction
  matched,     \* reconciliationRecords: <<instruction, statement>> to matched
  held,        \* release requests under an active dispute hold (written by Engine 49)
  provider,    \* the provider's payment under a key, see ProviderStates
  asked,       \* the payloads it was asked to pay under a key
  calls,       \* how often it was asked
  reported     \* the states it has reported of a key

records == <<instr, journal, matched>>
gateway == <<provider, asked, calls, reported>>
vars    == <<records, gateway, held, job>>

Statuses == {"none", "DRAFT", "SUBMITTED", "SETTLED", "FAILED", "REVERSED"}
ProviderStates == {"none", "PENDING", "SETTLED", "FAILED", "REVERSED"}
None == "none"

Instr == [status : Statuses, key : Keys \cup {None}, payload : Payloads \cup {None},
          attempts : Nat]

NoInstr == [status |-> "none", key |-> None, payload |-> None, attempts |-> 0]

Calls == {"issue", "submit", "reject", "accept", "refresh", "write", "reconcile"}

Jobs ==
  [at : {"issue"}, key : Keys, payload : Payloads]
  \cup [at : {"submit", "reject", "accept", "refresh", "write"}, id : Instructions, row : Instr]
  \cup [at : {"reconcile"}, id : Instructions, statement : Statements, equal : BOOLEAN]

TypeOK ==
  /\ instr \in [Instructions -> Instr]
  /\ journal \in [Instructions -> Nat]
  /\ matched \in [Instructions \X Statements -> {"none", "yes", "no"}]
  /\ held \subseteq Releases
  /\ provider \in [Keys -> ProviderStates]
  /\ asked \in [Keys -> SUBSET Payloads]
  /\ calls \in [Keys -> Nat]
  /\ reported \in [Keys -> SUBSET ProviderStates]
  /\ Carrying(Calls, Jobs)

Init ==
  /\ instr = [i \in Instructions |-> NoInstr]
  /\ journal = [i \in Instructions |-> 0]
  /\ matched = [r \in Instructions \X Statements |-> "none"]
  /\ held = {}
  /\ provider = [k \in Keys |-> "none"]
  /\ asked = [k \in Keys |-> {}]
  /\ calls = [k \in Keys |-> 0]
  /\ reported = [k \in Keys |-> {}]
  /\ job = [w \in Workers |-> Idle]

Issued == {i \in Instructions : instr[i].status # "none"}

----------------------------------------------------------------------------
(* The table payment_instructions.  A key is used by one instruction, and  *)
(* a trigger refuses an instruction for a release request under a hold.    *)
InsertableTwice(k, p) == ReleaseOf[p] \notin held

Insertable(k, p) ==
  /\ \A i \in Issued : instr[i].key # k
  /\ ReleaseOf[p] \notin held

(* UPDATE writes status, reference and attempts, and only REVERSED is      *)
(* terminal: a stale row may undo SUBMITTED or SETTLED.                    *)
PutInstr(i, row) ==
  /\ instr[i].status # "REVERSED"
  /\ instr' = [instr EXCEPT ![i].status = row.status, ![i].attempts = row.attempts]

(* The provider's answers.  It treats a repeated key as the same payment   *)
(* while that is pending or settled, as the deterministic adapter does by  *)
(* deriving its reference from the key.                                    *)
Accepts(k) ==
  provider' = [provider EXCEPT ![k] = IF @ \in {"none", "FAILED"} THEN "PENDING" ELSE @]

Rejects(k) == provider[k] \in {"none", "FAILED"} /\ UNCHANGED provider

ProviderSettles ==
  /\ \E k \in Keys :
       \/ provider[k] = "PENDING"
            /\ \E s \in {"SETTLED", "FAILED"} : provider' = [provider EXCEPT ![k] = s]
       \/ provider[k] = "SETTLED" /\ provider' = [provider EXCEPT ![k] = "REVERSED"]
  /\ UNCHANGED <<records, asked, calls, reported, held, job>>

----------------------------------------------------------------------------
Room == Cardinality(Instructions \ Issued) > Cardinality({w \in Workers : At(w, "issue")})

(* A key that is known returns its instruction or is refused; either way   *)
(* nothing changes.  That the caller is authorised is the caller's claim.  *)
Issue(w) ==
  /\ Room
  /\ \E k \in Keys, p \in Payloads :
       /\ \A i \in Issued : instr[i].key # k
       /\ Receive(w, [at |-> "issue", key |-> k, payload |-> p])
  /\ UNCHANGED <<records, gateway, held>>

InsertInstruction(w) ==
  /\ At(w, "issue")
  /\ LET j == job[w]
     IN \/ /\ Insertable(j.key, j.payload)
           /\ \E i \in Instructions \ Issued :
                instr' = [instr EXCEPT ![i] = [status |-> "DRAFT", key |-> j.key,
                                               payload |-> j.payload, attempts |-> 0]]
        \/ ~Insertable(j.key, j.payload) /\ UNCHANGED instr
  /\ Return(w)
  /\ UNCHANGED <<journal, matched, gateway, held>>

Submittable(i) == instr[i].status \in {"DRAFT", "FAILED"}

Submit(w) ==
  /\ \E i \in Instructions :
       /\ Submittable(i)
       /\ Receive(w, [at |-> "submit", id |-> i, row |-> instr[i]])
  /\ UNCHANGED <<records, gateway, held>>

Counted(row) == [row EXCEPT !.attempts = @ + 1]

SubmitPayment(w) ==
  /\ At(w, "submit")
  /\ LET j == job[w]
         k == j.row.key
     IN /\ calls[k] < MaxCalls
        /\ calls' = [calls EXCEPT ![k] = @ + 1]
        /\ asked' = [asked EXCEPT ![k] = @ \cup {j.row.payload}]
        /\ \/ Accepts(k) /\ Carry(w, [j EXCEPT !.at = "accept"])
           \/ Rejects(k) /\ Carry(w, [j EXCEPT !.at = "reject"])
  /\ UNCHANGED <<records, reported, held>>

(* The row written after a rejection; submit then throws.                  *)
Failed(row) == [Counted(row) EXCEPT !.status = "FAILED"]

Submitted(row) == [Counted(row) EXCEPT !.status = "SUBMITTED"]

(* The two ways submit records the answer of the provider.                 *)
RecordAnswer(w) ==
  /\ \/ At(w, "reject") /\ (\/ PutInstr(job[w].id, Failed(job[w].row))
                            \/ instr[job[w].id].status = "REVERSED" /\ UNCHANGED instr)
     \/ At(w, "accept") /\ (\/ PutInstr(job[w].id, Submitted(job[w].row))
                            \/ instr[job[w].id].status = "REVERSED" /\ UNCHANGED instr)
  /\ Return(w)
  /\ UNCHANGED <<journal, matched, gateway, held>>

Refresh(w) ==
  /\ \E i \in Instructions :
       /\ instr[i].status = "SUBMITTED"
       /\ Receive(w, [at |-> "refresh", id |-> i, row |-> instr[i]])
  /\ UNCHANGED <<records, gateway, held>>

GetStatus(w) ==
  /\ At(w, "refresh")
  /\ LET j == job[w]
         s == provider[j.row.key]
     IN /\ reported' = [reported EXCEPT ![j.row.key] = @ \cup {s}]
        /\ IF s = "PENDING" THEN Return(w)
           ELSE Carry(w, [at |-> "write", id |-> j.id, row |-> [j.row EXCEPT !.status = s]])
  /\ UNCHANGED <<records, provider, asked, calls, held>>

(* A reversal asks nobody but the operator.                                *)
Reverse(w) ==
  /\ \E i \in Instructions :
       /\ instr[i].status = "SETTLED"
       /\ Receive(w, [at |-> "write", id |-> i, row |-> [instr[i] EXCEPT !.status = "REVERSED"]])
  /\ UNCHANGED <<records, gateway, held>>

WriteStatus(w) ==
  /\ At(w, "write")
  /\ \/ PutInstr(job[w].id, job[w].row)
     \/ instr[job[w].id].status = "REVERSED" /\ UNCHANGED instr
  /\ Return(w)
  /\ UNCHANGED <<journal, matched, gateway, held>>

(* Debit and credit of one transaction; the balance is checked at commit.  *)
Post(w) ==
  /\ At(w, "idle")
  /\ \E i \in Issued :
       /\ journal[i] < MaxCalls
       /\ journal' = [journal EXCEPT ![i] = @ + 1]
  /\ UNCHANGED <<instr, matched, gateway, held, job>>

Reconcile(w) ==
  /\ \E i \in Issued, s \in Statements, e \in BOOLEAN :
       Receive(w, [at |-> "reconcile", id |-> i, statement |-> s, equal |-> e])
  /\ UNCHANGED <<records, gateway, held>>

(* A statement is reconciled once with an instruction (unique constraint). *)
InsertReconciliation(w) ==
  /\ At(w, "reconcile")
  /\ LET r == <<job[w].id, job[w].statement>>
     IN matched' = IF matched[r] # "none" THEN matched
                   ELSE [matched EXCEPT ![r] = IF job[w].equal THEN "yes" ELSE "no"]
  /\ Return(w)
  /\ UNCHANGED <<instr, journal, gateway, held>>

Die(w) == Crash(w) /\ UNCHANGED <<records, gateway, held>>

Handle(w) ==
  \/ Issue(w) \/ InsertInstruction(w) \/ Submit(w) \/ SubmitPayment(w) \/ RecordAnswer(w)
  \/ Refresh(w) \/ GetStatus(w) \/ Reverse(w) \/ WriteStatus(w)
  \/ Post(w) \/ Reconcile(w) \/ InsertReconciliation(w)

Next == ProviderSettles \/ \E w \in Workers : Handle(w) \/ Die(w)
Spec == Init /\ [][Next]_vars

----------------------------------------------------------------------------
(* Everything the provider is asked to pay under a key is the same         *)
(* payment, whichever requests issue and submit it at once.                *)
OnePayloadPerKey == \A k \in Keys : Cardinality(asked[k]) <= 1

(* A settlement on record is one that the provider has reported, however   *)
(* stale the row in which it was written.                                  *)
SettlementReported ==
  \A i \in Issued : instr[i].status = "SETTLED" => "SETTLED" \in reported[instr[i].key]

(* The attempts on record never exceed the calls made: concurrent or dying *)
(* requests lose attempts, they do not invent them.                        *)
AttemptsWithinCalls == \A i \in Issued : instr[i].attempts <= calls[instr[i].key]

(* When requests come one after another and none dies, a payment that the  *)
(* provider has under way or has made is not on record as one that may be  *)
(* submitted (again).                                                      *)
RecordsFollowProvider ==
  Quiet => \A i \in Issued :
             provider[instr[i].key] \in {"PENDING", "SETTLED", "REVERSED"}
               => instr[i].status \in {"SUBMITTED", "SETTLED", "REVERSED"}
----------------------------------------------------------------------------
(* The inductive invariant.  A key belongs to one instruction, which alone *)
(* says what is asked under it; and key and payload never change.          *)
TablesSound ==
  /\ \A i, j \in Issued : instr[i].key = instr[j].key => i = j
  /\ \A i \in Issued :
       /\ instr[i].key \in Keys /\ instr[i].payload \in Payloads
       /\ instr[i].attempts <= calls[instr[i].key]
       /\ instr[i].status = "SUBMITTED" => provider[instr[i].key] # "none"
       /\ instr[i].status = "SETTLED" => "SETTLED" \in reported[instr[i].key]
  /\ \A k \in Keys :
       /\ \A p \in asked[k] : \E i \in Issued : instr[i].key = k /\ instr[i].payload = p
       /\ provider[k] # "none" => asked[k] # {}

(* What remains true of the row that a request has read, or will write.    *)
RowSound(at, row) ==
  /\ at \in {"reject", "accept"} => row.attempts < calls[row.key]
  /\ row.attempts <= calls[row.key]
  /\ at \in {"accept", "refresh"} => provider[row.key] # "none"
  /\ at = "write" =>
       /\ row.status \in {"SETTLED", "FAILED", "REVERSED"}
       /\ row.status = "SETTLED" => "SETTLED" \in reported[row.key]

CarriedSound(j) ==
  j.at \in {"submit", "reject", "accept", "refresh", "write"} =>
    /\ j.id \in Issued
    /\ j.row.key = instr[j.id].key
    /\ j.row.payload = instr[j.id].payload
    /\ RowSound(j.at, j.row)

IInv == TypeOK /\ TablesSound /\ \A w \in Workers : CarriedSound(job[w])

(* What one request at a time may rely on: the provider has not moved on   *)
(* where it rejected or failed, and a payment under way is on record, or   *)
(* about to be.                                                            *)
OnRecord(i) ==
  provider[instr[i].key] \in {"PENDING", "SETTLED", "REVERSED"}
    => instr[i].status \in {"SUBMITTED", "SETTLED", "REVERSED"}

SerialSound ==
  /\ \A w \in Workers :
       LET j == job[w]
       IN j.at = "reject" \/ (j.at = "write" /\ j.row.status = "FAILED")
            => provider[j.row.key] \in {"none", "FAILED"}
  /\ \A i \in Issued : OnRecord(i) \/ \E w \in Workers : At(w, "accept") /\ job[w].id = i
=============================================================================
