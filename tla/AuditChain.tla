------------------------------ MODULE AuditChain ------------------------------
(***************************************************************************)
(* How the Postgres store writes the audit trail                           *)
(* (packages/database/src/postgres-store.ts): one chain of hashes for each *)
(* tenant and one for events without a tenant, appended to under a lock of *)
(* the table that is held until the writer's transaction ends.  A digest   *)
(* is modelled by what it commits to: the contents of a record and of all  *)
(* those before it.  The verifiers of the audit ledger                     *)
(* (packages/audit-ledger) judge the result.                               *)
(***************************************************************************)
EXTENDS Naturals, Sequences

CONSTANTS
  Tenants,
  Platform,    \* the chain of the events of no tenant
  Events,
  Writers,
  Nobody,      \* the holder of a lock that is free
  MaxAudits    \* bound: records inserted

WritersAssumption == Nobody \notin Writers

VARIABLES
  rows,    \* rows[c]: the committed records of chain c, by position
  lock,    \* who holds trust_audit_records in EXCLUSIVE mode
  job,     \* job[w]: the transaction of writer w
  count    \* how many records were inserted; their number is their id

vars == <<rows, lock, job, count>>

Chains == Tenants \cup {Platform}
NoHash == <<>>
Hash == Seq(Events)
Digest(previous, event) == Append(previous, event)

AuditRecord == [id : Nat, event : Events, previousHash : Hash, integrityHash : Hash]

LastHash(s) == IF s = <<>> THEN NoHash ELSE s[Len(s)].integrityHash

Idle == [at |-> "idle", chain |-> Platform, position |-> 0, previousHash |-> NoHash, own |-> <<>>]

TypeOK ==
  /\ rows \in [Chains -> Seq(AuditRecord)]
  /\ lock \in Writers \cup {Nobody}
  /\ job \in [Writers ->
       [at : {"idle", "open", "locked", "read", "refused"}, chain : Chains, position : Nat,
        previousHash : Hash, own : Seq(AuditRecord)]]
  /\ count \in Nat

Init ==
  /\ rows = [c \in Chains |-> <<>>]
  /\ lock = Nobody
  /\ job = [w \in Writers |-> Idle]
  /\ count = 0

(* What writer w sees of its chain: what is committed, and its own.        *)
Seen(w) == rows[job[w].chain] \o job[w].own

(* A transaction: one call of audit, or an operation that makes several.   *)
Begin(w) ==
  /\ job[w].at = "idle"
  /\ \E c \in Chains : job' = [job EXCEPT ![w] = [Idle EXCEPT !.at = "open", !.chain = c]]
  /\ UNCHANGED <<rows, lock, count>>

LockNothing(w) ==
  /\ job[w].at = "open"
  /\ count < MaxAudits
  /\ job' = [job EXCEPT ![w].at = "locked"]
  /\ UNCHANGED <<rows, lock, count>>

Lock(w) ==
  /\ job[w].at = "open"
  /\ count < MaxAudits
  /\ lock \in {Nobody, w}
  /\ lock' = w
  /\ job' = [job EXCEPT ![w].at = "locked"]
  /\ UNCHANGED <<rows, count>>

ReadTail(w) ==
  /\ job[w].at = "locked"
  /\ job' = [job EXCEPT ![w] = [@ EXCEPT !.at = "read",
                                        !.position = Len(Seen(w)) + 1,
                                        !.previousHash = LastHash(Seen(w))]]
  /\ UNCHANGED <<rows, lock, count>>

(* A position is unique in its chain.  One that another transaction has    *)
(* inserted and not committed is waited for.                               *)
Taken(w) == job[w].position <= Len(Seen(w))

Contended(w) ==
  \E v \in Writers \ {w} :
    /\ job[v].chain = job[w].chain
    /\ job[w].position \in Len(rows[job[v].chain]) + 1 .. Len(Seen(v))

New(w, event) ==
  [id |-> count, event |-> event, previousHash |-> job[w].previousHash,
   integrityHash |-> Digest(job[w].previousHash, event)]

Extended(w, record) == [job[w] EXCEPT !.at = "open", !.own = Append(job[w].own, record)]

Insert(w) ==
  /\ job[w].at = "read"
  /\ ~Contended(w)
  /\ IF Taken(w)
     THEN job' = [job EXCEPT ![w].at = "refused"] /\ UNCHANGED count
     ELSE /\ \E event \in Events :
               job' = [job EXCEPT ![w] = Extended(w, New(w, event))]
          /\ count' = count + 1
  /\ UNCHANGED <<rows, lock>>

Released(w) == IF lock = w THEN Nobody ELSE lock

Commit(w) ==
  /\ job[w].at = "open"
  /\ job[w].own # <<>>
  /\ rows' = [rows EXCEPT ![job[w].chain] = Seen(w)]
  /\ lock' = Released(w)
  /\ job' = [job EXCEPT ![w] = Idle]
  /\ UNCHANGED count

(* The transaction fails, or its process dies.                             *)
Rollback(w) ==
  /\ job[w].at # "idle"
  /\ lock' = Released(w)
  /\ job' = [job EXCEPT ![w] = Idle]
  /\ UNCHANGED <<rows, count>>

Step(w) ==
  Begin(w) \/ Lock(w) \/ ReadTail(w) \/ Insert(w) \/ Commit(w) \/ Rollback(w)

Next == \E w \in Writers : Step(w)
Spec == Init /\ [][Next]_vars

----------------------------------------------------------------------------
(* What the audit ledger finds wrong with a chain, and where.              *)
AuditFindingKind == {"hash-mismatch", "link-broken", "genesis-linked", "duplicate-id"}

Suspicious(s, i, kind) ==
  \/ kind = "duplicate-id" /\ \E j \in 1..(i - 1) : s[j].id = s[i].id
  \/ kind = "hash-mismatch" /\ s[i].integrityHash # Digest(s[i].previousHash, s[i].event)
  \/ kind = "genesis-linked" /\ i = 1 /\ s[i].previousHash # NoHash
  \/ kind = "link-broken" /\ i # 1 /\ s[i].previousHash # s[i - 1].integrityHash

verifyAuditChain(s) ==
  {f \in [kind : AuditFindingKind, index : DOMAIN s] : Suspicious(s, f.index, f.kind)}

(* What it finds changed between two observations of a chain.              *)
HasId(s, id) == \E j \in DOMAIN s : s[j].id = id
LastWithId(s, id) ==
  CHOOSE j \in DOMAIN s : s[j].id = id /\ \A k \in DOMAIN s : s[k].id = id => k <= j

AuditSnapshotDiffKind ==
  {"record-removed", "record-reordered", "record-mutated", "record-inserted"}

Changed(before, after, i, kind) ==
  LET found == LastWithId(after, before[i].id)
  IN \/ kind = "record-removed" /\ ~HasId(after, before[i].id)
     \/ kind = "record-reordered" /\ HasId(after, before[i].id) /\ found # i
     \/ /\ kind = "record-mutated" /\ HasId(after, before[i].id)
        /\ after[found].integrityHash # before[i].integrityHash
     \/ kind = "record-inserted" /\ i \in DOMAIN after /\ ~HasId(before, after[i].id)

diffAuditSnapshots(before, after) ==
  {d \in [kind : AuditSnapshotDiffKind, index : DOMAIN before] :
     Changed(before, after, d.index, d.kind)}

----------------------------------------------------------------------------
(* However transactions interleave, end or fail, and however many records  *)
(* each inserts, the ledger finds nothing wrong with a committed chain:    *)
(* every record commits to its contents and to its predecessor.            *)
ChainsVerify == \A c \in Chains : verifyAuditChain(rows[c]) = {}

(* The lock is what makes the unique position a safeguard and no obstacle: *)
(* no audited operation fails because another one audits at that moment.   *)
NobodyRefused == \A w \in Writers : job[w].at # "refused"

(* A record that is committed is never changed, moved or removed ...       *)
CommittedStays ==
  \A c \in Chains : SubSeq(rows'[c], 1, Len(rows[c])) = rows[c]

(* ... and the ledger, which compares two observations, says so.           *)
AppendOnly == \A c \in Chains : diffAuditSnapshots(rows[c], rows'[c]) = {}
=============================================================================
