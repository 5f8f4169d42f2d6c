----------------------------- MODULE AuditProofs -----------------------------
(***************************************************************************)
(* The audit trail of the Postgres store stays linked, and no writer is    *)
(* refused, for any number of tenants, writers and records.  What carries  *)
(* the proof: whoever has read the tail of a chain, or has records of his  *)
(* own that are not committed, holds the lock, so the tail he read is      *)
(* still the tail.                                                         *)
(***************************************************************************)
EXTENDS AuditChain, SequenceTheorems, TLAPS

JobType ==
  [at : {"idle", "open", "locked", "read", "refused"}, chain : Chains, position : Nat,
   previousHash : Hash, own : Seq(AuditRecord)]

(* The lock is held from before the tail is read until the transaction     *)
(* ends.                                                                   *)
UnderLock ==
  \A w \in Writers : job[w].at \in {"locked", "read"} \/ job[w].own # <<>> => lock = w

(* What was read of the tail is still so.                                  *)
TailFresh ==
  \A w \in Writers :
    job[w].at = "read" =>
      /\ job[w].position = Len(Seen(w)) + 1
      /\ job[w].previousHash = LastHash(Seen(w))

(* Every record commits to its own contents and to its predecessor.        *)
Linked(s) ==
  \A i \in DOMAIN s :
    /\ s[i].integrityHash = Append(s[i].previousHash, s[i].event)
    /\ s[i].previousHash = IF i = 1 THEN NoHash ELSE s[i - 1].integrityHash

(* No two records have one id, and no id from n on is in use.              *)
Distinct(s, n) ==
  \A i \in DOMAIN s : s[i].id < n /\ \A k \in DOMAIN s : k # i => s[k].id # s[i].id

Sound(s, n) == Linked(s) /\ Distinct(s, n)

ChainsSound == \A c \in Chains : Sound(rows[c], count)

(* A writer sees a sound chain, with his own records and without.          *)
SeenSound == \A w \in Writers : Sound(Seen(w), count)

IInv == TypeOK /\ UnderLock /\ TailFresh /\ SeenSound /\ ChainsSound /\ NobodyRefused

----------------------------------------------------------------------------
(* A sequence of records stays linked when a record is appended that names *)
(* the hash of the last one, and its ids stay distinct when the record has *)
(* the next id.                                                            *)
LEMMA SoundAppend ==
  ASSUME NEW s \in Seq(AuditRecord), NEW n \in Nat, Sound(s, n), NEW r \in AuditRecord,
         r.previousHash = LastHash(s), r.integrityHash = Append(r.previousHash, r.event),
         r.id = n
  PROVE  Sound(Append(s, r), n + 1)
<1> DEFINE t == Append(s, r)
<1>1. /\ t \in Seq(AuditRecord) /\ Len(t) = Len(s) + 1 /\ Len(s) \in Nat
      /\ DOMAIN s = 1..Len(s) /\ DOMAIN t = 1..(Len(s) + 1)
      /\ \A i \in 1..Len(s) : t[i] = s[i]
      /\ t[Len(s) + 1] = r
  BY AppendProperties, LenProperties
<1>2. ASSUME NEW i \in DOMAIN t
      PROVE  /\ t[i].integrityHash = Append(t[i].previousHash, t[i].event)
             /\ t[i].previousHash = IF i = 1 THEN NoHash ELSE t[i - 1].integrityHash
  <2>1. i \in 1..(Len(s) + 1)
    BY <1>1
  <2>2. CASE i \in 1..Len(s)
    <3>1. i \in DOMAIN s /\ t[i] = s[i] /\ (i # 1 => t[i - 1] = s[i - 1])
      BY <2>2, <1>1
    <3> QED BY <3>1 DEF Sound, Linked
  <2>3. CASE i = Len(s) + 1
    <3>1. t[i] = r
      BY <2>3, <1>1
    <3>2. CASE s = <<>>
      BY <3>1, <3>2, <2>3, EmptySeq DEF LastHash
    <3>3. CASE s # <<>>
      <4>1. Len(s) \in 1..Len(s) /\ i # 1 /\ i - 1 = Len(s)
        BY <3>3, <2>3, <1>1, EmptySeq
      <4>2. t[i - 1] = s[Len(s)]
        BY <4>1, <1>1
      <4> QED BY <3>1, <3>3, <4>1, <4>2 DEF LastHash
    <3> QED BY <3>2, <3>3
  <2> QED BY <2>1, <2>2, <2>3
<1>3. ASSUME NEW i \in DOMAIN t
      PROVE  t[i].id < n + 1 /\ \A k \in DOMAIN t : k # i => t[k].id # t[i].id
  <2>1. \A k \in 1..Len(s) : t[k].id \in Nat /\ t[k].id < n
    <3> SUFFICES ASSUME NEW k \in 1..Len(s) PROVE t[k].id \in Nat /\ t[k].id < n
      OBVIOUS
    <3>1. s[k] \in AuditRecord /\ t[k] = s[k]
      BY <1>1, ElementOfSeq
    <3> QED BY <3>1, <1>1 DEF AuditRecord, Sound, Distinct
  <2>2. t[Len(s) + 1].id = n
    BY <1>1
  <2>3. \A k, l \in 1..Len(s) : k # l => t[k].id # t[l].id
    BY <1>1 DEF Sound, Distinct
  <2>4. \A k \in DOMAIN t : k \in 1..Len(s) \/ k = Len(s) + 1
    BY <1>1
  <2>5. t[i].id < n + 1
    BY <2>1, <2>2, <2>4
  <2>6. ASSUME NEW k \in DOMAIN t, k # i PROVE t[k].id # t[i].id
    BY <2>1, <2>2, <2>3, <2>4, <2>6
  <2> QED BY <2>5, <2>6
<1> QED BY <1>2, <1>3 DEF Sound, Linked, Distinct

(* Later ids leave a chain sound.                                          *)
LEMMA SoundLater ==
  ASSUME NEW s \in Seq(AuditRecord), NEW n \in Nat, NEW m \in Nat, n <= m, Sound(s, n)
  PROVE  Sound(s, m)
<1>1. \A i \in DOMAIN s : s[i].id \in Nat
  <2> SUFFICES ASSUME NEW i \in DOMAIN s PROVE s[i].id \in Nat
    OBVIOUS
  <2>1. s[i] \in AuditRecord
    BY LenProperties, ElementOfSeq
  <2> QED BY <2>1 DEF AuditRecord
<1> QED BY <1>1 DEF Sound, Distinct

(* What a writer sees are records, and without own ones what is committed. *)
LEMMA SeenTyped ==
  ASSUME TypeOK, NEW w \in Writers
  PROVE  /\ job[w] \in JobType
         /\ rows[job[w].chain] \in Seq(AuditRecord)
         /\ Seen(w) \in Seq(AuditRecord)
         /\ job[w].own = <<>> => Seen(w) = rows[job[w].chain]
<1>1. job[w] \in JobType
  BY DEF TypeOK, JobType
<1>2. rows[job[w].chain] \in Seq(AuditRecord) /\ job[w].own \in Seq(AuditRecord)
  BY <1>1 DEF TypeOK, JobType
<1> QED BY <1>1, <1>2, ConcatProperties, ConcatEmptySeq DEF Seen

LEMMA IdleTyped == Idle \in JobType /\ Idle.own = <<>> /\ Idle.at = "idle"
  BY EmptySeq DEF Idle, JobType, Chains, Hash, NoHash

LEMMA InitIInv == Init => IInv
<1> SUFFICES ASSUME Init PROVE IInv
  OBVIOUS
<1>1. TypeOK
  BY IdleTyped, EmptySeq DEF Init, TypeOK, JobType
<1>2. UnderLock /\ TailFresh /\ NobodyRefused
  BY IdleTyped DEF Init, UnderLock, TailFresh, NobodyRefused
<1>3. ChainsSound
  BY EmptySeq DEF Init, ChainsSound, Sound, Linked, Distinct
<1>4. SeenSound
  <2> SUFFICES ASSUME NEW w \in Writers PROVE Sound(Seen(w), count)
    BY DEF SeenSound
  <2>1. Seen(w) = rows[job[w].chain] /\ job[w].chain \in Chains
    BY <1>1, SeenTyped, IdleTyped DEF Init, JobType
  <2> QED BY <2>1, <1>3 DEF ChainsSound
<1> QED BY <1>1, <1>2, <1>3, <1>4 DEF IInv

----------------------------------------------------------------------------
(* A step of one writer that changes no row leaves what the others know.   *)
LEMMA OthersKeep ==
  ASSUME IInv, UNCHANGED rows, NEW w \in Writers, NEW j \in JobType,
         job' = [job EXCEPT ![w] = j], lock' \in Writers \cup {Nobody},
         count' \in Nat, count <= count',
         \A v \in Writers \ {w} : lock = v => lock' = v,
         j.at \in {"locked", "read"} \/ j.own # <<>> => lock' = w,
         j.at # "refused",
         Sound(rows[j.chain] \o j.own, count'),
         j.at = "read" => /\ j.position = Len(rows[j.chain] \o j.own) + 1
                          /\ j.previousHash = LastHash(rows[j.chain] \o j.own)
  PROVE  IInv'
<1>1. /\ job' \in [Writers -> JobType] /\ job'[w] = j
      /\ \A v \in Writers \ {w} : job'[v] = job[v]
  BY DEF IInv, TypeOK, JobType
<1>2. TypeOK'
  BY <1>1 DEF IInv, TypeOK, JobType
<1>3. UnderLock'
  BY <1>1 DEF IInv, UnderLock
<1>4. TailFresh'
  BY <1>1 DEF IInv, TailFresh, Seen
<1>5. SeenSound'
  <2> SUFFICES ASSUME NEW v \in Writers PROVE Sound(Seen(v)', count')
    BY DEF SeenSound
  <2>1. CASE v = w
    BY <1>1, <2>1 DEF Seen
  <2>2. CASE v # w
    <3>1. Seen(v)' = Seen(v) /\ Seen(v) \in Seq(AuditRecord) /\ Sound(Seen(v), count)
      BY <1>1, <2>2, SeenTyped DEF IInv, SeenSound, Seen
    <3> QED BY <3>1, SoundLater DEF IInv, TypeOK
  <2> QED BY <2>1, <2>2
<1>6. ChainsSound'
  BY SoundLater DEF IInv, TypeOK, ChainsSound
<1>7. NobodyRefused'
  BY <1>1 DEF IInv, NobodyRefused
<1> QED BY <1>2, <1>3, <1>4, <1>5, <1>6, <1>7 DEF IInv

(* An idle transaction sees the committed records of a chain.              *)
LEMMA CommittedOnly ==
  ASSUME IInv, NEW c \in Chains
  PROVE  rows[c] \o <<>> = rows[c] /\ Sound(rows[c] \o <<>>, count)
<1>1. rows[c] \in Seq(AuditRecord)
  BY DEF IInv, TypeOK
<1> QED BY <1>1, ConcatEmptySeq DEF IInv, ChainsSound

LEMMA BeginKeeps ==
  ASSUME IInv, NEW w \in Writers, Begin(w) PROVE IInv'
<1>1. PICK c \in Chains : job' = [job EXCEPT ![w] = [Idle EXCEPT !.at = "open", !.chain = c]]
  BY DEF Begin
<1> DEFINE j == [Idle EXCEPT !.at = "open", !.chain = c]
<1>2. j \in JobType /\ j.at = "open" /\ j.chain = c /\ j.own = <<>>
  BY IdleTyped DEF Idle, JobType
<1>3. Sound(rows[j.chain] \o j.own, count)
  BY <1>2, CommittedOnly
<1> HIDE DEF j
<1>4. job' = [job EXCEPT ![w] = j] /\ UNCHANGED <<rows, lock, count>>
  BY <1>1 DEF Begin, j
<1>5. count \in Nat /\ count' \in Nat /\ count <= count' /\ Sound(rows[j.chain] \o j.own, count')
  BY <1>3, <1>4 DEF IInv, TypeOK
<1> QED BY <1>2, <1>4, <1>5, OthersKeep DEF IInv, TypeOK

LEMMA LockKeeps ==
  ASSUME WritersAssumption, IInv, NEW w \in Writers, Lock(w) PROVE IInv'
<1> DEFINE j == [job[w] EXCEPT !.at = "locked"]
<1>1. j \in JobType /\ j.at = "locked" /\ j.chain = job[w].chain /\ j.own = job[w].own
  BY SeenTyped DEF IInv, JobType
<1>2. Sound(rows[j.chain] \o j.own, count)
  BY <1>1 DEF IInv, SeenSound, Seen
<1>3. \A v \in Writers \ {w} : lock # v
  BY DEF Lock, WritersAssumption
<1>4. job' = [job EXCEPT ![w] = j] /\ lock' = w /\ UNCHANGED <<rows, count>>
  BY DEF Lock
<1> HIDE DEF j
<1>5. count \in Nat /\ count' \in Nat /\ count <= count' /\ Sound(rows[j.chain] \o j.own, count')
  BY <1>2, <1>4 DEF IInv, TypeOK
<1> QED BY <1>1, <1>3, <1>4, <1>5, OthersKeep DEF IInv, TypeOK

LEMMA ReadTailKeeps ==
  ASSUME IInv, NEW w \in Writers, ReadTail(w) PROVE IInv'
<1> DEFINE p == Len(Seen(w)) + 1
           h == LastHash(Seen(w))
           j == [job[w] EXCEPT !.at = "read", !.position = p, !.previousHash = h]
<1>1. job[w] \in JobType /\ Seen(w) \in Seq(AuditRecord) /\ Len(Seen(w)) \in Nat
  BY SeenTyped, LenProperties DEF IInv
<1>2. LastHash(Seen(w)) \in Hash
  <2>1. CASE Seen(w) = <<>>
    BY <2>1, EmptySeq DEF LastHash, NoHash, Hash
  <2>2. CASE Seen(w) # <<>>
    <3>1. Seen(w)[Len(Seen(w))] \in AuditRecord
      BY <2>2, <1>1, EmptySeq, ElementOfSeq
    <3> QED BY <2>2, <3>1 DEF LastHash, AuditRecord
  <2> QED BY <2>1, <2>2
<1>3. /\ j \in JobType /\ j.at = "read" /\ j.chain = job[w].chain /\ j.own = job[w].own
      /\ j.position = p /\ j.previousHash = h
  <2>1. job[w] \in JobType /\ p \in Nat /\ h \in Hash
    BY <1>1, <1>2
  <2> HIDE DEF p, h
  <2> QED BY <2>1 DEF JobType
<1>4. rows[j.chain] \o j.own = Seen(w) /\ Sound(Seen(w), count) /\ lock = w
  BY <1>3 DEF IInv, SeenSound, Seen, UnderLock, ReadTail
<1>5. job' = [job EXCEPT ![w] = j] /\ UNCHANGED <<rows, lock, count>>
  BY DEF ReadTail
<1> HIDE DEF j
<1>6. count \in Nat /\ count' \in Nat /\ count <= count' /\ Sound(rows[j.chain] \o j.own, count')
  BY <1>4, <1>5 DEF IInv, TypeOK
<1> QED BY <1>3, <1>4, <1>5, <1>6, OthersKeep DEF IInv, TypeOK

(* The position after the tail is free, so the record is inserted.         *)
LEMMA InsertKeeps ==
  ASSUME IInv, NEW w \in Writers, Insert(w) PROVE IInv'
<1>1. /\ job[w] \in JobType /\ Seen(w) \in Seq(AuditRecord) /\ Len(Seen(w)) \in Nat
      /\ rows[job[w].chain] \in Seq(AuditRecord) /\ job[w].own \in Seq(AuditRecord)
  BY SeenTyped, LenProperties DEF IInv, JobType
<1>2. /\ job[w].at = "read" /\ lock = w
      /\ job[w].position = Len(Seen(w)) + 1 /\ job[w].previousHash = LastHash(Seen(w))
      /\ Sound(Seen(w), count) /\ count \in Nat
  BY DEF IInv, TypeOK, TailFresh, UnderLock, SeenSound, Insert
<1>3. ~Taken(w)
  BY <1>1, <1>2 DEF Taken
<1>4. PICK event \in Events :
        job' = [job EXCEPT ![w] = Extended(w, New(w, event))] /\ count' = count + 1
  BY <1>3 DEF Insert
<1> DEFINE r == New(w, event)
           j == Extended(w, r)
<1>5. /\ r \in AuditRecord /\ r.id = count
      /\ r.previousHash = LastHash(Seen(w)) /\ r.integrityHash = Append(r.previousHash, r.event)
  <2>1. job[w].previousHash \in Seq(Events) /\ count \in Nat
    BY <1>1 DEF JobType, Hash, IInv, TypeOK
  <2>2. Append(job[w].previousHash, event) \in Seq(Events)
    BY <2>1, AppendProperties
  <2> QED BY <1>2, <2>1, <2>2 DEF New, Digest, AuditRecord, Hash
<1> HIDE DEF r
<1>6. Append(job[w].own, r) \in Seq(AuditRecord)
  BY <1>1, <1>5, AppendProperties
<1>7. j \in JobType /\ j.at = "open" /\ j.chain = job[w].chain /\ j.own = Append(job[w].own, r)
  BY <1>1, <1>6 DEF JobType, Extended
<1>8. rows[job[w].chain] \o Append(job[w].own, r) = Append(Seen(w), r)
  <2> DEFINE s == rows[job[w].chain]
             o == job[w].own
  <2>1. s \in Seq(AuditRecord) /\ o \in Seq(AuditRecord) /\ r \in AuditRecord
    BY <1>1, <1>5
  <2>2. s \o o \in Seq(AuditRecord) /\ <<r>> \in Seq(AuditRecord)
    BY <2>1, ConcatProperties
  <2>3. Seen(w) = s \o o
    BY DEF Seen
  <2> HIDE DEF s, o
  <2>4. Append(o, r) = o \o <<r>>
    BY <2>1, AppendIsConcat
  <2>5. Append(s \o o, r) = (s \o o) \o <<r>>
    BY <2>1, <2>2, AppendIsConcat
  <2>6. (s \o o) \o <<r>> = s \o (o \o <<r>>)
    BY <2>1, <2>2, ConcatAssociative
  <2>7. s \o Append(o, r) = Append(Seen(w), r)
    BY <2>3, <2>4, <2>5, <2>6
  <2> QED BY <2>7 DEF s, o
<1>9. Sound(rows[j.chain] \o j.own, count + 1)
  BY <1>1, <1>2, <1>5, <1>7, <1>8, SoundAppend
<1> HIDE DEF j
<1>10. /\ job' = [job EXCEPT ![w] = j] /\ UNCHANGED <<rows, lock>> /\ count' = count + 1
  <2>1. UNCHANGED <<rows, lock>>
    BY DEF Insert
  <2>2. job' = [job EXCEPT ![w] = j]
    BY <1>4 DEF r, j
  <2> QED BY <2>1, <2>2, <1>4
<1>11. count \in Nat /\ count' \in Nat /\ count <= count' /\ Sound(rows[j.chain] \o j.own, count')
  BY <1>9, <1>10 DEF IInv, TypeOK
<1> QED BY <1>2, <1>7, <1>10, <1>11, OthersKeep DEF IInv, TypeOK

LEMMA RollbackKeeps ==
  ASSUME IInv, NEW w \in Writers, Rollback(w) PROVE IInv'
<1>1. Idle \in JobType /\ Idle.own = <<>> /\ Idle.at = "idle" /\ Idle.chain \in Chains
  BY IdleTyped DEF JobType
<1>2. Sound(rows[Idle.chain] \o Idle.own, count)
  BY <1>1, CommittedOnly
<1>3. /\ job' = [job EXCEPT ![w] = Idle] /\ UNCHANGED <<rows, count>>
      /\ lock' = Released(w) /\ lock' \in Writers \cup {Nobody}
  BY DEF Rollback, Released, IInv, TypeOK
<1>4. \A v \in Writers \ {w} : lock = v => lock' = v
  BY <1>3 DEF Released
<1>5. count \in Nat /\ count' \in Nat /\ count <= count' /\ Sound(rows[Idle.chain] \o Idle.own, count')
  BY <1>2, <1>3 DEF IInv, TypeOK
<1> QED BY <1>1, <1>3, <1>4, <1>5, OthersKeep DEF IInv, TypeOK

(* A writer commits to a chain nobody else has read the tail of.           *)
LEMMA CommitKeeps ==
  ASSUME IInv, NEW w \in Writers, Commit(w) PROVE IInv'
<1> DEFINE c == job[w].chain
<1>1. /\ lock = w /\ c \in Chains /\ Seen(w) \in Seq(AuditRecord) 
      /\ Sound(Seen(w), count) /\ job[w].own # <<>>
  BY SeenTyped DEF Commit, IInv, UnderLock, SeenSound, JobType
<1>2. /\ rows' = [rows EXCEPT ![c] = Seen(w)] /\ job' = [job EXCEPT ![w] = Idle]
      /\ lock' = Nobody /\ count' = count
  BY <1>1 DEF Commit, Released
<1>3. /\ job' \in [Writers -> JobType] /\ job'[w] = Idle
      /\ \A v \in Writers \ {w} : job'[v] = job[v]
  BY <1>2, IdleTyped DEF IInv, TypeOK, JobType
<1>4. \A v \in Writers : job'[v].own = <<>> /\ job'[v].at \notin {"locked", "read", "refused"}
  BY <1>1, <1>3, IdleTyped DEF IInv, UnderLock, NobodyRefused
<1>5. TypeOK'
  BY <1>1, <1>2, <1>3 DEF IInv, TypeOK, JobType
<1>6. ChainsSound'
  BY <1>1, <1>2 DEF IInv, ChainsSound, TypeOK
<1>7. SeenSound'
  <2> SUFFICES ASSUME NEW v \in Writers PROVE Sound(rows'[job'[v].chain] \o job'[v].own, count')
    BY DEF SeenSound, Seen
  <2>1. job'[v].own = <<>> /\ job'[v].chain \in Chains
    BY <1>3, <1>4 DEF JobType
  <2>2. rows'[job'[v].chain] \in Seq(AuditRecord)
    BY <2>1, <1>5 DEF TypeOK
  <2>3. rows'[job'[v].chain] \o <<>> = rows'[job'[v].chain]
    BY <2>2, ConcatEmptySeq
  <2> QED BY <2>1, <2>3, <1>6 DEF ChainsSound
<1>8. UnderLock' /\ TailFresh' /\ NobodyRefused'
  BY <1>4 DEF UnderLock, TailFresh, NobodyRefused
<1> QED BY <1>5, <1>6, <1>7, <1>8 DEF IInv

LEMMA StepIInv == WritersAssumption /\ IInv /\ [Next]_vars => IInv'
<1> SUFFICES ASSUME WritersAssumption, IInv, [Next]_vars PROVE IInv'
  OBVIOUS
<1>1. CASE UNCHANGED vars
  BY <1>1 DEF vars, IInv, TypeOK, UnderLock, TailFresh, SeenSound, ChainsSound,
     NobodyRefused, Seen
<1>2. CASE Next
  BY <1>2, BeginKeeps, LockKeeps, ReadTailKeeps, InsertKeeps, CommitKeeps, RollbackKeeps
     DEF Next, Step
<1> QED BY <1>1, <1>2

----------------------------------------------------------------------------
THEOREM AuditInvariant ==
  ASSUME WritersAssumption
  PROVE  Spec => []IInv
<1>1. IInv /\ [Next]_vars => IInv'
  BY StepIInv
<1> QED BY <1>1, InitIInv, PTL DEF Spec

(* The ledger finds nothing wrong with a sound chain.                      *)
LEMMA SoundVerifies ==
  ASSUME NEW s \in Seq(AuditRecord), NEW n \in Nat, Sound(s, n)
  PROVE  verifyAuditChain(s) = {}
<1> SUFFICES ASSUME NEW i \in DOMAIN s, NEW kind, Suspicious(s, i, kind) PROVE FALSE
  BY DEF verifyAuditChain
<1>1. DOMAIN s = 1..Len(s) /\ Len(s) \in Nat
  BY LenProperties
<1>2. \A j \in 1..(i - 1) : j \in DOMAIN s /\ j # i
  BY <1>1
<1> QED BY <1>2 DEF Suspicious, Sound, Linked, Distinct, Digest

(* The ledger finds nothing changed between a chain and a longer one that  *)
(* begins with it, if ids are distinct.                                    *)
LEMMA NothingChanged ==
  ASSUME NEW s \in Seq(AuditRecord), NEW t \in Seq(AuditRecord), NEW n \in Nat,
         Sound(t, n), Len(s) <= Len(t), \A i \in 1..Len(s) : t[i] = s[i]
  PROVE  diffAuditSnapshots(s, t) = {}
<1> SUFFICES ASSUME NEW i \in DOMAIN s, NEW kind, Changed(s, t, i, kind) PROVE FALSE
  BY DEF diffAuditSnapshots
<1>1. DOMAIN s = 1..Len(s) /\ DOMAIN t = 1..Len(t) /\ Len(s) \in Nat /\ Len(t) \in Nat
  BY LenProperties
<1>2. i \in DOMAIN t /\ t[i] = s[i]
  BY <1>1
<1>3. \A k \in DOMAIN t : t[k].id = s[i].id => k = i
  BY <1>2 DEF Sound, Distinct
<1>4. i <= i
  BY <1>1
<1>5. \A j : j \in DOMAIN t /\ t[j].id = s[i].id => j = i
  BY <1>3
<1>6. \E j \in DOMAIN t : t[j].id = s[i].id /\ \A k \in DOMAIN t : t[k].id = s[i].id => k <= j
  BY <1>2, <1>3, <1>4
<1>7. LastWithId(t, s[i].id) = i
  <2> DEFINE j == LastWithId(t, s[i].id)
  <2>1. j \in DOMAIN t /\ t[j].id = s[i].id
    BY <1>6 DEF LastWithId
  <2> QED BY <2>1, <1>5
<1>8. HasId(t, s[i].id) /\ HasId(s, t[i].id)
  BY <1>2 DEF HasId
<1> QED BY <1>2, <1>7, <1>8 DEF Changed

(* The ledger finds nothing wrong with any committed chain, and no audited *)
(* operation is refused because another one audits at that moment          *)
(* (postgres-store.ts, audit), whatever fails and however many write.      *)
THEOREM TrailVerifies ==
  ASSUME WritersAssumption
  PROVE  Spec => [](ChainsVerify /\ NobodyRefused)
<1>1. IInv => ChainsVerify /\ NobodyRefused
  BY SoundVerifies DEF IInv, TypeOK, ChainsSound, ChainsVerify
<1> QED BY <1>1, AuditInvariant, PTL

(* A commit appends to its chain, and nothing else writes to one.          *)
LEMMA CommittedKept == IInv /\ IInv' /\ [Next]_vars => CommittedStays /\ AppendOnly
<1> SUFFICES ASSUME IInv, IInv', [Next]_vars, NEW c \in Chains
    PROVE  /\ SubSeq(rows'[c], 1, Len(rows[c])) = rows[c]
           /\ diffAuditSnapshots(rows[c], rows'[c]) = {}
  BY DEF CommittedStays, AppendOnly
<1> DEFINE s == rows[c]
           t == rows'[c]
<1>1. /\ s \in Seq(AuditRecord) /\ t \in Seq(AuditRecord)
      /\ count' \in Nat /\ Sound(t, count')
  BY DEF IInv, TypeOK, ChainsSound
<1>2. Len(s) \in Nat /\ Len(t) \in Nat
  BY <1>1, LenProperties
<1>3. t = s \/ \E o \in Seq(AuditRecord) : t = s \o o
  <2>1. CASE t # s
    <3>1. PICK w \in Writers : Commit(w)
      BY <2>1 DEF vars, Next, Step, Begin, Lock, ReadTail, Insert, Rollback
    <3>2. c = job[w].chain /\ t = s \o job[w].own /\ job[w].own \in Seq(AuditRecord)
      BY <2>1, <3>1 DEF Commit, Seen, IInv, TypeOK
    <3> QED BY <3>2
  <2> QED BY <2>1
<1> HIDE DEF s, t
<1>4. Len(s) <= Len(t) /\ \A i \in 1..Len(s) : t[i] = s[i]
  <2>1. CASE t = s
    BY <2>1, <1>2
  <2>2. ASSUME NEW o \in Seq(AuditRecord), t = s \o o
        PROVE  Len(s) <= Len(t) /\ \A i \in 1..Len(s) : t[i] = s[i]
    <3>1. Len(o) \in Nat
      BY LenProperties
    <3> QED BY <1>1, <1>2, <2>2, <3>1, ConcatProperties
  <2> QED BY <1>3, <2>1, <2>2
<1>5. SubSeq(t, 1, Len(s)) = s
  <2> DEFINE u == SubSeq(t, 1, Len(s))
  <2>1. 1 \in 1..Len(t) + 1 /\ Len(s) \in 1 - 1 .. Len(t)
    BY <1>2, <1>4
  <2>2. /\ u \in Seq(AuditRecord) /\ Len(u) = Len(s)
        /\ \A i \in 1..Len(s) : u[i] = t[i]
    BY <1>1, <1>2, <1>4, <2>1, SubSeqProperties
  <2> HIDE DEF u
  <2>3. u = s
    BY <1>1, <1>4, <2>2, SeqEqual
  <2> QED BY <2>3 DEF u
<1>6. diffAuditSnapshots(s, t) = {}
  BY <1>1, <1>4, NothingChanged
<1> QED BY <1>5, <1>6 DEF s, t

(* A record that is committed is never changed, moved or removed, and the  *)
(* ledger, which compares two observations, finds it so.                   *)
THEOREM CommittedRecordsStay ==
  ASSUME WritersAssumption
  PROVE  Spec => [][CommittedStays /\ AppendOnly]_vars
<1>1. IInv /\ IInv' /\ [Next]_vars => [CommittedStays /\ AppendOnly]_vars
  BY CommittedKept
<1> QED BY <1>1, AuditInvariant, PTL DEF Spec
=============================================================================
