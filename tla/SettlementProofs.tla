--------------------------- MODULE SettlementProofs ---------------------------
(***************************************************************************)
(* What Settlement promises, proved of any cast: any number of workers,    *)
(* records, amounts and deaths, with requests of all engines interleaved.  *)
(* First Engine 46 by itself, which implements the abstract vote: the      *)
(* count a request decides on is stale, but votes are never taken back, so *)
(* it is at most one more than there are, and the table refuses a vote     *)
(* that is already there.  Then all engines: each has an inductive         *)
(* invariant of its own (IInv in its module).  Its own steps keep it; the  *)
(* steps of the others keep it because they leave its tables alone and     *)
(* their requests make other calls.                                        *)
(***************************************************************************)
EXTENDS Settlement, FiniteSetTheorems, SequenceTheorems, TLAPS

----------------------------------------------------------------------------
(* A request that makes a call of this engine carries what it needs.       *)
LEMMA JobOf ==
  ASSUME TypeOK, NEW w \in Workers, job[w].at \in Calls
  PROVE  job[w] \in Jobs
  BY DEF TypeOK, Carrying

(* The local variables of a request, by where it is.                       *)
LEMMA JobKinds ==
  ASSUME TypeOK, NEW w \in Workers
  PROVE  LET j == job[w]
         IN /\ j.at = "threshold" => j.row \in Threshold
            /\ j.at = "request" => j.by \in Actors /\ j.need \in Amounts
            /\ j.at \in {"count", "vote"} =>
                 j.id \in Authorizations /\ j.by \in Actors /\ j.row \in Auth
            /\ j.at = "vote" => j.count \in Nat
            /\ j.at = "decide" => j.id \in Authorizations /\ j.row \in Auth
<1>1. job[w].at \in Calls => job[w] \in Jobs
  BY JobOf
<1> QED BY <1>1 DEF Jobs, Calls

(* A step of one request leaves the others where they are.                 *)
LEMMA OneSteps ==
  ASSUME TypeOK, NEW w \in Workers, NEW j, Carry(w, j), j.at \in Calls => j \in Jobs
  PROVE  /\ job'[w] = j
         /\ \A v \in Workers \ {w} : job'[v] = job[v]
         /\ Carrying(Calls, Jobs)'
<1>1. /\ job'[w] = j /\ \A v \in Workers \ {w} : job'[v] = job[v]
      /\ job' = [v \in Workers |-> job'[v]]
  BY DEF TypeOK, Carry, Carrying
<1>2. ASSUME NEW v \in Workers, job'[v].at \in Calls PROVE job'[v] \in Jobs
  BY <1>1, <1>2 DEF TypeOK, Carrying
<1> QED BY <1>1, <1>2 DEF Carrying, Calls, Jobs, Threshold, Auth, Statuses, Amounts

(* A request that ends carries nothing.                                    *)
LEMMA IdleCarriesNothing ==
  Idle.at = "idle" /\ Idle.at \notin Calls /\ Carried(Idle) /\ Carried(Idle)'
  BY DEF Calls, Idle, Carried

(* The threshold that is found names a number of approvals.                *)
LEMMA ThresholdFound ==
  ASSUME TypeOK, NEW amount, NEW i \in FirstCovering(amount)
  PROVE  thresholds[i].need \in Amounts
<1>1. thresholds \in Seq(Threshold) /\ i \in 1..Len(thresholds)
  BY DEF TypeOK, FirstCovering
<1>2. thresholds[i] \in Threshold
  BY <1>1, ElementOfSeq
<1> QED BY <1>2 DEF Threshold

(* Whatever requests carry stays true as long as the tables do; those that *)
(* moved may be at calls of other engines.                                 *)
LEMMA TablesStay ==
  ASSUME IInv, UNCHANGED <<auth, votes>>, thresholds' \in Seq(Threshold),
         Carrying(Calls, Jobs)',
         \A v \in Workers : job'[v] = job[v] \/ Carried(job'[v])
  PROVE  IInv'
<1>1. TypeOK'
  BY DEF IInv, TypeOK
<1>2. TablesSound'
  BY DEF IInv, TablesSound, Backed
<1>3. ReadsSound'
  <2> SUFFICES ASSUME NEW v \in Workers PROVE Carried(job[v])'
    BY DEF ReadsSound
  <2>1. Carried(job'[v])
    BY DEF IInv, ReadsSound
  <2> QED BY <2>1 DEF Carried, Backed
<1> QED BY <1>1, <1>2, <1>3 DEF IInv

LEMMA StoreUnchanged ==
  ASSUME IInv, UNCHANGED <<auth, votes>>, thresholds' \in Seq(Threshold),
         NEW w \in Workers, NEW j, j.at \in Calls => j \in Jobs, Carry(w, j), Carried(j)
  PROVE  IInv'
  BY OneSteps, TablesStay DEF IInv

(* Steps of other engines' requests keep the invariant.                    *)
LEMMA OthersKeep ==
  ASSUME IInv, UNCHANGED store, job' = [v \in Workers |-> job'[v]],
         \A v \in Workers : job'[v] = job[v] \/ job'[v].at \notin Calls
  PROVE  IInv'
<1>1. \A v \in Workers : job'[v].at \in Calls => job'[v] \in Jobs
  BY JobOf DEF IInv
<1>2. Carrying(Calls, Jobs)'
  BY <1>1 DEF Carrying, Calls, Jobs, Threshold, Auth, Statuses, Amounts
<1>3. \A v \in Workers : job'[v] = job[v] \/ Carried(job'[v])
  BY DEF Carried, Calls
<1>4. UNCHANGED <<auth, votes>> /\ thresholds' \in Seq(Threshold)
  BY DEF IInv, TypeOK, store
<1> QED BY <1>2, <1>3, <1>4, TablesStay

LEMMA InitIInv == Init => IInv
<1> SUFFICES ASSUME Init PROVE IInv
  OBVIOUS
<1>1. TypeOK
  BY AuthorityAssumption DEF Init, TypeOK, Carrying, Calls, Idle, Auth, NoAuth, Statuses
<1>2. TablesSound
  BY AuthorityAssumption, FS_EmptySet DEF Init, TablesSound, NoAuth
<1>3. ReadsSound
  BY DEF Init, ReadsSound, Carried, Idle
<1> QED BY <1>1, <1>2, <1>3 DEF IInv

----------------------------------------------------------------------------
(* The requests' own steps, one lemma for those that only read.            *)
LEMMA ReadersKeep ==
  ASSUME IInv, NEW w \in Workers,
         DefineThreshold(w) \/ RequestAuthorization(w) \/ Approve(w) \/ Reject(w)
           \/ CountVotes(w) \/ Die(w)
  PROVE  IInv'
<1> USE DEF IInv
<1>0. UNCHANGED <<auth, votes>> /\ thresholds' \in Seq(Threshold)
  BY DEF DefineThreshold, RequestAuthorization, Approve, Reject, CountVotes, Die, store, TypeOK
<1>1. CASE DefineThreshold(w)
  <2>1. PICK t \in Threshold : Carry(w, [at |-> "threshold", row |-> t])
    BY <1>1 DEF DefineThreshold, Receive
  <2> QED BY <2>1, <1>0, StoreUnchanged DEF Jobs, Carried
<1>2. CASE RequestAuthorization(w)
  <2>0. PICK u \in Actors, amount \in Amounts : \E i \in FirstCovering(amount) :
          Carry(w, [at |-> "request", by |-> u, need |-> thresholds[i].need])
    BY <1>2 DEF RequestAuthorization, Receive
  <2>1. PICK i \in FirstCovering(amount) :
          Carry(w, [at |-> "request", by |-> u, need |-> thresholds[i].need])
    BY <2>0
  <2>2. thresholds[i].need \in Amounts
    BY ThresholdFound
  <2> QED BY <2>1, <2>2, <1>0, StoreUnchanged DEF Jobs, Carried
<1>3. CASE Approve(w)
  <2>1. PICK a \in Authorizations, u \in Actors :
          /\ auth[a].status = "PENDING"
          /\ Carry(w, [at |-> "count", id |-> a, by |-> u, row |-> auth[a]])
    BY <1>3 DEF Approve, Receive
  <2>2. auth[a] \in Auth
    BY DEF TypeOK
  <2> QED BY <2>1, <2>2, <1>0, StoreUnchanged DEF Jobs, Carried
<1>4. CASE Reject(w)
  <2>1. PICK a \in Authorizations :
          /\ auth[a].status = "PENDING"
          /\ Carry(w, [at |-> "decide", id |-> a,
                       row |-> [auth[a] EXCEPT !.status = "REJECTED"]])
    BY <1>4 DEF Reject, Receive
  <2>2. auth[a] \in Auth
    BY DEF TypeOK
  <2>3. /\ [auth[a] EXCEPT !.status = "REJECTED"] \in Auth
        /\ [auth[a] EXCEPT !.status = "REJECTED"].need = auth[a].need
        /\ [auth[a] EXCEPT !.status = "REJECTED"].status = "REJECTED"
    BY <2>2 DEF Auth, Statuses
  <2> QED BY <2>1, <2>3, <1>0, StoreUnchanged DEF Jobs, Carried
<1>5. CASE CountVotes(w)
  <2> DEFINE j == job[w]
             k == [at |-> "vote", id |-> j.id, by |-> j.by, row |-> j.row,
                   count |-> Cardinality(votes[j.id]) + 1]
  <2>1. /\ j.at = "count" /\ Carried(j)
        /\ j.id \in Authorizations /\ j.by \in Actors /\ j.row \in Auth
    BY <1>5, JobKinds DEF CountVotes, At, TypeOK, ReadsSound
  <2>2. Cardinality(votes[j.id]) \in Nat
    BY <2>1, FS_CardinalityType DEF TablesSound
  <2>3. k \in Jobs
    BY <2>1, <2>2 DEF Jobs
  <2>4. Carried(k)
    BY <2>1, <2>2 DEF Carried
  <2>5. Carry(w, Idle) \/ Carry(w, k)
    BY <1>5 DEF CountVotes, Return
  <2> QED BY <2>3, <2>4, <2>5, <1>0, IdleCarriesNothing, StoreUnchanged
<1>6. CASE Die(w)
  BY <1>0, <1>6, IdleCarriesNothing, StoreUnchanged DEF Die, Crash, Return
<1> QED BY <1>1, <1>2, <1>3, <1>4, <1>5, <1>6

(* A threshold is added; what requests carry was taken from older ones.    *)
LEMMA AppendThresholdKeeps ==
  ASSUME IInv, NEW w \in Workers, AppendThreshold(w) PROVE IInv'
<1>1. job[w].row \in Threshold
  BY JobKinds DEF AppendThreshold, At, IInv, TypeOK
<1>2. thresholds' \in Seq(Threshold)
  BY <1>1 DEF AppendThreshold, IInv, TypeOK
<1> QED BY <1>2, IdleCarriesNothing, StoreUnchanged DEF AppendThreshold, Return

(* No request carries an authorisation that is not there yet.              *)
LEMMA InsertAuthorizationKeeps ==
  ASSUME IInv, NEW w \in Workers, NEW a \in Authorizations,
         At(w, "request"), auth[a].status = "none",
         auth' = [auth EXCEPT ![a] =
                    [status |-> "PENDING", by |-> job[w].by, need |-> job[w].need]],
         Return(w), UNCHANGED <<thresholds, votes>>
  PROVE  IInv'
<1> USE DEF IInv
<1>1. job[w].by \in Actors /\ job[w].need \in Amounts
  BY JobKinds DEF At, TypeOK
<1>2. [status |-> "PENDING", by |-> job[w].by, need |-> job[w].need] \in Auth
  BY <1>1, AuthorityAssumption DEF Auth, Statuses, Amounts
<1>3. TypeOK'
  BY <1>2, OneSteps, IdleCarriesNothing DEF TypeOK, Return
<1>4. TablesSound'
  BY <1>1 DEF TablesSound, TypeOK, Backed
<1>5. ReadsSound'
  <2> SUFFICES ASSUME NEW v \in Workers PROVE Carried(job[v])'
    BY DEF ReadsSound
  <2>1. CASE v = w
    BY <2>1, OneSteps, IdleCarriesNothing DEF Return, Carried
  <2>2. CASE v # w
    <3>1. Carried(job[v]) /\ job'[v] = job[v]
      BY <2>2, OneSteps, IdleCarriesNothing DEF ReadsSound, Return, TypeOK
    <3>2. job[v].at \in {"count", "vote", "decide"} => auth'[job[v].id] = auth[job[v].id]
      BY <3>1, JobKinds DEF Carried, TypeOK
    <3> QED BY <3>1, <3>2 DEF Carried, Backed
  <2> QED BY <2>1, <2>2
<1> QED BY <1>3, <1>4, <1>5

(* What a vote and a decision have to go by.                               *)
LEMMA VoterKnown ==
  ASSUME IInv, NEW w \in Workers, At(w, "vote"), Admissible(job[w].id, job[w].by)
  PROVE  LET j == job[w]
             after == votes[j.id] \cup {j.by}
         IN /\ j.id \in Authorizations /\ j.by \in Actors /\ j.row \in Auth
            /\ auth[j.id].status # "none" /\ j.row.need = auth[j.id].need
            /\ auth[j.id].need \in Nat
            /\ j.by \notin votes[j.id] \cup {auth[j.id].by}
            /\ IsFiniteSet(after)
            /\ Cardinality(votes[j.id]) \in Nat
            /\ Cardinality(after) = Cardinality(votes[j.id]) + 1
            /\ QuorumReached(j) => Cardinality(after) >= auth[j.id].need
<1> DEFINE j == job[w]
           after == votes[j.id] \cup {j.by}
<1>1. /\ j.id \in Authorizations /\ j.by \in Actors /\ j.row \in Auth
      /\ auth[j.id].status # "none" /\ j.row.need = auth[j.id].need
      /\ j.count \in Nat /\ j.count <= Cardinality(votes[j.id]) + 1
  BY JobKinds DEF IInv, TypeOK, ReadsSound, Carried, At
<1>2. auth[j.id].need \in Nat
  BY <1>1, AuthorityAssumption DEF IInv, TablesSound, Amounts
<1>3. /\ IsFiniteSet(votes[j.id]) /\ Cardinality(votes[j.id]) \in Nat
  BY <1>1, FS_CardinalityType DEF IInv, TablesSound
<1>4. j.by \notin votes[j.id] \cup {auth[j.id].by}
  BY DEF Admissible
<1>5. IsFiniteSet(after) /\ Cardinality(after) = Cardinality(votes[j.id]) + 1
  BY <1>3, <1>4, FS_AddElement
<1>6. QuorumReached(j) => Cardinality(after) >= auth[j.id].need
  BY <1>1, <1>2, <1>3, <1>5 DEF QuorumReached
<1> QED BY <1>1, <1>2, <1>3, <1>4, <1>5, <1>6

(* A vote leaves the other counts at most one too high, and a grant is     *)
(* prepared only when the votes that are there then suffice.               *)
LEMMA CastVoteKeeps ==
  ASSUME IInv, NEW w \in Workers, CastVote(w) PROVE IInv'
<1> DEFINE j == job[w]
           k == [at |-> "decide", id |-> j.id, row |-> [j.row EXCEPT !.status = "AUTHORIZED"]]
<1>1. CASE ~Admissible(j.id, j.by)
  <2>1. Carry(w, Idle) /\ UNCHANGED <<thresholds, auth, votes>>
    BY <1>1 DEF CastVote, Return
  <2> QED BY <2>1, IdleCarriesNothing, StoreUnchanged DEF IInv, TypeOK
<1>2. CASE Admissible(j.id, j.by)
  <2>0. /\ votes' = [votes EXCEPT ![j.id] = @ \cup {j.by}]
        /\ UNCHANGED <<thresholds, auth>>
        /\ IF QuorumReached(j) THEN Carry(w, k) ELSE Carry(w, Idle)
        /\ At(w, "vote")
    BY <1>2 DEF CastVote, Return
  <2>1. /\ j.id \in Authorizations /\ j.by \in Actors /\ j.row \in Auth
        /\ auth[j.id].status # "none" /\ j.row.need = auth[j.id].need
        /\ auth[j.id].need \in Nat
        /\ j.by \notin votes[j.id] \cup {auth[j.id].by}
        /\ Cardinality(votes[j.id]) \in Nat
    BY <1>2, <2>0, VoterKnown
  <2>2. /\ votes'[j.id] = votes[j.id] \cup {j.by}
        /\ \A a \in Authorizations \ {j.id} : votes'[a] = votes[a]
    BY <2>0, <2>1 DEF IInv, TypeOK
  <2>3. /\ IsFiniteSet(votes'[j.id])
        /\ Cardinality(votes'[j.id]) = Cardinality(votes[j.id]) + 1
        /\ QuorumReached(j) => Cardinality(votes'[j.id]) >= auth[j.id].need
    BY <1>2, <2>0, <2>2, VoterKnown
  <2>4. /\ [j.row EXCEPT !.status = "AUTHORIZED"] \in Auth
        /\ [j.row EXCEPT !.status = "AUTHORIZED"].status = "AUTHORIZED"
        /\ [j.row EXCEPT !.status = "AUTHORIZED"].need = auth[j.id].need
    BY <2>1 DEF Auth, Statuses
  <2>5. k \in Jobs
    BY <2>1, <2>4 DEF Jobs
  <2>6. TypeOK'
    <3>1. votes' \in [Authorizations -> SUBSET Actors]
      BY <2>0, <2>1 DEF IInv, TypeOK
    <3>2. Carrying(Calls, Jobs)'
      BY <2>0, <2>5, IdleCarriesNothing, OneSteps DEF IInv
    <3> QED BY <2>0, <3>1, <3>2 DEF IInv, TypeOK
  <2>7. TablesSound'
    <3> SUFFICES ASSUME NEW a \in Authorizations
        PROVE  /\ IsFiniteSet(votes'[a])
               /\ auth[a].status = "none" => votes'[a] = {}
               /\ auth[a].status # "none" => auth[a].by \in Actors /\ auth[a].need \in Amounts
               /\ auth[a].by \notin votes'[a]
               /\ auth[a].status = "AUTHORIZED" => Cardinality(votes'[a]) >= auth[a].need
      BY <2>0 DEF TablesSound, Backed
    <3>1. CASE a # j.id
      BY <3>1, <2>2 DEF IInv, TablesSound, Backed
    <3>2. CASE a = j.id
      <4>1. auth[a].status = "AUTHORIZED" => Cardinality(votes[a]) >= auth[a].need
        BY DEF IInv, TablesSound, Backed
      <4>2. auth[a].status = "AUTHORIZED" => Cardinality(votes'[a]) >= auth[a].need
        BY <3>2, <4>1, <2>1, <2>3
      <4> QED BY <3>2, <4>2, <2>1, <2>2, <2>3 DEF IInv, TablesSound
    <3> QED BY <3>1, <3>2
  <2>8. ReadsSound'
    <3> SUFFICES ASSUME NEW v \in Workers PROVE Carried(job[v])'
      BY DEF ReadsSound
    <3>1. CASE v = w
      <4>1. job'[w] \in {k, Idle} /\ (job'[w] = k => QuorumReached(j))
        BY <2>0, <2>5, IdleCarriesNothing, OneSteps DEF IInv, Idle
      <4>2. CASE job'[w] = Idle
        BY <3>1, <4>2 DEF Carried, Idle
      <4>3. CASE job'[w] = k
        <5>1. Cardinality(votes'[j.id]) >= auth[j.id].need
          BY <4>1, <4>3, <2>3
        <5>2. /\ job'[v] = k /\ auth' = auth
              /\ auth[j.id].status # "none"
              /\ k.row.need = auth[j.id].need /\ k.row.status = "AUTHORIZED"
          BY <3>1, <4>3, <2>0, <2>1, <2>4
        <5> QED BY <5>1, <5>2 DEF Carried, Backed
      <4> QED BY <4>1, <4>2, <4>3
    <3>2. CASE v # w
      <4>1. job'[v] = job[v] /\ Carried(job[v])
        BY <3>2, <2>0, <2>5, IdleCarriesNothing, OneSteps DEF IInv, ReadsSound, TypeOK
      <4>2. /\ job[v].at \in {"count", "vote", "decide"} => job[v].id \in Authorizations
            /\ job[v].at = "vote" => job[v].count \in Nat
        BY <4>1, JobKinds DEF IInv
      <4>3. CASE job[v].id # j.id
        BY <4>1, <4>2, <4>3, <2>0, <2>2 DEF Carried, Backed
      <4>4. CASE job[v].id = j.id
        BY <4>1, <4>2, <4>4, <2>0, <2>1, <2>3 DEF Carried, Backed
      <4> QED BY <4>3, <4>4
    <3> QED BY <3>1, <3>2
  <2> QED BY <2>6, <2>7, <2>8 DEF IInv
<1> QED BY <1>1, <1>2

(* A decision is written over PENDING alone, a grant on enough votes.      *)
LEMMA DecisionWritten ==
  ASSUME IInv, NEW w \in Workers, WriteDecision(w), auth' # auth
  PROVE  LET a == job[w].id
             to == job[w].row.status
         IN /\ a \in Authorizations
            /\ auth[a].status = "PENDING"
            /\ auth' = [auth EXCEPT ![a].status = to]
            /\ to \in {"AUTHORIZED", "REJECTED"}
            /\ to = "AUTHORIZED" => Backed(a)
<1>1. /\ job[w].id \in Authorizations /\ auth[job[w].id].status # "none"
      /\ job[w].row.status \in {"AUTHORIZED", "REJECTED"}
      /\ job[w].row.status = "AUTHORIZED" => Backed(job[w].id)
  BY JobKinds DEF WriteDecision, At, IInv, TypeOK, ReadsSound, Carried
<1>2. auth[job[w].id].status \in Statuses
  BY <1>1 DEF IInv, TypeOK, Auth
<1> QED BY <1>1, <1>2 DEF WriteDecision, PutAuth, Statuses

LEMMA WriteDecisionKeeps ==
  ASSUME IInv, NEW w \in Workers, WriteDecision(w) PROVE IInv'
<1>1. Carry(w, Idle) /\ UNCHANGED <<thresholds, votes>>
  BY DEF WriteDecision, Return
<1>2. CASE auth' = auth
  BY <1>1, <1>2, IdleCarriesNothing, StoreUnchanged DEF IInv, TypeOK
<1>3. CASE auth' # auth
  <2> DEFINE a == job[w].id
             to == job[w].row.status
  <2>1. /\ a \in Authorizations /\ auth[a].status = "PENDING"
        /\ auth' = [auth EXCEPT ![a].status = to]
        /\ to \in {"AUTHORIZED", "REJECTED"} /\ (to = "AUTHORIZED" => Backed(a))
    BY <1>3, DecisionWritten
  <2>2. /\ auth'[a].status = to /\ auth'[a].by = auth[a].by /\ auth'[a].need = auth[a].need
        /\ \A b \in Authorizations \ {a} : auth'[b] = auth[b]
        /\ auth' \in [Authorizations -> Auth]
    BY <2>1 DEF IInv, TypeOK, Auth, Statuses
  <2>3. TypeOK'
    BY <1>1, <2>2, IdleCarriesNothing, OneSteps DEF IInv, TypeOK
  <2>4. TablesSound'
    <3> SUFFICES ASSUME NEW b \in Authorizations
        PROVE  /\ IsFiniteSet(votes[b])
               /\ auth'[b].status = "none" => votes[b] = {}
               /\ auth'[b].status # "none" => auth'[b].by \in Actors /\ auth'[b].need \in Amounts
               /\ auth'[b].by \notin votes[b]
               /\ auth'[b].status = "AUTHORIZED" => Cardinality(votes[b]) >= auth'[b].need
      BY <1>1 DEF TablesSound, Backed
    <3>1. CASE b = a
      BY <3>1, <2>1, <2>2 DEF IInv, TablesSound, Backed
    <3>2. CASE b # a
      BY <3>2, <2>2 DEF IInv, TablesSound, Backed
    <3> QED BY <3>1, <3>2
  <2>5. ReadsSound'
    <3> SUFFICES ASSUME NEW v \in Workers PROVE Carried(job[v])'
      BY DEF ReadsSound
    <3>1. CASE v = w
      BY <3>1, <1>1, IdleCarriesNothing, OneSteps DEF IInv, Carried, Idle
    <3>2. CASE v # w
      <4>1. job'[v] = job[v] /\ Carried(job[v])
        BY <3>2, <1>1, IdleCarriesNothing, OneSteps DEF IInv, ReadsSound, TypeOK
      <4>2. job[v].at \in {"count", "vote", "decide"} =>
              /\ job[v].id \in Authorizations
              /\ auth'[job[v].id].status # "none"
              /\ auth'[job[v].id].need = auth[job[v].id].need
        BY <4>1, <2>1, <2>2, JobKinds DEF IInv, Carried
      <4> QED BY <4>1, <4>2, <1>1 DEF Carried, Backed
    <3> QED BY <3>1, <3>2
  <2> QED BY <2>3, <2>4, <2>5 DEF IInv
<1> QED BY <1>2, <1>3

LEMMA HandleKeeps ==
  ASSUME IInv, NEW w \in Workers, Handle(w) \/ Die(w) PROVE IInv'
<1>1. CASE InsertAuthorization(w)
  BY <1>1, InsertAuthorizationKeeps DEF InsertAuthorization
<1> QED BY <1>1, ReadersKeep, AppendThresholdKeeps, CastVoteKeeps, WriteDecisionKeeps
        DEF Handle, Continue

LEMMA StepIInv == IInv /\ [Next]_vars => IInv'
<1> SUFFICES ASSUME IInv, [Next]_vars PROVE IInv'
  OBVIOUS
<1>1. CASE UNCHANGED vars
  BY <1>1 DEF vars, IInv, TypeOK, Carrying, TablesSound, ReadsSound, Carried, Backed
<1>2. CASE Next
  BY <1>2, HandleKeeps DEF Next
<1> QED BY <1>1, <1>2

----------------------------------------------------------------------------
(* The strengthened invariant, and with it the types of the tables and of  *)
(* the requests in flight.                                                 *)
THEOREM AuthorityInvariant == Spec => []IInv
  BY InitIInv, StepIInv, PTL DEF Spec

(* A grant rests on enough votes of distinct people other than the         *)
(* requester, for any number of approvers at once (Engine 46, approve).    *)
THEOREM GrantsHaveQuorum == Spec => []QuorumBehindGrant
<1>1. IInv => QuorumBehindGrant
  BY DEF IInv, TablesSound, QuorumBehindGrant, Backed
<1> QED BY <1>1, AuthorityInvariant, PTL

(* Every step of a request is a step of the abstract vote or none.         *)
LEMMA HandleVotes ==
  ASSUME IInv, NEW w \in Workers, Handle(w) \/ Die(w) PROVE [Voting!Next]_<<auth, votes>>
<1> SUFFICES ASSUME <<auth, votes>>' # <<auth, votes>> PROVE Voting!Next
  OBVIOUS
<1>2. InsertAuthorization(w) \/ CastVote(w) \/ WriteDecision(w)
  BY DEF Handle, Continue, Die, store, DefineThreshold, RequestAuthorization, Approve,
     Reject, AppendThreshold, CountVotes
<1>3. CASE InsertAuthorization(w)
  <2>1. PICK a \in Authorizations :
          /\ auth[a].status = "none"
          /\ auth' = [auth EXCEPT ![a] =
                        [status |-> "PENDING", by |-> job[w].by, need |-> job[w].need]]
    BY <1>3 DEF InsertAuthorization
  <2>2. job[w].by \in Actors /\ job[w].need \in Amounts
    BY <1>3, JobKinds DEF InsertAuthorization, At, IInv, TypeOK
  <2>3. auth'[a] = [status |-> "PENDING", by |-> job[w].by, need |-> job[w].need]
    BY <2>1 DEF IInv, TypeOK
  <2>4. job[w].need \in Nat \ {0}
    BY <2>2, AuthorityAssumption DEF Amounts
  <2>5. auth' = [auth EXCEPT ![a] = auth'[a]] /\ UNCHANGED votes
    BY <1>3, <2>1, <2>3 DEF InsertAuthorization
  <2>6. Voting!Open(a)
    BY <2>1, <2>2, <2>3, <2>4, <2>5 DEF Voting!Open
  <2> QED BY <2>6 DEF Voting!Next
<1>4. CASE CastVote(w)
  <2>1. Admissible(job[w].id, job[w].by) /\ At(w, "vote")
    BY <1>4 DEF CastVote
  <2>2. /\ job[w].id \in Authorizations /\ job[w].by \in Actors
        /\ auth[job[w].id].status # "none"
        /\ job[w].by \notin votes[job[w].id] \cup {auth[job[w].id].by}
    BY <2>1, VoterKnown
  <2>3. /\ votes' = [votes EXCEPT ![job[w].id] = @ \cup {job[w].by}]
        /\ UNCHANGED auth
    BY <1>4, <2>1 DEF CastVote
  <2>4. Voting!Vote(job[w].id, job[w].by)
    BY <2>2, <2>3 DEF Voting!Vote
  <2> QED BY <2>2, <2>4 DEF Voting!Next
<1>5. CASE WriteDecision(w)
  <2> DEFINE a == job[w].id
  <2>1. auth' # auth /\ UNCHANGED votes
    BY <1>5 DEF WriteDecision
  <2>2. /\ a \in Authorizations
        /\ auth[a].status = "PENDING"
        /\ auth' = [auth EXCEPT ![a].status = job[w].row.status]
        /\ job[w].row.status \in {"AUTHORIZED", "REJECTED"}
        /\ job[w].row.status = "AUTHORIZED" => Backed(a)
    BY <1>5, <2>1, DecisionWritten
  <2>3. CASE job[w].row.status = "AUTHORIZED"
    BY <2>1, <2>2, <2>3 DEF Voting!Grant, Voting!Next, Backed, Cardinality, Voting!Cardinality
  <2>4. CASE job[w].row.status = "REJECTED"
    BY <2>1, <2>2, <2>4 DEF Voting!Refuse, Voting!Next
  <2> QED BY <2>2, <2>3, <2>4
<1> QED BY <1>2, <1>3, <1>4, <1>5

LEMMA StepVotes == IInv /\ [Next]_vars => [Voting!Next]_<<auth, votes>>
  BY HandleVotes DEF Next, vars

(* Engine 46 implements the abstract vote: votes accumulate, and each      *)
(* authorisation is decided once, by enough of them or by a rejection.     *)
THEOREM AuthorityImplementsVote == Spec => QuorumSpec
<1>1. Init => Voting!Init
  BY DEF Init, Voting!Init, NoAuth
<1> QED BY <1>1, StepVotes, AuthorityInvariant, PTL DEF Spec, QuorumSpec, Voting!Spec

----------------------------------------------------------------------------
(* One request at a time: w, when nobody else is anywhere.                 *)
Alone(w) == \A v \in Workers \ {w} : At(v, "idle")

Undecided(a) == auth[a].status = "PENDING" => Cardinality(votes[a]) < auth[a].need

(* What is not about to be decided has too few votes.                      *)
LEMMA TooFew ==
  ASSUME SerialSound, NEW w \in Workers, Alone(w), NEW a \in Authorizations,
         ~(At(w, "decide") /\ job[w].id = a)
  PROVE  Undecided(a)
  BY DEF SerialSound, Alone, At, Undecided

LEMMA AloneAfter ==
  ASSUME TypeOK, NEW w \in Workers, Alone(w), NEW j, Carry(w, j)
  PROVE  job'[w] = j /\ \A v \in Workers \ {w} : job'[v].at = "idle"
  BY DEF TypeOK, Carrying, Carry, Alone, At

(* A step that leaves the tables, of a request that is not at its last     *)
(* write.                                                                  *)
LEMMA SerialStays ==
  ASSUME IInv, SerialSound, NEW w \in Workers, Alone(w), ~At(w, "decide"),
         UNCHANGED <<auth, votes>>, NEW j, Carry(w, j),
         j.at = "vote" => j.count = Cardinality(votes[j.id]) + 1
  PROVE  SerialSound'
<1>1. job'[w] = j /\ \A v \in Workers \ {w} : job'[v].at = "idle"
  BY AloneAfter DEF IInv
<1>2. \A a \in Authorizations : Undecided(a)
  BY TooFew
<1>3. \A v \in Workers : job'[v].at = "vote" => job'[v].count = Cardinality(votes[job'[v].id]) + 1
  BY <1>1
<1> QED BY <1>2, <1>3 DEF SerialSound, At, Undecided

(* A vote that completes the quorum is followed by the decision of the     *)
(* same request, because its count was exact.                              *)
LEMMA VoteInTurn ==
  ASSUME IInv, SerialSound, NEW w \in Workers, Alone(w), CastVote(w)
  PROVE  SerialSound'
<1> DEFINE j == job[w]
           k == [at |-> "decide", id |-> j.id, row |-> [j.row EXCEPT !.status = "AUTHORIZED"]]
<1>0. At(w, "vote") /\ ~At(w, "decide")
  BY DEF CastVote, At
<1>1. CASE ~Admissible(j.id, j.by)
  BY <1>0, <1>1, SerialStays DEF CastVote, Return, Idle
<1>2. CASE Admissible(j.id, j.by)
  <2>1. /\ votes' = [votes EXCEPT ![j.id] = @ \cup {j.by}] /\ UNCHANGED auth
        /\ IF QuorumReached(j) THEN Carry(w, k) ELSE Carry(w, Idle)
    BY <1>0, <1>2 DEF CastVote, Return
  <2>2. PICK m : Carry(w, m) /\ (IF QuorumReached(j) THEN m = k ELSE m = Idle)
    BY <2>1
  <2>3. job'[w] = m /\ \A v \in Workers \ {w} : job'[v].at = "idle"
    BY <2>2, AloneAfter DEF IInv
  <2>4. /\ j.id \in Authorizations /\ j.row.need = auth[j.id].need
        /\ Cardinality(votes[j.id] \cup {j.by}) = Cardinality(votes[j.id]) + 1
        /\ Cardinality(votes[j.id]) \in Nat /\ auth[j.id].need \in Nat
    BY <1>0, <1>2, VoterKnown
  <2>5. /\ Cardinality(votes'[j.id]) = j.count
        /\ j.count = Cardinality(votes[j.id]) + 1
        /\ \A a \in Authorizations \ {j.id} : votes'[a] = votes[a]
    BY <1>0, <2>1, <2>4 DEF IInv, TypeOK, SerialSound
  <2>6. \A v \in Workers : job'[v].at # "vote"
    BY <2>2, <2>3 DEF Idle
  <2>7. ASSUME NEW a \in Authorizations
        PROVE  Undecided(a)' \/ \E v \in Workers : job'[v].at = "decide" /\ job'[v].id = a
    <3>1. CASE a # j.id
      BY <3>1, <1>0, <2>1, <2>5, TooFew DEF Undecided
    <3>2. CASE a = j.id /\ QuorumReached(j)
      <4>1. job'[w].at = "decide" /\ job'[w].id = a
        BY <3>2, <2>2, <2>3
      <4> QED BY <4>1
    <3>3. CASE a = j.id /\ ~QuorumReached(j)
      <4>1. Cardinality(votes'[j.id]) < auth[j.id].need
        BY <3>3, <2>4, <2>5 DEF QuorumReached
      <4> QED BY <3>3, <4>1, <2>1 DEF Undecided
    <3> QED BY <3>1, <3>2, <3>3
  <2> QED BY <2>6, <2>7 DEF SerialSound, At, Undecided
<1> QED BY <1>1, <1>2

(* The last write decides the authorisation it is about.                   *)
LEMMA DecisionInTurn ==
  ASSUME IInv, SerialSound, NEW w \in Workers, Alone(w), WriteDecision(w)
  PROVE  SerialSound'
<1> DEFINE j == job[w]
<1>1. At(w, "decide") /\ Carry(w, Idle) /\ UNCHANGED votes
  BY DEF WriteDecision, Return
<1>2. /\ j.id \in Authorizations /\ j.row \in Auth
      /\ j.row.status \in {"AUTHORIZED", "REJECTED"}
  BY <1>1, JobKinds DEF At, IInv, ReadsSound, Carried
<1>3. /\ auth'[j.id].status \in {"AUTHORIZED", "REJECTED"}
      /\ \A a \in Authorizations \ {j.id} : auth'[a] = auth[a]
  BY <1>2 DEF WriteDecision, PutAuth, IInv, TypeOK, Auth
<1>4. \A v \in Workers : job'[v].at = "idle"
  BY <1>1, AloneAfter DEF IInv, Idle
<1>5. \A a \in Authorizations : Undecided(a)'
  <2> SUFFICES ASSUME NEW a \in Authorizations PROVE Undecided(a)'
    OBVIOUS
  <2>1. CASE a = j.id
    BY <2>1, <1>3 DEF Undecided
  <2>2. CASE a # j.id
    BY <2>2, <1>1, <1>3, TooFew DEF Undecided
  <2> QED BY <2>1, <2>2
<1> QED BY <1>4, <1>5 DEF SerialSound, At, Undecided

LEMMA AuthorizationInTurn ==
  ASSUME IInv, SerialSound, NEW w \in Workers, Alone(w), InsertAuthorization(w)
  PROVE  SerialSound'
<1>1. PICK a \in Authorizations :
        /\ auth[a].status = "none"
        /\ auth' = [auth EXCEPT ![a] =
                      [status |-> "PENDING", by |-> job[w].by, need |-> job[w].need]]
  BY DEF InsertAuthorization
<1>2. At(w, "request") /\ Carry(w, Idle) /\ UNCHANGED votes
  BY DEF InsertAuthorization, Return
<1>3. job[w].need \in Nat /\ job[w].need > 0
  BY <1>2, JobKinds, AuthorityAssumption DEF At, IInv, Amounts
<1>4. votes[a] = {} /\ Cardinality({}) = 0
  BY <1>1, FS_EmptySet DEF IInv, TablesSound
<1>5. \A v \in Workers : job'[v].at = "idle"
  BY <1>2, AloneAfter DEF IInv, Idle
<1>6. ASSUME NEW b \in Authorizations PROVE Undecided(b)'
  <2>1. CASE b = a
    BY <2>1, <1>1, <1>2, <1>3, <1>4 DEF IInv, TypeOK, Undecided
  <2>2. CASE b # a
    BY <2>2, <1>1, <1>2, TooFew DEF IInv, TypeOK, Undecided, At
  <2> QED BY <2>1, <2>2
<1> QED BY <1>5, <1>6 DEF SerialSound, At, Undecided

LEMMA SerialKeeps ==
  ASSUME IInv, SerialSound, NEW w \in Workers, Alone(w), Handle(w)
  PROVE  SerialSound'
<1>1. CASE CountVotes(w)
  <2> DEFINE j == job[w]
             k == [at |-> "vote", id |-> j.id, by |-> j.by, row |-> j.row,
                   count |-> Cardinality(votes[j.id]) + 1]
  <2>1. ~At(w, "decide") /\ UNCHANGED <<auth, votes>> /\ (Carry(w, k) \/ Carry(w, Idle))
    BY <1>1 DEF CountVotes, At, Return, store
  <2>2. Idle.at # "vote" /\ k.count = Cardinality(votes[k.id]) + 1
    BY DEF Idle
  <2> QED BY <2>1, <2>2, SerialStays
<1>2. CASE DefineThreshold(w) \/ RequestAuthorization(w) \/ Approve(w) \/ Reject(w)
  <2>1. ~At(w, "decide") /\ UNCHANGED <<auth, votes>>
    BY <1>2 DEF DefineThreshold, RequestAuthorization, Approve, Reject, Receive, At, store
  <2>2. PICK j : Carry(w, j) /\ j.at # "vote"
    <3>1. CASE DefineThreshold(w)
      <4>1. PICK t \in Threshold : Carry(w, [at |-> "threshold", row |-> t])
        BY <3>1 DEF DefineThreshold, Receive
      <4> QED BY <4>1
    <3>2. CASE RequestAuthorization(w)
      <4>1. PICK u \in Actors, amount \in Amounts : \E i \in FirstCovering(amount) :
              Carry(w, [at |-> "request", by |-> u, need |-> thresholds[i].need])
        BY <3>2 DEF RequestAuthorization, Receive
      <4> QED BY <4>1
    <3>3. CASE Approve(w)
      <4>1. PICK a \in Authorizations, u \in Actors :
              Carry(w, [at |-> "count", id |-> a, by |-> u, row |-> auth[a]])
        BY <3>3 DEF Approve, Receive
      <4> QED BY <4>1
    <3>4. CASE Reject(w)
      <4>1. PICK a \in Authorizations :
              Carry(w, [at |-> "decide", id |-> a,
                        row |-> [auth[a] EXCEPT !.status = "REJECTED"]])
        BY <3>4 DEF Reject, Receive
      <4> QED BY <4>1
    <3> QED BY <1>2, <3>1, <3>2, <3>3, <3>4
  <2> QED BY <2>1, <2>2, SerialStays
<1>3. CASE AppendThreshold(w)
  BY <1>3, SerialStays DEF AppendThreshold, At, Return, Idle
<1> QED
  BY <1>1, <1>2, <1>3, AuthorizationInTurn, VoteInTurn, DecisionInTurn DEF Handle, Continue

(* Steps of other engines' requests leave it alone.                        *)
LEMMA SerialOthers ==
  ASSUME SerialSound, UNCHANGED <<auth, votes>>, NEW w \in Workers,
         \A v \in Workers \ {w} : job'[v] = job[v],
         job[w].at \notin Calls, job'[w].at \notin Calls
  PROVE  SerialSound'
<1>1. \A v \in Workers : At(v, "vote") \/ At(v, "decide") => v # w
  BY DEF At, Calls
<1>2. \A v \in Workers : At(v, "vote")' \/ At(v, "decide")' => v # w
  BY DEF At, Calls
<1> QED BY <1>1, <1>2 DEF SerialSound, At

----------------------------------------------------------------------------
(* All engines on one database.                                            *)

(* A worker moves, the others stay where they are.                         *)
Moved(w) ==
  /\ job' = [v \in Workers |-> job'[v]]
  /\ \A v \in Workers \ {w} : job'[v] = job[v]

LEMMA CarryMoves ==
  ASSUME job = [v \in Workers |-> job[v]], NEW w \in Workers, NEW j, Carry(w, j)
  PROVE  Moved(w) /\ job'[w] = j
  BY DEF Carry, Moved

----------------------------------------------------------------------------
(* Engines 47 and 48.                                                      *)

(* The local variables of a request, by where it is.                       *)
LEMMA PayJobKinds ==
  ASSUME NEW s \in Scenes, Pay(s)!TypeOK, NEW w \in Workers
  PROVE  LET j == job[w]
         IN /\ j.at = "issue" => j.key \in Cast[s].keys /\ j.payload \in Cast[s].payloads
            /\ j.at \in {"submit", "reject", "accept", "refresh", "write"} =>
                 /\ j.id \in Cast[s].instructions /\ j.row \in Pay(s)!Instr
                 /\ j = [at |-> j.at, id |-> j.id, row |-> j.row]
            /\ j.at = "reconcile" =>
                 j.id \in Cast[s].instructions /\ j.statement \in Cast[s].statements
<1>1. job[w].at \in Pay(s)!Calls => job[w] \in Pay(s)!Jobs
  BY DEF Pay!TypeOK, Pay!Carrying
<1> QED BY <1>1 DEF Pay!Jobs, Pay!Calls

LEMMA PayCarrying ==
  ASSUME NEW s \in Scenes, Pay(s)!TypeOK, NEW w \in Workers, NEW j, Carry(w, j),
         j.at \in Pay(s)!Calls => j \in Pay(s)!Jobs
  PROVE  Pay(s)!Carrying(Pay(s)!Calls, Pay(s)!Jobs)' /\ Moved(w) /\ job'[w] = j
<1>1. Moved(w) /\ job'[w] = j
  BY CarryMoves DEF Pay!TypeOK, Pay!Carrying
<1>2. \A v \in Workers : job'[v].at \in Pay(s)!Calls => job'[v] \in Pay(s)!Jobs
  BY <1>1 DEF Pay!TypeOK, Pay!Carrying, Moved
<1> QED BY <1>1, <1>2 DEF Pay!Carrying, Moved

(* Steps that leave instructions and the provider alone keep everything:   *)
(* what the provider has reported only grows.                              *)
LEMMA PayStays ==
  ASSUME NEW s \in Scenes, Pay(s)!IInv, UNCHANGED <<instr, provider, asked, calls>>,
         Pay(s)!TypeOK', \A k \in Cast[s].keys : reported[k] \subseteq reported'[k],
         \A v \in Workers : job'[v] = job[v] \/ Pay(s)!CarriedSound(job'[v])
  PROVE  Pay(s)!IInv'
<1>1. Pay(s)!TablesSound'
  BY DEF Pay!IInv, Pay!TablesSound, Pay!Issued
<1>2. ASSUME NEW v \in Workers PROVE Pay(s)!CarriedSound(job[v])'
  <2>1. Pay(s)!CarriedSound(job'[v])
    BY DEF Pay!IInv
  <2>2. job'[v].at \in {"submit", "reject", "accept", "refresh", "write"}
          => job'[v].row.key \in Cast[s].keys
    BY <2>1 DEF Pay!CarriedSound, Pay!Issued, Pay!IInv, Pay!TablesSound
  <2> QED BY <2>1, <2>2 DEF Pay!CarriedSound, Pay!RowSound, Pay!Issued
<1> QED BY <1>1, <1>2 DEF Pay!IInv

(* A request that ends carries nothing.                                    *)
LEMMA PayIdle ==
  ASSUME NEW s \in Scenes
  PROVE  Idle.at \notin Pay(s)!Calls /\ Pay(s)!CarriedSound(Idle)
  BY DEF Idle, Pay!Calls, Pay!CarriedSound

(* The row of an issued instruction, as a request carries it.              *)
LEMMA PayRow ==
  ASSUME NEW s \in Scenes, Pay(s)!IInv, NEW i \in Pay(s)!Issued
  PROVE  /\ i \in Cast[s].instructions /\ instr[i] \in Pay(s)!Instr
         /\ instr[i].key \in Cast[s].keys /\ instr[i].payload \in Cast[s].payloads
         /\ instr[i].attempts \in Nat /\ calls[instr[i].key] \in Nat
         /\ instr[i].attempts <= calls[instr[i].key]
  BY DEF Pay!IInv, Pay!TypeOK, Pay!TablesSound, Pay!Issued, Pay!Instr

LEMMA PayReadsKeep ==
  ASSUME NEW s \in Scenes, Pay(s)!IInv, NEW w \in Workers,
         \/ Pay(s)!Issue(w) \/ Pay(s)!Submit(w) \/ Pay(s)!Refresh(w) \/ Pay(s)!Reverse(w)
         \/ Pay(s)!Reconcile(w)
  PROVE  Pay(s)!IInv' /\ Moved(w) /\ job'[w].at \in Pay(s)!Calls
<1>1. ASSUME NEW j \in Pay(s)!Jobs, Pay(s)!CarriedSound(j), Carry(w, j),
             UNCHANGED <<instr, journal, matched, provider, asked, calls, reported,
                         Case(s)!Held>>
      PROVE  Pay(s)!IInv' /\ Moved(w) /\ job'[w].at \in Pay(s)!Calls
  <2>1. Pay(s)!Carrying(Pay(s)!Calls, Pay(s)!Jobs)' /\ Moved(w) /\ job'[w] = j
    BY <1>1, PayCarrying DEF Pay!IInv
  <2>2. Pay(s)!TypeOK'
    BY <1>1, <2>1 DEF Pay!IInv, Pay!TypeOK
  <2>3. Pay(s)!IInv'
    BY <1>1, <2>1, <2>2, PayStays DEF Moved
  <2> QED BY <1>1, <2>1, <2>3 DEF Pay!Jobs, Pay!Calls
<1>2. CASE Pay(s)!Issue(w)
  <2>1. PICK k \in Cast[s].keys, p \in Cast[s].payloads :
          Carry(w, [at |-> "issue", key |-> k, payload |-> p])
    BY <1>2 DEF Pay!Issue, Pay!Receive, Pay!Carry, Carry
  <2> QED BY <1>1, <1>2, <2>1 DEF Pay!Issue, Pay!records, Pay!gateway, Pay!Jobs, Pay!CarriedSound
<1>3. CASE Pay(s)!Submit(w)
  <2>1. PICK i \in Cast[s].instructions :
          /\ instr[i].status \in {"DRAFT", "FAILED"}
          /\ Carry(w, [at |-> "submit", id |-> i, row |-> instr[i]])
    BY <1>3 DEF Pay!Submit, Pay!Submittable, Pay!Receive, Pay!Carry, Carry
  <2>2. i \in Pay(s)!Issued
    BY <2>1 DEF Pay!Issued
  <2> QED BY <1>1, <1>3, <2>1, <2>2, PayRow
          DEF Pay!Submit, Pay!records, Pay!gateway, Pay!Jobs, Pay!CarriedSound, Pay!RowSound
<1>4. CASE Pay(s)!Refresh(w)
  <2>1. PICK i \in Cast[s].instructions :
          /\ instr[i].status = "SUBMITTED"
          /\ Carry(w, [at |-> "refresh", id |-> i, row |-> instr[i]])
    BY <1>4 DEF Pay!Refresh, Pay!Receive, Pay!Carry, Carry
  <2>2. i \in Pay(s)!Issued /\ provider[instr[i].key] # "none"
    BY <2>1 DEF Pay!Issued, Pay!IInv, Pay!TablesSound
  <2> QED BY <1>1, <1>4, <2>1, <2>2, PayRow
          DEF Pay!Refresh, Pay!records, Pay!gateway, Pay!Jobs, Pay!CarriedSound, Pay!RowSound
<1>5. CASE Pay(s)!Reverse(w)
  <2>1. PICK i \in Cast[s].instructions :
          /\ instr[i].status = "SETTLED"
          /\ Carry(w, [at |-> "write", id |-> i,
                       row |-> [instr[i] EXCEPT !.status = "REVERSED"]])
    BY <1>5 DEF Pay!Reverse, Pay!Receive, Pay!Carry, Carry
  <2>2. i \in Pay(s)!Issued
    BY <2>1 DEF Pay!Issued
  <2> DEFINE row == [instr[i] EXCEPT !.status = "REVERSED"]
  <2>3. /\ row \in Pay(s)!Instr
        /\ row.key = instr[i].key /\ row.payload = instr[i].payload
        /\ row.attempts = instr[i].attempts /\ row.status = "REVERSED"
    BY <2>2, PayRow DEF Pay!Instr, Pay!Statuses
  <2>4. [at |-> "write", id |-> i, row |-> row] \in Pay(s)!Jobs
    BY <2>3 DEF Pay!Jobs
  <2>5. Pay(s)!CarriedSound([at |-> "write", id |-> i, row |-> row])
    BY <2>2, <2>3, PayRow DEF Pay!CarriedSound, Pay!RowSound
  <2> QED BY <1>1, <1>5, <2>1, <2>4, <2>5 DEF Pay!Reverse, Pay!records, Pay!gateway
<1>6. CASE Pay(s)!Reconcile(w)
  <2>1. PICK i \in Cast[s].instructions, t \in Cast[s].statements, e \in BOOLEAN :
          Carry(w, [at |-> "reconcile", id |-> i, statement |-> t, equal |-> e])
    BY <1>6 DEF Pay!Reconcile, Pay!Receive, Pay!Carry, Carry, Pay!Issued
  <2> QED BY <1>1, <1>6, <2>1
          DEF Pay!Reconcile, Pay!records, Pay!gateway, Pay!Jobs, Pay!CarriedSound
<1> QED BY <1>2, <1>3, <1>4, <1>5, <1>6

(* What a step may leave behind for its own worker.                        *)
PayNext(s, w) == job'[w].at = "idle" \/ job'[w].at \in Pay(s)!Calls

(* A status is written, or refused because the row is final.               *)
LEMMA PayWriteKeeps ==
  ASSUME NEW s \in Scenes, Pay(s)!IInv, NEW i \in Pay(s)!Issued, NEW row \in Pay(s)!Instr,
         row.key = instr[i].key, row.attempts <= calls[row.key],
         row.status # "none",
         row.status = "SUBMITTED" => provider[row.key] # "none",
         row.status = "SETTLED" => "SETTLED" \in reported[row.key],
         instr' = [instr EXCEPT ![i].status = row.status, ![i].attempts = row.attempts],
         UNCHANGED <<journal, matched, provider, asked, calls, reported, Case(s)!Held>>,
         NEW w \in Workers, Carry(w, Idle)
  PROVE  Pay(s)!IInv'
<1>1. Pay(s)!Carrying(Pay(s)!Calls, Pay(s)!Jobs)' /\ Moved(w) /\ job'[w] = Idle
  BY PayCarrying, PayIdle DEF Pay!IInv
<1>2. /\ i \in Cast[s].instructions /\ instr \in [Cast[s].instructions -> Pay(s)!Instr]
      /\ row.status \in Pay(s)!Statuses /\ row.attempts \in Nat
  BY DEF Pay!IInv, Pay!TypeOK, Pay!Issued, Pay!Instr
<1>3. /\ instr'[i] = [instr[i] EXCEPT !.status = row.status, !.attempts = row.attempts]
      /\ \A k \in Cast[s].instructions \ {i} : instr'[k] = instr[k]
  BY <1>2
<1>4. /\ instr'[i].status = row.status /\ instr'[i].attempts = row.attempts
      /\ instr'[i].key = instr[i].key /\ instr'[i].payload = instr[i].payload
      /\ instr'[i] \in Pay(s)!Instr
  BY <1>2, <1>3 DEF Pay!Instr
<1>5. instr' \in [Cast[s].instructions -> Pay(s)!Instr]
  BY <1>2, <1>4
<1>6. Pay(s)!TypeOK'
  BY <1>1, <1>5 DEF Pay!IInv, Pay!TypeOK
<1>7. /\ Pay(s)!Issued' = Pay(s)!Issued
      /\ \A k \in Pay(s)!Issued : instr'[k].key = instr[k].key /\ instr'[k].payload = instr[k].payload
  BY <1>2, <1>3, <1>4 DEF Pay!Issued
<1>8. Pay(s)!TablesSound'
  <2>1. \A k, l \in Pay(s)!Issued' : instr'[k].key = instr'[l].key => k = l
    BY <1>7 DEF Pay!IInv, Pay!TablesSound
  <2>2. ASSUME NEW k \in Pay(s)!Issued
        PROVE  /\ instr'[k].key \in Cast[s].keys /\ instr'[k].payload \in Cast[s].payloads
               /\ instr'[k].attempts <= calls[instr'[k].key]
               /\ instr'[k].status = "SUBMITTED" => provider[instr'[k].key] # "none"
               /\ instr'[k].status = "SETTLED" => "SETTLED" \in reported[instr'[k].key]
    <3>1. CASE k = i
      BY <3>1, <1>4, PayRow
    <3>2. CASE k # i
      <4>1. instr'[k] = instr[k]
        BY <3>2, <1>3 DEF Pay!Issued
      <4>2. /\ instr[k].key \in Cast[s].keys /\ instr[k].payload \in Cast[s].payloads
            /\ instr[k].attempts <= calls[instr[k].key]
            /\ instr[k].status = "SUBMITTED" => provider[instr[k].key] # "none"
            /\ instr[k].status = "SETTLED" => "SETTLED" \in reported[instr[k].key]
        BY DEF Pay!IInv, Pay!TablesSound
      <4> QED BY <4>1, <4>2
    <3> QED BY <3>1, <3>2
  <2>3. ASSUME NEW k \in Cast[s].keys
        PROVE  /\ \A p \in asked'[k] :
                    \E m \in Pay(s)!Issued' : instr'[m].key = k /\ instr'[m].payload = p
               /\ provider'[k] # "none" => asked'[k] # {}
    <3>1. ASSUME NEW p \in asked[k]
          PROVE  \E m \in Pay(s)!Issued' : instr'[m].key = k /\ instr'[m].payload = p
      <4>1. PICK m \in Pay(s)!Issued : instr[m].key = k /\ instr[m].payload = p
        BY DEF Pay!IInv, Pay!TablesSound
      <4> QED BY <4>1, <1>7
    <3> QED BY <3>1 DEF Pay!IInv, Pay!TablesSound
  <2>4. \A k \in Pay(s)!Issued' :
          /\ instr'[k].key \in Cast[s].keys /\ instr'[k].payload \in Cast[s].payloads
          /\ instr'[k].attempts <= calls'[instr'[k].key]
          /\ instr'[k].status = "SUBMITTED" => provider'[instr'[k].key] # "none"
          /\ instr'[k].status = "SETTLED" => "SETTLED" \in reported'[instr'[k].key]
    BY <1>7, <2>2
  <2> QED BY <2>1, <2>3, <2>4 DEF Pay!TablesSound
<1>9. ASSUME NEW v \in Workers PROVE Pay(s)!CarriedSound(job[v])'
  <2>1. Pay(s)!CarriedSound(job'[v])
    BY <1>1, PayIdle DEF Pay!IInv, Moved
  <2> QED BY <2>1, <1>7 DEF Pay!CarriedSound, Pay!RowSound
<1> QED BY <1>6, <1>8, <1>9 DEF Pay!IInv

(* A request ends without a trace on instructions and provider.            *)
LEMMA PayEndKeeps ==
  ASSUME NEW s \in Scenes, Pay(s)!IInv, NEW w \in Workers, Carry(w, Idle),
         UNCHANGED <<instr, journal, provider, asked, calls, Case(s)!Held>>,
         matched' \in [Cast[s].instructions \X Cast[s].statements -> {"none", "yes", "no"}],
         reported' \in [Cast[s].keys -> SUBSET Pay(s)!ProviderStates],
         \A k \in Cast[s].keys : reported[k] \subseteq reported'[k]
  PROVE  Pay(s)!IInv' /\ Moved(w) /\ PayNext(s, w)
<1>1. Pay(s)!Carrying(Pay(s)!Calls, Pay(s)!Jobs)' /\ Moved(w) /\ job'[w] = Idle
  BY PayCarrying, PayIdle DEF Pay!IInv
<1>2. Pay(s)!TypeOK'
  BY <1>1 DEF Pay!IInv, Pay!TypeOK
<1>3. Pay(s)!IInv'
  BY <1>1, <1>2, PayStays, PayIdle DEF Moved
<1> QED BY <1>1, <1>3 DEF PayNext, Idle

(* The rows in which the provider's answer is recorded.                    *)
LEMMA PayAnswers ==
  ASSUME NEW s \in Scenes, NEW row \in Pay(s)!Instr
  PROVE  /\ Pay(s)!Failed(row) \in Pay(s)!Instr /\ Pay(s)!Submitted(row) \in Pay(s)!Instr
         /\ Pay(s)!Failed(row).key = row.key /\ Pay(s)!Submitted(row).key = row.key
         /\ Pay(s)!Failed(row).attempts = row.attempts + 1
         /\ Pay(s)!Submitted(row).attempts = row.attempts + 1
         /\ Pay(s)!Failed(row).status = "FAILED" /\ Pay(s)!Submitted(row).status = "SUBMITTED"
<1>1. /\ Pay(s)!Counted(row) \in Pay(s)!Instr /\ Pay(s)!Counted(row).key = row.key
      /\ Pay(s)!Counted(row).attempts = row.attempts + 1
  BY DEF Pay!Counted, Pay!Instr
<1> QED BY <1>1 DEF Pay!Failed, Pay!Submitted, Pay!Instr, Pay!Statuses

LEMMA PayCallsKeep ==
  ASSUME NEW s \in Scenes, Pay(s)!IInv, NEW w \in Workers,
         \/ Pay(s)!InsertInstruction(w) /\ instr' = instr
         \/ Pay(s)!RecordAnswer(w) \/ Pay(s)!GetStatus(w) \/ Pay(s)!WriteStatus(w)
         \/ Pay(s)!Post(w) \/ Pay(s)!InsertReconciliation(w)
  PROVE  Pay(s)!IInv' /\ Moved(w) /\ PayNext(s, w)
<1> DEFINE j == job[w]
<1> USE PayEndKeeps DEF Pay!IInv, Pay!TypeOK
<1>1. CASE Pay(s)!InsertInstruction(w) /\ instr' = instr
  BY <1>1 DEF Pay!InsertInstruction, Pay!gateway, Pay!Return, Pay!Carry, Carry, Pay!Idle, Idle
<1>2. CASE Pay(s)!RecordAnswer(w)
  <2> DEFINE row == IF j.at = "reject" THEN Pay(s)!Failed(j.row) ELSE Pay(s)!Submitted(j.row)
  <2>1. /\ Carry(w, Idle) /\ j.at \in {"reject", "accept"}
        /\ UNCHANGED <<journal, matched, provider, asked, calls, reported, Case(s)!Held>>
    BY <1>2 DEF Pay!RecordAnswer, Pay!gateway, Pay!Return, Pay!Carry, Carry, Pay!Idle, Idle, Pay!At
  <2>2. CASE instr' = instr
    BY <2>1, <2>2
  <2>3. CASE instr' # instr
    <3>1. instr' = [instr EXCEPT ![j.id].status = row.status, ![j.id].attempts = row.attempts]
      BY <1>2, <2>3 DEF Pay!RecordAnswer, Pay!PutInstr, Pay!At
    <3>2. /\ j.id \in Pay(s)!Issued /\ j.row \in Pay(s)!Instr /\ j.row.key = instr[j.id].key
          /\ j.row.attempts < calls[j.row.key]
          /\ j.at = "accept" => provider[j.row.key] # "none"
      BY <2>1, PayJobKinds DEF Pay!CarriedSound, Pay!RowSound
    <3>3. /\ row \in Pay(s)!Instr /\ row.key = j.row.key /\ row.attempts = j.row.attempts + 1
          /\ row.status = IF j.at = "reject" THEN "FAILED" ELSE "SUBMITTED"
      BY <2>1, <3>2, PayAnswers
    <3>4. calls[j.row.key] \in Nat /\ j.row.attempts \in Nat
      BY <3>2, PayRow DEF Pay!Instr
    <3>5. row.attempts <= calls[row.key]
      BY <3>2, <3>3, <3>4
    <3>6. /\ row.status \notin {"none", "SETTLED"} /\ row.key = instr[j.id].key
          /\ row.status = "SUBMITTED" => provider[row.key] # "none"
      BY <2>1, <3>2, <3>3
    <3>7. Pay(s)!IInv'
      <4> HIDE DEF row
      <4> QED BY <2>1, <3>1, <3>2, <3>3, <3>5, <3>6, PayWriteKeeps
    <3> QED BY <2>1, <3>7, CarryMoves DEF PayNext, Idle, Pay!Carrying
  <2> QED BY <2>2, <2>3
<1>3. CASE Pay(s)!GetStatus(w)
  <2> DEFINE st == provider[j.row.key]
             k == [at |-> "write", id |-> j.id, row |-> [j.row EXCEPT !.status = st]]
  <2>1. /\ j.at = "refresh" /\ j.id \in Pay(s)!Issued /\ j.row \in Pay(s)!Instr
        /\ j.row.key = instr[j.id].key /\ j.row.payload = instr[j.id].payload
        /\ j.row.attempts <= calls[j.row.key] /\ j.row.key \in Cast[s].keys
        /\ st # "none" /\ st \in Pay(s)!ProviderStates
    <3>1. j.at = "refresh" /\ Pay(s)!CarriedSound(j)
      BY <1>3 DEF Pay!GetStatus, Pay!At
    <3>2. /\ j.id \in Pay(s)!Issued /\ j.row.key = instr[j.id].key
          /\ j.row.payload = instr[j.id].payload
          /\ j.row.attempts <= calls[j.row.key] /\ st # "none"
      BY <3>1 DEF Pay!CarriedSound, Pay!RowSound
    <3>3. j.row.key \in Cast[s].keys
      BY <3>2, PayRow
    <3> QED BY <3>1, <3>2, <3>3, PayJobKinds
  <2>2. /\ UNCHANGED <<instr, journal, matched, provider, asked, calls, Case(s)!Held>>
        /\ reported' = [reported EXCEPT ![j.row.key] = @ \cup {st}]
    BY <1>3 DEF Pay!GetStatus, Pay!records
  <2>3. /\ reported' \in [Cast[s].keys -> SUBSET Pay(s)!ProviderStates]
        /\ \A x \in Cast[s].keys : reported[x] \subseteq reported'[x]
        /\ st \in reported'[j.row.key]
    BY <2>1, <2>2
  <2>4. CASE Carry(w, Idle)
    BY <2>2, <2>3, <2>4
  <2>5. CASE st # "PENDING" /\ Carry(w, k)
    <3>1. /\ k.row \in Pay(s)!Instr /\ k.row.key = j.row.key /\ k.row.payload = j.row.payload
          /\ k.row.attempts = j.row.attempts /\ k.row.status = st
      BY <2>1, <2>5 DEF Pay!Instr, Pay!Statuses, Pay!ProviderStates
    <3>2. k \in Pay(s)!Jobs /\ k.at \in Pay(s)!Calls
      BY <2>1, <3>1 DEF Pay!Jobs, Pay!Issued, Pay!Calls
    <3>3. Pay(s)!Carrying(Pay(s)!Calls, Pay(s)!Jobs)' /\ Moved(w) /\ job'[w] = k
      BY <2>5, <3>2, PayCarrying
    <3>4. Pay(s)!TypeOK'
      BY <2>2, <2>3, <3>3
    <3>5. Pay(s)!TablesSound'
      <4>1. instr' = instr /\ provider' = provider /\ asked' = asked /\ calls' = calls
            /\ Pay(s)!Issued' = Pay(s)!Issued
        BY <2>2 DEF Pay!Issued
      <4>2. \A i, n \in Pay(s)!Issued : instr[i].key = instr[n].key => i = n
        BY DEF Pay!TablesSound
      <4>3. ASSUME NEW i \in Pay(s)!Issued
            PROVE  /\ instr[i].key \in Cast[s].keys /\ instr[i].payload \in Cast[s].payloads
                   /\ instr[i].attempts <= calls[instr[i].key]
                   /\ instr[i].status = "SUBMITTED" => provider[instr[i].key] # "none"
                   /\ instr[i].status = "SETTLED" => "SETTLED" \in reported'[instr[i].key]
        <5>1. /\ instr[i].key \in Cast[s].keys /\ instr[i].payload \in Cast[s].payloads
              /\ instr[i].attempts <= calls[instr[i].key]
              /\ instr[i].status = "SUBMITTED" => provider[instr[i].key] # "none"
              /\ instr[i].status = "SETTLED" => "SETTLED" \in reported[instr[i].key]
          BY DEF Pay!TablesSound
        <5> QED BY <2>3, <5>1
      <4>4. ASSUME NEW x \in Cast[s].keys
            PROVE  /\ \A p \in asked[x] :
                        \E i \in Pay(s)!Issued : instr[i].key = x /\ instr[i].payload = p
                   /\ provider[x] # "none" => asked[x] # {}
        BY DEF Pay!TablesSound
      <4> QED BY <4>1, <4>2, <4>3, <4>4 DEF Pay!TablesSound
    <3>6. ASSUME NEW v \in Workers PROVE Pay(s)!CarriedSound(job[v])'
      <4>1. CASE v = w
        <5>1. /\ k.id \in Pay(s)!Issued' /\ k.row.key = instr'[k.id].key
              /\ k.row.payload = instr'[k.id].payload
              /\ k.row.attempts <= calls'[k.row.key] /\ k.at = "write"
              /\ k.row.status \in {"SETTLED", "FAILED", "REVERSED"}
              /\ k.row.status \in reported'[k.row.key]
          BY <2>1, <2>2, <2>3, <2>5, <3>1 DEF Pay!Issued, Pay!ProviderStates
        <5>2. job'[v] = k
          BY <3>3, <4>1
        <5> QED BY <5>1, <5>2 DEF Pay!CarriedSound, Pay!RowSound
      <4>2. CASE v # w
        <5>1. job'[v] = job[v] /\ Pay(s)!CarriedSound(job[v])
          BY <3>3, <4>2 DEF Moved
        <5>2. job[v].at \in {"submit", "reject", "accept", "refresh", "write"}
                => job[v].row.key \in Cast[s].keys
          BY <5>1, PayRow DEF Pay!CarriedSound
        <5> QED BY <5>1, <5>2, <2>2, <2>3 DEF Pay!CarriedSound, Pay!RowSound, Pay!Issued
      <4> QED BY <4>1, <4>2
    <3> QED BY <3>2, <3>3, <3>4, <3>5, <3>6 DEF PayNext
  <2> QED BY <1>3, <2>4, <2>5
          DEF Pay!GetStatus, Pay!Return, Pay!Carry, Carry, Pay!Idle, Idle
<1>4. CASE Pay(s)!WriteStatus(w)
  <2>1. /\ Carry(w, Idle) /\ j.at = "write"
        /\ UNCHANGED <<journal, matched, provider, asked, calls, reported, Case(s)!Held>>
    BY <1>4 DEF Pay!WriteStatus, Pay!gateway, Pay!Return, Pay!Carry, Carry, Pay!Idle, Idle, Pay!At
  <2>2. CASE instr' = instr
    BY <2>1, <2>2
  <2>3. CASE instr' # instr
    <3>1. instr' = [instr EXCEPT ![j.id].status = j.row.status, ![j.id].attempts = j.row.attempts]
      BY <1>4, <2>3 DEF Pay!WriteStatus, Pay!PutInstr
    <3>2. /\ j.id \in Pay(s)!Issued /\ j.row \in Pay(s)!Instr /\ j.row.key = instr[j.id].key
          /\ j.row.attempts <= calls[j.row.key]
          /\ j.row.status \in {"SETTLED", "FAILED", "REVERSED"}
          /\ j.row.status = "SETTLED" => "SETTLED" \in reported[j.row.key]
      BY <2>1, PayJobKinds DEF Pay!CarriedSound, Pay!RowSound
    <3>3. Pay(s)!IInv'
      BY <2>1, <3>1, <3>2, PayWriteKeeps
    <3> QED BY <2>1, <3>3, CarryMoves DEF PayNext, Idle, Pay!Carrying
  <2> QED BY <2>2, <2>3
<1>5. CASE Pay(s)!Post(w)
  <2>1. /\ UNCHANGED <<instr, matched, provider, asked, calls, reported, Case(s)!Held, job>>
        /\ job[w].at = "idle"
    BY <1>5 DEF Pay!Post, Pay!gateway, Pay!At
  <2>2. journal' \in [Cast[s].instructions -> Nat]
    BY <1>5 DEF Pay!Post, Pay!Issued
  <2>3. Pay(s)!TypeOK'
    BY <2>1, <2>2 DEF Pay!Carrying
  <2>4. Pay(s)!IInv'
    BY <2>1, <2>3, PayStays
  <2> QED BY <2>1, <2>4 DEF Moved, PayNext, Pay!Carrying
<1>6. CASE Pay(s)!InsertReconciliation(w)
  <2>1. matched' \in [Cast[s].instructions \X Cast[s].statements -> {"none", "yes", "no"}]
    BY <1>6, PayJobKinds DEF Pay!InsertReconciliation, Pay!At
  <2> QED BY <1>6, <2>1
          DEF Pay!InsertReconciliation, Pay!gateway, Pay!Return, Pay!Carry, Carry, Pay!Idle, Idle
<1> QED BY <1>1, <1>2, <1>3, <1>4, <1>5, <1>6

(* A key that no instruction has was never asked for, nor paid.            *)
LEMMA PayInsertKeeps ==
  ASSUME NEW s \in Scenes, Pay(s)!IInv, NEW w \in Workers, Pay(s)!InsertInstruction(w),
         instr' # instr
  PROVE  /\ Pay(s)!IInv' /\ Moved(w) /\ PayNext(s, w)
         /\ \E i \in Cast[s].instructions :
              /\ instr[i].status = "none" /\ instr'[i].status = "DRAFT"
              /\ \A k \in Cast[s].instructions \ {i} : instr'[k] = instr[k]
              /\ instr'[i].key = job[w].key
              /\ provider[job[w].key] = "none"
<1> DEFINE j == job[w]
           row == [status |-> "DRAFT", key |-> j.key, payload |-> j.payload, attempts |-> 0]
<1> USE DEF Pay!IInv, Pay!TypeOK
<1>1. PICK i \in Cast[s].instructions \ Pay(s)!Issued : instr' = [instr EXCEPT ![i] = row]
  BY DEF Pay!InsertInstruction
<1>2. /\ Pay(s)!Insertable(j.key, j.payload) /\ Carry(w, Idle) /\ j.at = "issue"
      /\ UNCHANGED <<journal, matched, provider, asked, calls, reported, Case(s)!Held>>
  BY DEF Pay!InsertInstruction, Pay!gateway, Pay!Return, Pay!Carry, Carry, Pay!Idle, Idle, Pay!At
<1>3. j.key \in Cast[s].keys /\ j.payload \in Cast[s].payloads
  BY <1>2, PayJobKinds
<1>4. row \in Pay(s)!Instr
  BY <1>3 DEF Pay!Instr, Pay!Statuses
<1>5. /\ instr' \in [Cast[s].instructions -> Pay(s)!Instr]
      /\ instr'[i] = row /\ \A k \in Cast[s].instructions \ {i} : instr'[k] = instr[k]
      /\ instr[i].status = "none"
  BY <1>1, <1>4 DEF Pay!Issued
<1>6. Pay(s)!Carrying(Pay(s)!Calls, Pay(s)!Jobs)' /\ Moved(w) /\ job'[w] = Idle
  BY <1>2, PayCarrying, PayIdle
<1>7. Pay(s)!TypeOK'
  BY <1>2, <1>5, <1>6
<1>8. Pay(s)!Issued' = Pay(s)!Issued \cup {i}
  BY <1>5 DEF Pay!Issued
<1>9. \A k \in Pay(s)!Issued : instr[k].key # j.key
  BY <1>2 DEF Pay!Insertable
<1>10. Pay(s)!TablesSound'
  <2>1. \A k, l \in Pay(s)!Issued' : instr'[k].key = instr'[l].key => k = l
    BY <1>5, <1>8, <1>9 DEF Pay!TablesSound, Pay!Issued
  <2>2. ASSUME NEW k \in Pay(s)!Issued'
        PROVE  /\ instr'[k].key \in Cast[s].keys /\ instr'[k].payload \in Cast[s].payloads
               /\ instr'[k].attempts <= calls'[instr'[k].key]
               /\ instr'[k].status = "SUBMITTED" => provider'[instr'[k].key] # "none"
               /\ instr'[k].status = "SETTLED" => "SETTLED" \in reported'[instr'[k].key]
    <3>1. CASE k = i
      BY <3>1, <1>2, <1>3, <1>5
    <3>2. CASE k # i
      <4>1. k \in Pay(s)!Issued /\ instr'[k] = instr[k]
        BY <3>2, <1>5, <1>8 DEF Pay!Issued
      <4> QED BY <4>1, <1>2 DEF Pay!TablesSound
    <3> QED BY <3>1, <3>2
  <2>3. ASSUME NEW k \in Cast[s].keys
        PROVE  /\ \A p \in asked'[k] :
                    \E m \in Pay(s)!Issued' : instr'[m].key = k /\ instr'[m].payload = p
               /\ provider'[k] # "none" => asked'[k] # {}
    <3>1. ASSUME NEW p \in asked[k]
          PROVE  \E m \in Pay(s)!Issued' : instr'[m].key = k /\ instr'[m].payload = p
      <4>1. PICK m \in Pay(s)!Issued : instr[m].key = k /\ instr[m].payload = p
        BY DEF Pay!TablesSound
      <4>2. m # i /\ m \in Cast[s].instructions
        BY <1>1 DEF Pay!Issued
      <4> QED BY <4>1, <4>2, <1>5, <1>8
    <3> QED BY <3>1, <1>2 DEF Pay!TablesSound
  <2> QED BY <2>1, <2>2, <2>3 DEF Pay!TablesSound
<1>11. ASSUME NEW v \in Workers PROVE Pay(s)!CarriedSound(job[v])'
  <2>1. Pay(s)!CarriedSound(job'[v])
    BY <1>6, PayIdle DEF Moved
  <2>2. \A k \in Pay(s)!Issued : instr'[k] = instr[k] /\ k \in Pay(s)!Issued'
    BY <1>1, <1>5, <1>8 DEF Pay!Issued
  <2> QED BY <2>1, <2>2, <1>2 DEF Pay!CarriedSound, Pay!RowSound
<1>12. provider[j.key] = "none"
  <2> SUFFICES ASSUME provider[j.key] # "none" PROVE FALSE
    OBVIOUS
  <2>1. PICK p \in asked[j.key] : TRUE
    BY <1>3 DEF Pay!TablesSound
  <2>2. PICK m \in Pay(s)!Issued : instr[m].key = j.key
    BY <1>3, <2>1 DEF Pay!TablesSound
  <2> QED BY <2>2, <1>9
<1> QED BY <1>5, <1>6, <1>7, <1>10, <1>11, <1>12 DEF PayNext, Idle

(* The provider is asked what the instruction of the key says.             *)
LEMMA PaySubmitKeeps ==
  ASSUME NEW s \in Scenes, Pay(s)!IInv, NEW w \in Workers, Pay(s)!SubmitPayment(w)
  PROVE  Pay(s)!IInv' /\ Moved(w) /\ PayNext(s, w)
<1> DEFINE j == job[w]
           k == j.row.key
           next == job'[w]
<1> USE DEF Pay!IInv, Pay!TypeOK
<1>1. j.at = "submit" /\ Pay(s)!CarriedSound(j)
  BY DEF Pay!SubmitPayment, Pay!At
<1>2. /\ j.id \in Pay(s)!Issued /\ j.row \in Pay(s)!Instr
      /\ k = instr[j.id].key /\ j.row.payload = instr[j.id].payload
      /\ j.row.attempts <= calls[k] /\ k \in Cast[s].keys
      /\ j.row.payload \in Cast[s].payloads /\ calls[k] \in Nat /\ j.row.attempts \in Nat
  <2>1. /\ j.id \in Pay(s)!Issued /\ j.row \in Pay(s)!Instr
        /\ k = instr[j.id].key /\ j.row.payload = instr[j.id].payload
        /\ j.row.attempts <= calls[k]
    BY <1>1, PayJobKinds DEF Pay!CarriedSound, Pay!RowSound
  <2>2. /\ instr[j.id].key \in Cast[s].keys /\ instr[j.id].payload \in Cast[s].payloads
        /\ calls[instr[j.id].key] \in Nat
    BY <2>1, PayRow
  <2> QED BY <2>1, <2>2 DEF Pay!Instr
<1>3. /\ UNCHANGED <<instr, journal, matched, reported, Case(s)!Held>>
      /\ calls' = [calls EXCEPT ![k] = @ + 1]
      /\ asked' = [asked EXCEPT ![k] = @ \cup {j.row.payload}]
  BY DEF Pay!SubmitPayment, Pay!records
<1>4. \/ /\ provider' = [provider EXCEPT ![k] = IF @ \in {"none", "FAILED"} THEN "PENDING" ELSE @]
         /\ Carry(w, [j EXCEPT !.at = "accept"])
      \/ provider' = provider /\ Carry(w, [j EXCEPT !.at = "reject"])
  BY DEF Pay!SubmitPayment, Pay!Accepts, Pay!Rejects, Pay!Carry, Carry
<1>5. PICK at \in {"accept", "reject"} :
        Carry(w, [at |-> at, id |-> j.id, row |-> j.row])
        /\ (at = "accept" => provider' = [provider EXCEPT ![k] = IF @ \in {"none", "FAILED"} THEN "PENDING" ELSE @])
        /\ (at = "reject" => provider' = provider)
  <2>1. j = [at |-> j.at, id |-> j.id, row |-> j.row]
    BY <1>1, PayJobKinds
  <2>2. \A a : [j EXCEPT !.at = a] = [at |-> a, id |-> j.id, row |-> j.row]
    BY <2>1
  <2> QED BY <1>4, <2>2
<1>6. /\ Pay(s)!Carrying(Pay(s)!Calls, Pay(s)!Jobs)' /\ Moved(w)
      /\ job'[w] = [at |-> at, id |-> j.id, row |-> j.row]
  <2>1. [at |-> at, id |-> j.id, row |-> j.row] \in Pay(s)!Jobs
    BY <1>2 DEF Pay!Jobs, Pay!Issued
  <2> QED BY <1>5, <2>1, PayCarrying
<1>7. /\ provider' \in [Cast[s].keys -> Pay(s)!ProviderStates]
      /\ \A x \in Cast[s].keys : provider[x] # "none" => provider'[x] # "none"
      /\ at = "accept" => provider'[k] # "none"
      /\ \A x \in Cast[s].keys \ {k} : provider'[x] = provider[x]
  BY <1>2, <1>5 DEF Pay!ProviderStates
<1>8. /\ asked' \in [Cast[s].keys -> SUBSET Cast[s].payloads]
      /\ asked'[k] = asked[k] \cup {j.row.payload}
      /\ \A x \in Cast[s].keys \ {k} : asked'[x] = asked[x]
  BY <1>2, <1>3
<1>9. /\ calls' \in [Cast[s].keys -> Nat] /\ calls'[k] = calls[k] + 1
      /\ \A x \in Cast[s].keys \ {k} : calls'[x] = calls[x]
  <2>1. calls \in [Cast[s].keys -> Nat] /\ k \in Cast[s].keys /\ calls[k] + 1 \in Nat
    BY <1>2
  <2>2. calls' = [calls EXCEPT ![k] = calls[k] + 1]
    BY <1>3
  <2> HIDE DEF k
  <2>3. calls' \in [Cast[s].keys -> Nat]
    BY <2>1, <2>2
  <2>4. calls'[k] = calls[k] + 1
    BY <2>1, <2>2
  <2>5. \A x \in Cast[s].keys \ {k} : calls'[x] = calls[x]
    BY <2>1, <2>2
  <2> QED BY <2>3, <2>4, <2>5
<1>10. Pay(s)!TypeOK'
  <2>1. /\ instr \in [Cast[s].instructions -> Pay(s)!Instr]
        /\ journal \in [Cast[s].instructions -> Nat]
        /\ matched \in [Cast[s].instructions \X Cast[s].statements -> {"none", "yes", "no"}]
        /\ Case(s)!Held \subseteq Cast[s].releases
        /\ reported \in [Cast[s].keys -> SUBSET Pay(s)!ProviderStates]
    OBVIOUS
  <2>2. UNCHANGED <<instr, journal, matched, reported, Case(s)!Held, Pay(s)!Instr, Pay(s)!ProviderStates>>
    BY <1>3 DEF Pay!Instr, Pay!ProviderStates
  <2> QED BY <2>1, <2>2, <1>6, <1>7, <1>8, <1>9
<1>11. Pay(s)!TablesSound'
  <2>1. ASSUME NEW i \in Pay(s)!Issued
        PROVE  /\ instr[i].key \in Cast[s].keys /\ instr[i].payload \in Cast[s].payloads
               /\ instr[i].attempts <= calls'[instr[i].key]
               /\ instr[i].status = "SUBMITTED" => provider'[instr[i].key] # "none"
               /\ instr[i].status = "SETTLED" => "SETTLED" \in reported[instr[i].key]
    <3>1. /\ instr[i].key \in Cast[s].keys /\ instr[i].payload \in Cast[s].payloads
          /\ instr[i].attempts \in Nat /\ calls[instr[i].key] \in Nat
          /\ instr[i].attempts <= calls[instr[i].key]
      BY PayRow
    <3>2. instr[i].attempts <= calls'[instr[i].key]
      BY <3>1, <1>9
    <3> QED BY <3>1, <3>2, <1>7 DEF Pay!TablesSound
  <2>2. ASSUME NEW x \in Cast[s].keys
        PROVE  /\ \A p \in asked'[x] : \E i \in Pay(s)!Issued : instr[i].key = x /\ instr[i].payload = p
               /\ provider'[x] # "none" => asked'[x] # {}
    <3>1. /\ \A p \in asked[x] : \E i \in Pay(s)!Issued : instr[i].key = x /\ instr[i].payload = p
          /\ provider[x] # "none" => asked[x] # {}
      BY DEF Pay!TablesSound
    <3>2. CASE x = k
      <4>1. asked'[x] = asked[x] \cup {j.row.payload}
        BY <3>2, <1>8
      <4>2. instr[j.id].key = x /\ instr[j.id].payload = j.row.payload /\ j.id \in Pay(s)!Issued
        BY <3>2, <1>2
      <4>3. ASSUME NEW p \in asked'[x]
            PROVE  \E i \in Pay(s)!Issued : instr[i].key = x /\ instr[i].payload = p
        BY <4>1, <4>2, <3>1
      <4> QED BY <4>1, <4>3
    <3>3. CASE x # k
      <4>1. asked'[x] = asked[x] /\ provider'[x] = provider[x]
        BY <3>3, <1>7, <1>8
      <4> QED BY <4>1, <3>1
    <3> QED BY <3>2, <3>3
  <2>3. Pay(s)!Issued' = Pay(s)!Issued /\ instr' = instr /\ reported' = reported
    BY <1>3 DEF Pay!Issued
  <2> QED BY <2>1, <2>2, <2>3 DEF Pay!TablesSound
<1>12. ASSUME NEW v \in Workers PROVE Pay(s)!CarriedSound(job[v])'
  <2>0. Pay(s)!Issued' = Pay(s)!Issued /\ instr' = instr /\ reported' = reported
    BY <1>3 DEF Pay!Issued
  <2>1. CASE v = w
    <3>1. /\ next.at = at /\ next.id = j.id /\ next.row = j.row
      BY <1>6
    <3>2. /\ j.row.attempts < calls'[k] /\ j.row.attempts <= calls'[k]
      BY <1>2, <1>9
    <3> QED BY <2>0, <2>1, <3>1, <3>2, <1>2, <1>7 DEF Pay!CarriedSound, Pay!RowSound
  <2>2. CASE v # w
    <3>1. job'[v] = job[v] /\ Pay(s)!CarriedSound(job[v])
      BY <1>6, <2>2 DEF Moved
    <3>2. CASE job[v].at \in {"submit", "reject", "accept", "refresh", "write"}
      <4>1. /\ job[v].row.key \in Cast[s].keys /\ job[v].row \in Pay(s)!Instr
            /\ job[v].row.attempts \in Nat
        BY <3>1, <3>2, PayRow, PayJobKinds DEF Pay!CarriedSound, Pay!Instr
      <4>2. /\ job[v].row.attempts <= calls[job[v].row.key]
              => job[v].row.attempts <= calls'[job[v].row.key]
            /\ job[v].row.attempts < calls[job[v].row.key]
              => job[v].row.attempts < calls'[job[v].row.key]
        BY <4>1, <1>9
      <4> QED BY <2>0, <3>1, <3>2, <4>1, <4>2, <1>7 DEF Pay!CarriedSound, Pay!RowSound
    <3> QED BY <3>1, <3>2 DEF Pay!CarriedSound
  <2> QED BY <2>1, <2>2
<1> QED BY <1>6, <1>10, <1>11, <1>12 DEF PayNext, Pay!Calls

(* The provider settles, fails or takes back what it has under way.        *)
LEMMA PayProviderKeeps ==
  ASSUME NEW s \in Scenes, Pay(s)!IInv, Pay(s)!ProviderSettles
  PROVE  Pay(s)!IInv'
<1> USE DEF Pay!IInv, Pay!TypeOK
<1>1. UNCHANGED <<instr, journal, matched, asked, calls, reported, Case(s)!Held, job>>
  BY DEF Pay!ProviderSettles, Pay!records
<1>2. /\ provider' \in [Cast[s].keys -> Pay(s)!ProviderStates]
      /\ \A k \in Cast[s].keys : provider'[k] # "none" <=> provider[k] # "none"
  BY DEF Pay!ProviderSettles, Pay!ProviderStates
<1>3. Pay(s)!TypeOK'
  BY <1>1, <1>2 DEF Pay!Carrying
<1>4. Pay(s)!TablesSound'
  BY <1>1, <1>2 DEF Pay!TablesSound, Pay!Issued
<1>5. ASSUME NEW v \in Workers PROVE Pay(s)!CarriedSound(job[v])'
  <2>1. Pay(s)!CarriedSound(job[v])
    OBVIOUS
  <2>2. job[v].at \in {"submit", "reject", "accept", "refresh", "write"}
          => job[v].row.key \in Cast[s].keys
    BY <2>1, PayRow DEF Pay!CarriedSound
  <2> QED BY <2>1, <2>2, <1>1, <1>2 DEF Pay!CarriedSound, Pay!RowSound, Pay!Issued
<1> QED BY <1>3, <1>4, <1>5

LEMMA PayDieKeeps ==
  ASSUME NEW s \in Scenes, Pay(s)!IInv, Pay(s)!TypeOK, NEW w \in Workers, Carry(w, Idle),
         UNCHANGED <<paymentVars, Case(s)!Held>>
  PROVE  Pay(s)!IInv' /\ Moved(w)
  BY PayEndKeeps DEF Pay!TypeOK, paymentVars

LEMMA PayHandleKeeps ==
  ASSUME NEW s \in Scenes, Pay(s)!IInv, NEW w \in Workers, Pay(s)!Handle(w)
  PROVE  Pay(s)!IInv' /\ Moved(w) /\ PayNext(s, w)
  BY PayReadsKeep, PayCallsKeep, PayInsertKeeps, PaySubmitKeeps DEF Pay!Handle, PayNext

(* Steps of other engines' requests keep the invariant.                    *)
LEMMA PayOthersKeep ==
  ASSUME NEW s \in Scenes, Pay(s)!IInv, UNCHANGED paymentVars,
         Case(s)!Held' \subseteq Cast[s].releases,
         NEW w \in Workers, Moved(w), job'[w].at \notin Pay(s)!Calls
  PROVE  Pay(s)!IInv'
<1>1. Pay(s)!TypeOK'
  BY DEF Pay!IInv, Pay!TypeOK, Pay!Carrying, paymentVars, Moved
<1>2. \A v \in Workers : job'[v] = job[v] \/ Pay(s)!CarriedSound(job'[v])
  BY DEF Moved, Pay!CarriedSound, Pay!Calls
<1> QED BY <1>1, <1>2, PayStays DEF paymentVars

----------------------------------------------------------------------------
(* Engines 49 and 50.                                                      *)

CaseTyped(s) ==
  /\ dispute \in [Cast[s].disputes -> Case(s)!DisputeRec]
  /\ decided \subseteq Cast[s].disputes
  /\ hold \in [Cast[s].disputes -> {"none", "active", "released"}]
  /\ filings \in [Cast[s].disputes -> Nat]
  /\ account \in [Cast[s].accounts -> Case(s)!AccountRec]
  /\ certificates \in [Cast[s].accounts -> Nat]

(* What the tables of disputes and accounts never take back.               *)
CaseLater(s) ==
  /\ \A d \in Cast[s].disputes :
       /\ dispute[d].status # "none" => dispute'[d].status # "none"
       /\ dispute[d].status = "CLOSED" => dispute'[d].status = "CLOSED"
  /\ decided \subseteq decided'
  /\ \A a \in Cast[s].accounts : account[a].status # "none" =>
       account'[a].status # "none" /\ account'[a].owed = account[a].owed

CaseNext(s, w) == job'[w].at = "idle" \/ job'[w].at \in Case(s)!Calls

(* The local variables of a request, by where it is.                       *)
LEMMA CaseJobKinds ==
  ASSUME NEW s \in Scenes, Case(s)!TypeOK, NEW w \in Workers
  PROVE  LET j == job[w]
         IN /\ j.at \in {"placeHold", "file", "decision", "status", "close", "lift"} =>
                 j.id \in Cast[s].disputes
            /\ j.at = "status" => j.to \in {"DECIDED", "APPEALED"}
            /\ j.at \in {"closeAccount", "checkIssued", "certify"} =>
                 j.id \in Cast[s].accounts /\ j = [at |-> j.at, id |-> j.id]
<1>1. job[w].at \in Case(s)!Calls => job[w] \in Case(s)!Jobs
  BY DEF Case!TypeOK, Case!Carrying
<1> QED BY <1>1 DEF Case!Jobs, Case!Calls

(* A hold is on a release request, and only while its dispute is raised.   *)
LEMMA HeldTyped ==
  ASSUME NEW s \in Scenes, CaseTyped(s)
  PROVE  Case(s)!Held \subseteq Cast[s].releases
  BY DEF CaseTyped, Case!Held, Case!Raised, Case!DisputeRec, Case!NoDispute

LEMMA CaseStep ==
  ASSUME NEW s \in Scenes, Case(s)!IInv, NEW w \in Workers, NEW j, Carry(w, j),
         j.at = "idle" \/ (j.at \in Case(s)!Calls /\ j \in Case(s)!Jobs),
         CaseTyped(s)', CaseLater(s), Case(s)!TablesSound', Case(s)!CarriedSound(j)'
  PROVE  Case(s)!IInv' /\ Moved(w) /\ job'[w] = j /\ CaseNext(s, w)
<1>1. Moved(w) /\ job'[w] = j
  BY CarryMoves DEF Case!IInv, Case!TypeOK, Case!Carrying
<1>2. "idle" \notin Case(s)!Calls
  BY DEF Case!Calls
<1>3. \A v \in Workers : job'[v].at \in Case(s)!Calls => job'[v] \in Case(s)!Jobs
  BY <1>1, <1>2 DEF Case!IInv, Case!TypeOK, Case!Carrying, Moved
<1>4. Case(s)!TypeOK'
  BY <1>1, <1>3 DEF Case!TypeOK, Case!Carrying, CaseTyped, Moved
<1>5. ASSUME NEW v \in Workers PROVE Case(s)!CarriedSound(job[v])'
  <2>1. CASE v = w
    BY <1>1, <2>1 DEF Case!CarriedSound
  <2>2. CASE v # w
    <3>1. job'[v] = job[v] /\ Case(s)!CarriedSound(job[v])
      BY <1>1, <2>2 DEF Moved, Case!IInv
    <3>2. job[v].at = "closeAccount" => job[v].id \in Cast[s].accounts
      BY CaseJobKinds DEF Case!IInv
    <3> QED BY <3>1, <3>2 DEF Case!CarriedSound, CaseLater, Case!Raised, Case!IInv, Case!TypeOK
  <2> QED BY <2>1, <2>2
<1> QED BY <1>1, <1>4, <1>5 DEF Case!IInv, CaseNext

LEMMA CaseReads ==
  ASSUME NEW s \in Scenes, Case(s)!IInv, NEW w \in Workers, NEW j, Carry(w, j),
         j.at = "idle" \/ (j.at \in Case(s)!Calls /\ j \in Case(s)!Jobs),
         Case(s)!CarriedSound(j), UNCHANGED caseVars
  PROVE  Case(s)!IInv' /\ Moved(w) /\ job'[w] = j /\ CaseNext(s, w)
<1>1. CaseTyped(s)' /\ CaseLater(s)
  BY DEF caseVars, CaseTyped, CaseLater, Case!IInv, Case!TypeOK
<1>2. Case(s)!TablesSound' /\ Case(s)!CarriedSound(j)'
  BY DEF caseVars, Case!IInv, Case!TablesSound, Case!CarriedSound, Case!OnlyClosureLifts,
         Case!OneCertificate, Case!Raised
<1> QED BY <1>1, <1>2, CaseStep

(* A request that ends carries nothing.                                    *)
LEMMA CaseIdle ==
  ASSUME NEW s \in Scenes
  PROVE  Idle.at = "idle" /\ Case(s)!CarriedSound(Idle) /\ Case(s)!CarriedSound(Idle)'
  BY DEF Idle, Case!CarriedSound

LEMMA CaseReadsKeep ==
  ASSUME NEW s \in Scenes, Case(s)!IInv, NEW w \in Workers,
         \/ Case(s)!File(w) \/ Case(s)!Decide(w) \/ Case(s)!Appeal(w) \/ Case(s)!Close(w)
         \/ Case(s)!CloseAccount(w) \/ Case(s)!IssueCertificate(w) \/ Case(s)!CheckIssued(w)
  PROVE  Case(s)!IInv' /\ Moved(w) /\ CaseNext(s, w)
<1>0. UNCHANGED caseVars
  BY DEF Case!File, Case!Decide, Case!Appeal, Case!Close, Case!CloseAccount,
         Case!IssueCertificate, Case!CheckIssued, caseVars, Case!disputeVars, Case!accountVars
<1> USE DEF Case!Receive, Case!Carry, Carry, Case!Jobs, Case!Calls, Case!CarriedSound
<1>1. CASE Case(s)!File(w)
  <2>1. PICK d \in Case(s)!Raised : Carry(w, [at |-> "file", id |-> d])
    BY <1>1 DEF Case!File
  <2>2. d \in Cast[s].disputes
    BY DEF Case!Raised
  <2> QED BY <1>0, <2>1, <2>2, CaseReads
<1>2. CASE Case(s)!Decide(w)
  <2>1. PICK d \in Case(s)!Raised : Carry(w, [at |-> "decision", id |-> d])
    BY <1>2 DEF Case!Decide
  <2>2. d \in Cast[s].disputes
    BY DEF Case!Raised
  <2> QED BY <1>0, <2>1, <2>2, CaseReads
<1>3. CASE Case(s)!Appeal(w)
  <2>1. PICK d \in Case(s)!Raised : /\ dispute[d].status = "DECIDED"
                                    /\ Carry(w, [at |-> "status", id |-> d, to |-> "APPEALED"])
    BY <1>3 DEF Case!Appeal
  <2>2. d \in Cast[s].disputes /\ d \in decided
    BY <2>1 DEF Case!Raised, Case!IInv, Case!TablesSound
  <2> QED BY <1>0, <2>1, <2>2, CaseReads
<1>4. CASE Case(s)!Close(w)
  <2>1. PICK d \in Case(s)!Raised : /\ dispute[d].status \in {"DECIDED", "APPEALED"}
                                    /\ Carry(w, [at |-> "close", id |-> d])
    BY <1>4 DEF Case!Close
  <2>2. d \in Cast[s].disputes /\ d \in decided
    BY <2>1 DEF Case!Raised, Case!IInv, Case!TablesSound
  <2> QED BY <1>0, <2>1, <2>2, CaseReads
<1>5. CASE Case(s)!CloseAccount(w)
  <2>1. PICK a \in Cast[s].accounts : /\ account[a].status = "DRAFT" /\ account[a].owed = 0
                                      /\ Carry(w, [at |-> "closeAccount", id |-> a])
    BY <1>5 DEF Case!CloseAccount
  <2> QED BY <1>0, <2>1, CaseReads
<1>6. CASE Case(s)!IssueCertificate(w)
  <2>1. PICK a \in Cast[s].accounts : Carry(w, [at |-> "checkIssued", id |-> a])
    BY <1>6 DEF Case!IssueCertificate
  <2> QED BY <1>0, <2>1, CaseReads
<1>7. CASE Case(s)!CheckIssued(w)
  <2>1. /\ job[w] = [at |-> "checkIssued", id |-> job[w].id] /\ job[w].id \in Cast[s].accounts
        /\ Carry(w, Idle) \/ Carry(w, [job[w] EXCEPT !.at = "certify"])
    BY <1>7, CaseJobKinds
       DEF Case!CheckIssued, Case!At, Case!Return, Case!Idle, Idle, Case!IInv
  <2>2. [job[w] EXCEPT !.at = "certify"] = [at |-> "certify", id |-> job[w].id]
    BY <2>1
  <2> QED BY <1>0, <2>1, <2>2, CaseReads, CaseIdle
<1> QED BY <1>1, <1>2, <1>3, <1>4, <1>5, <1>6, <1>7

(* A status is written, or refused because the dispute is CLOSED.          *)
LEMMA CasePutKeeps ==
  ASSUME NEW s \in Scenes, Case(s)!IInv, NEW d \in Case(s)!Raised \cap decided,
         NEW to \in {"DECIDED", "APPEALED", "CLOSED"}, Case(s)!PutStatus(d, to),
         UNCHANGED <<decided, hold, filings, account, certificates>>
  PROVE  /\ CaseTyped(s)' /\ CaseLater(s) /\ Case(s)!TablesSound'
         /\ Case(s)!Raised' = Case(s)!Raised
         /\ dispute[d].status = "CLOSED" => dispute' = dispute
         /\ dispute'[d].status = IF dispute[d].status = "CLOSED" THEN "CLOSED" ELSE to
         /\ \A x \in Cast[s].disputes \ {d} : dispute'[x] = dispute[x]
         /\ \A x \in Cast[s].disputes : dispute'[x].release = dispute[x].release
<1> USE DEF Case!IInv, Case!TypeOK
<1>1. d \in Cast[s].disputes /\ dispute[d].status # "none" /\ d \in decided
  BY DEF Case!Raised
<1>2. /\ dispute[d].status \in {"OPEN", "DECIDED", "APPEALED", "CLOSED"}
      /\ dispute[d].release \in Cast[s].releases
      /\ dispute[d] = [status |-> dispute[d].status, release |-> dispute[d].release]
  BY <1>1 DEF Case!DisputeRec, Case!NoDispute
<1>3. /\ dispute'[d].status = IF dispute[d].status = "CLOSED" THEN "CLOSED" ELSE to
      /\ dispute'[d].release = dispute[d].release
      /\ dispute'[d] \in Case(s)!DisputeRec
      /\ \A x \in Cast[s].disputes \ {d} : dispute'[x] = dispute[x]
      /\ dispute' \in [Cast[s].disputes -> Case(s)!DisputeRec]
      /\ dispute[d].status = "CLOSED" => dispute' = dispute
  BY <1>1, <1>2 DEF Case!PutStatus, Case!DisputeRec
<1>4. CaseTyped(s)' /\ CaseLater(s) /\ Case(s)!Raised' = Case(s)!Raised
  BY <1>1, <1>3 DEF CaseTyped, CaseLater, Case!Raised
<1>5. Case(s)!TablesSound'
  BY <1>1, <1>3 DEF Case!TablesSound, Case!OnlyClosureLifts, Case!OneCertificate
<1> QED BY <1>3, <1>4, <1>5

LEMMA CaseDisputesKeep ==
  ASSUME NEW s \in Scenes, Case(s)!IInv, NEW w \in Workers,
         \/ Case(s)!Raise(w) \/ Case(s)!PlaceHold(w) \/ Case(s)!AppendFiling(w)
         \/ Case(s)!AppendDecision(w) \/ Case(s)!WriteStatus(w) \/ Case(s)!WriteClosed(w)
         \/ Case(s)!LiftHold(w)
  PROVE  Case(s)!IInv' /\ Moved(w) /\ CaseNext(s, w)
<1> DEFINE j == job[w]
<1> USE DEF Case!IInv, Case!TypeOK
<1>0. Case(s)!CarriedSound(j)
  OBVIOUS
<1>1. CASE Case(s)!Raise(w)
  <2>1. PICK d \in Cast[s].disputes \ Case(s)!Raised, r \in Cast[s].releases :
          /\ dispute' = [dispute EXCEPT ![d] = [status |-> "OPEN", release |-> r]]
          /\ Carry(w, [at |-> "placeHold", id |-> d])
    BY <1>1 DEF Case!Raise, Case!Receive, Case!Carry, Carry
  <2>2. UNCHANGED <<decided, hold, filings, account, certificates>>
    BY <1>1 DEF Case!Raise, Case!accountVars
  <2>3. /\ dispute'[d] = [status |-> "OPEN", release |-> r] /\ dispute[d].status = "none"
        /\ \A x \in Cast[s].disputes \ {d} : dispute'[x] = dispute[x]
    BY <2>1 DEF Case!Raised
  <2>4. CaseTyped(s)' /\ CaseLater(s)
    BY <2>1, <2>2, <2>3 DEF CaseTyped, CaseLater, Case!DisputeRec
  <2>5. Case(s)!TablesSound'
    BY <2>2, <2>3 DEF Case!TablesSound, Case!OnlyClosureLifts, Case!OneCertificate
  <2>6. /\ [at |-> "placeHold", id |-> d] \in Case(s)!Jobs
        /\ Case(s)!CarriedSound([at |-> "placeHold", id |-> d])'
    BY <2>3 DEF Case!Jobs, Case!CarriedSound, Case!Raised
  <2> QED BY <2>1, <2>4, <2>5, <2>6, CaseStep DEF Case!Calls
<1>2. CASE Case(s)!PlaceHold(w)
  <2>1. /\ j.id \in Cast[s].disputes /\ hold' = [hold EXCEPT ![j.id] = "active"]
        /\ Carry(w, Idle) /\ UNCHANGED <<dispute, decided, filings, account, certificates>>
    BY <1>2, CaseJobKinds
       DEF Case!PlaceHold, Case!At, Case!Return, Case!Carry, Carry, Case!Idle, Idle, Case!accountVars
  <2>2. CaseTyped(s)' /\ CaseLater(s) /\ Case(s)!TablesSound'
    BY <2>1 DEF CaseTyped, CaseLater, Case!TablesSound, Case!OnlyClosureLifts, Case!OneCertificate
  <2> QED BY <2>1, <2>2, CaseStep, CaseIdle
<1>3. CASE Case(s)!AppendFiling(w)
  <2>1. /\ filings' = [filings EXCEPT ![j.id] = @ + 1] /\ Carry(w, Idle)
        /\ UNCHANGED <<dispute, decided, hold, account, certificates>>
        /\ j.id \in Cast[s].disputes
    BY <1>3, CaseJobKinds
       DEF Case!AppendFiling, Case!At, Case!Return, Case!Carry, Carry, Case!Idle, Idle,
           Case!accountVars
  <2>2. CaseTyped(s)' /\ CaseLater(s) /\ Case(s)!TablesSound'
    BY <2>1 DEF CaseTyped, CaseLater, Case!TablesSound, Case!OnlyClosureLifts, Case!OneCertificate
  <2> QED BY <2>1, <2>2, CaseStep, CaseIdle
<1>4. CASE Case(s)!AppendDecision(w)
  <2>1. PICK d \in Case(s)!Raised \cap Cast[s].disputes :
          /\ UNCHANGED <<dispute, hold, filings, account, certificates>>
          /\ \/ Carry(w, Idle) /\ UNCHANGED decided
             \/ /\ decided' = decided \cup {d}
                /\ Carry(w, [at |-> "status", id |-> d, to |-> "DECIDED"])
    BY <1>0, <1>4, CaseJobKinds
       DEF Case!AppendDecision, Case!At, Case!Return, Case!Carry, Carry, Case!Idle, Idle,
           Case!accountVars, Case!CarriedSound
  <2>2. CaseTyped(s)' /\ CaseLater(s) /\ Case(s)!TablesSound'
    BY <2>1 DEF CaseTyped, CaseLater, Case!TablesSound, Case!OnlyClosureLifts, Case!OneCertificate
  <2>3. CASE Carry(w, Idle)
    BY <2>2, <2>3, CaseStep, CaseIdle
  <2>4. CASE /\ decided' = decided \cup {d}
             /\ Carry(w, [at |-> "status", id |-> d, to |-> "DECIDED"])
    <3>1. /\ [at |-> "status", id |-> d, to |-> "DECIDED"] \in Case(s)!Jobs
          /\ Case(s)!CarriedSound([at |-> "status", id |-> d, to |-> "DECIDED"])'
      BY <2>1, <2>4 DEF Case!Jobs, Case!CarriedSound, Case!Raised
    <3> QED BY <2>2, <2>4, <3>1, CaseStep DEF Case!Calls
  <2> QED BY <2>1, <2>3, <2>4
<1>5. CASE Case(s)!WriteStatus(w)
  <2>1. /\ j.id \in Case(s)!Raised \cap decided /\ j.to \in {"DECIDED", "APPEALED", "CLOSED"}
        /\ Case(s)!PutStatus(j.id, j.to) /\ Carry(w, Idle)
        /\ UNCHANGED <<decided, hold, filings, account, certificates>>
    BY <1>0, <1>5, CaseJobKinds
       DEF Case!WriteStatus, Case!At, Case!Return, Case!Carry, Carry, Case!Idle, Idle,
           Case!accountVars, Case!CarriedSound
  <2> QED BY <2>1, CasePutKeeps, CaseStep, CaseIdle
<1>6. CASE Case(s)!WriteClosed(w)
  <2>1. PICK d \in Case(s)!Raised \cap decided :
          /\ d \in Cast[s].disputes
          /\ Case(s)!PutStatus(d, "CLOSED")
          /\ Carry(w, Idle) \/ Carry(w, [at |-> "lift", id |-> d])
          /\ UNCHANGED <<decided, hold, filings, account, certificates>>
    BY <1>0, <1>6, CaseJobKinds
       DEF Case!WriteClosed, Case!At, Case!Return, Case!Carry, Carry, Case!Idle, Idle,
           Case!accountVars, Case!CarriedSound
  <2>2. /\ CaseTyped(s)' /\ CaseLater(s) /\ Case(s)!TablesSound'
        /\ Case(s)!Raised' = Case(s)!Raised /\ dispute'[d].status = "CLOSED"
    BY <2>1, CasePutKeeps
  <2>3. /\ [at |-> "lift", id |-> d] \in Case(s)!Jobs
        /\ Case(s)!CarriedSound([at |-> "lift", id |-> d])'
    BY <2>1, <2>2 DEF Case!Jobs, Case!CarriedSound
  <2> QED BY <2>1, <2>2, <2>3, CaseStep, CaseIdle DEF Case!Calls
<1>7. CASE Case(s)!LiftHold(w)
  <2>1. /\ j.id \in Cast[s].disputes /\ dispute[j.id].status = "CLOSED" /\ Carry(w, Idle)
        /\ UNCHANGED <<dispute, decided, filings, account, certificates>>
        /\ hold' = [d \in Cast[s].disputes |->
                      IF d \in Case(s)!Lifted(j.id) /\ hold[d] = "active" THEN "released"
                      ELSE hold[d]]
    BY <1>0, <1>7, CaseJobKinds
       DEF Case!LiftHold, Case!At, Case!Return, Case!Carry, Carry, Case!Idle, Idle,
           Case!accountVars, Case!CarriedSound
  <2>2. CaseTyped(s)' /\ CaseLater(s) /\ Case(s)!TablesSound'
    BY <2>1 DEF CaseTyped, CaseLater, Case!Lifted, Case!TablesSound, Case!OnlyClosureLifts,
                Case!OneCertificate
  <2> QED BY <2>1, <2>2, CaseStep, CaseIdle
<1> QED BY <1>1, <1>2, <1>3, <1>4, <1>5, <1>6, <1>7

LEMMA CaseAccountsKeep ==
  ASSUME NEW s \in Scenes, Case(s)!IInv, NEW w \in Workers,
         \/ Case(s)!OpenAccount(w) \/ Case(s)!WriteAccountClosed(w)
         \/ Case(s)!InsertCertificate(w)
  PROVE  Case(s)!IInv' /\ Moved(w) /\ CaseNext(s, w)
<1> DEFINE j == job[w]
<1> USE DEF Case!IInv, Case!TypeOK
<1>0. Case(s)!CarriedSound(j)
  OBVIOUS
<1>1. CASE Case(s)!OpenAccount(w)
  <2>1. PICK a \in Cast[s].accounts, m \in Case(s)!Milestones,
             e \in 1..Cast[s].maxAmount, t \in 0..Cast[s].maxAmount :
          /\ account[a].status = "none" /\ t <= e
          /\ account' = [account EXCEPT ![a] =
                           [status |-> "DRAFT", milestone |-> m, owed |-> e - t]]
    BY ONLY <1>1, Zenon DEF Case!OpenAccount
  <2>2. Cast[s].maxAmount \in Nat
    BY SettlementAssumption DEF Case!DisputeAssumption
  <2>3. [status |-> "DRAFT", milestone |-> m, owed |-> e - t] \in Case(s)!AccountRec
    BY <2>1, <2>2 DEF Case!AccountRec
  <2>4. /\ UNCHANGED <<dispute, decided, hold, filings, certificates, job>>
        /\ job[w].at = "idle"
    BY <1>1 DEF Case!OpenAccount, Case!disputeVars, Case!At
  <2>5. /\ account'[a] = [status |-> "DRAFT", milestone |-> m, owed |-> e - t]
        /\ \A x \in Cast[s].accounts \ {a} : account'[x] = account[x]
    BY <2>1
  <2>6. CaseTyped(s)' /\ CaseLater(s)
    BY <2>1, <2>3, <2>4, <2>5 DEF CaseTyped, CaseLater
  <2>7. Case(s)!TablesSound'
    BY <2>1, <2>4, <2>5 DEF Case!TablesSound, Case!OnlyClosureLifts, Case!OneCertificate
  <2>8. Case(s)!TypeOK'
    BY <2>4, <2>6 DEF CaseTyped, Case!Carrying
  <2>9. ASSUME NEW v \in Workers PROVE Case(s)!CarriedSound(job[v])'
    <3>1. job[v].at = "closeAccount" => job[v].id \in Cast[s].accounts
      BY CaseJobKinds
    <3> QED BY <3>1, <2>4, <2>6 DEF Case!CarriedSound, CaseLater, Case!Raised
  <2> QED BY <2>4, <2>7, <2>8, <2>9 DEF Moved, CaseNext, Case!Carrying
<1>2. CASE Case(s)!WriteAccountClosed(w)
  <2>1. /\ j.id \in Cast[s].accounts /\ account[j.id].owed = 0 /\ Carry(w, Idle)
        /\ UNCHANGED <<dispute, decided, hold, filings, certificates>>
        /\ \/ account' = account
           \/ /\ account[j.id].status = "DRAFT"
              /\ account' = [account EXCEPT ![j.id].status = "CLOSED"]
    BY <1>0, <1>2, CaseJobKinds
       DEF Case!WriteAccountClosed, Case!Closable, Case!At, Case!Return, Case!Carry, Carry,
           Case!Idle, Idle, Case!disputeVars, Case!CarriedSound
  <2>2. CASE account' = account
    <3>1. CaseTyped(s)' /\ CaseLater(s) /\ Case(s)!TablesSound'
      BY <2>1, <2>2 DEF CaseTyped, CaseLater, Case!TablesSound, Case!OnlyClosureLifts,
                        Case!OneCertificate
    <3> QED BY <2>1, <3>1, CaseStep, CaseIdle
  <2>3. CASE /\ account[j.id].status = "DRAFT"
             /\ account' = [account EXCEPT ![j.id].status = "CLOSED"]
    <3>1. account[j.id] \in [status : {"DRAFT", "CLOSED"}, milestone : Case(s)!Milestones,
                             owed : 0..Cast[s].maxAmount]
      BY <2>1, <2>3 DEF Case!AccountRec, Case!NoAccount
    <3>2. /\ account'[j.id].status = "CLOSED" /\ account'[j.id].owed = 0
          /\ account'[j.id] \in Case(s)!AccountRec
          /\ \A x \in Cast[s].accounts \ {j.id} : account'[x] = account[x]
          /\ account' \in [Cast[s].accounts -> Case(s)!AccountRec]
      BY <2>1, <2>3, <3>1 DEF Case!AccountRec
    <3>3. CaseTyped(s)' /\ CaseLater(s)
      BY <2>1, <3>2 DEF CaseTyped, CaseLater
    <3>4. Case(s)!TablesSound'
      BY <2>1, <3>2 DEF Case!TablesSound, Case!OnlyClosureLifts, Case!OneCertificate
    <3> QED BY <2>1, <3>3, <3>4, CaseStep, CaseIdle
  <2> QED BY <2>1, <2>2, <2>3
<1>3. CASE Case(s)!InsertCertificate(w)
  <2>1. /\ j.id \in Cast[s].accounts /\ Carry(w, Idle)
        /\ UNCHANGED <<dispute, decided, hold, filings, account>>
        /\ \/ certificates' = certificates
           \/ /\ account[j.id].status = "CLOSED" /\ certificates[j.id] = 0
              /\ certificates' = [certificates EXCEPT ![j.id] = @ + 1]
    BY <1>0, <1>3, CaseJobKinds
       DEF Case!InsertCertificate, Case!Certifiable, Case!At, Case!Return, Case!Carry, Carry,
           Case!Idle, Idle, Case!disputeVars
  <2>2. CaseTyped(s)' /\ CaseLater(s)
    BY <2>1 DEF CaseTyped, CaseLater
  <2>3. Case(s)!TablesSound'
    <3>1. \A a \in Cast[s].accounts :
            \/ certificates'[a] = certificates[a]
            \/ certificates'[a] = 1 /\ account[a].status = "CLOSED"
      BY <2>1
    <3> QED BY <2>1, <3>1 DEF Case!TablesSound, Case!OnlyClosureLifts, Case!OneCertificate
  <2> QED BY <2>1, <2>2, <2>3, CaseStep, CaseIdle
<1> QED BY <1>1, <1>2, <1>3

LEMMA CaseHandleKeeps ==
  ASSUME NEW s \in Scenes, Case(s)!IInv, NEW w \in Workers, Case(s)!Handle(w)
  PROVE  Case(s)!IInv' /\ Moved(w) /\ CaseNext(s, w)
  BY CaseReadsKeep, CaseDisputesKeep, CaseAccountsKeep DEF Case!Handle, Case!Continue

LEMMA CaseDieKeeps ==
  ASSUME NEW s \in Scenes, Case(s)!IInv, NEW w \in Workers, Carry(w, Idle), UNCHANGED caseVars
  PROVE  Case(s)!IInv'
  BY CaseReads, CaseIdle

(* Steps of other engines' requests keep the invariant.                    *)
LEMMA CaseOthersKeep ==
  ASSUME NEW s \in Scenes, Case(s)!IInv, UNCHANGED caseVars,
         NEW w \in Workers, Moved(w), job'[w].at \notin Case(s)!Calls
  PROVE  Case(s)!IInv'
<1>1. Case(s)!TypeOK'
  BY DEF Case!IInv, Case!TypeOK, Case!Carrying, caseVars, Moved
<1>2. Case(s)!TablesSound'
  BY DEF caseVars, Case!IInv, Case!TablesSound, Case!OnlyClosureLifts, Case!OneCertificate
<1>3. ASSUME NEW v \in Workers PROVE Case(s)!CarriedSound(job[v])'
  BY DEF Moved, Case!CarriedSound, Case!Calls, Case!IInv, caseVars, Case!Raised
<1> QED BY <1>1, <1>2, <1>3 DEF Case!IInv

(* Holds are what the disputes say.                                        *)
LEMMA HeldStays ==
  ASSUME NEW s \in Scenes, UNCHANGED caseVars
  PROVE  Case(s)!Held' = Case(s)!Held
  BY DEF caseVars, Case!Held, Case!Raised

----------------------------------------------------------------------------
(* Engines 41 to 45.                                                       *)

FundTyped(s) ==
  /\ eligible \in [Cast[s].eligibilities -> {"none", "yes", "no"}]
  /\ entitlement \in [Cast[s].entitlements -> Fund(s)!EntitlementRec \cup {Fund(s)!Blank}]
  /\ invoice \in [Cast[s].invoices -> Fund(s)!InvoiceRec \cup {Fund(s)!Blank}]
  /\ commitment \in [Cast[s].commitments -> Fund(s)!CommitmentRec \cup {Fund(s)!Blank}]
  /\ reservation \in [Cast[s].reservations -> Fund(s)!ReservationRec \cup {Fund(s)!Blank}]
  /\ release \in [Cast[s].releases -> Fund(s)!ReleaseRec \cup {Fund(s)!Blank}]

(* What the tables of funding and release never take back.                 *)
FundLater(s) ==
  /\ \A e \in Cast[s].entitlements : entitlement[e].status # "none" =>
       /\ entitlement'[e].status # "none" /\ entitlement'[e].net = entitlement[e].net
       /\ entitlement[e].status = "CONFIRMED" => entitlement'[e].status = "CONFIRMED"
  /\ \A i \in Cast[s].invoices : invoice[i].status # "none" =>
       /\ invoice'[i].status # "none" /\ invoice'[i].ent = invoice[i].ent
       /\ invoice'[i].amount = invoice[i].amount
       /\ invoice[i].status = "APPROVED" => invoice'[i].status = "APPROVED"
  /\ \A c \in Cast[s].commitments : commitment[c].status # "none" =>
       commitment'[c].status # "none" /\ commitment'[c].amount = commitment[c].amount
  /\ \A r \in Cast[s].reservations : reservation[r].status # "none" =>
       /\ reservation'[r].status # "none" /\ reservation'[r].com = reservation[r].com
       /\ reservation'[r].amount = reservation[r].amount
  /\ \A q \in Cast[s].releases : release[q].status # "none" =>
       /\ release'[q].status # "none" /\ release'[q].inv = release[q].inv
       /\ release'[q].res = release[q].res /\ release'[q].amount = release[q].amount

FundNext(s, w) == job'[w].at = "idle" \/ job'[w].at \in Fund(s)!Calls

(* The local variables of a request, by where it is.                       *)
LEMMA FundJobKinds ==
  ASSUME NEW s \in Scenes, Fund(s)!TypeOK, NEW w \in Workers
  PROVE  LET j == job[w]
             amounts == Fund(s)!Amounts
         IN /\ j.at = "entitle" => j.net \in 0..Cast[s].maxAmount
            /\ j.at = "confirm" => j.id \in Cast[s].entitlements
            /\ j.at \in {"numbers", "invoice"} =>
                 /\ j = [at |-> j.at, number |-> j.number, ent |-> j.ent,
                         amount |-> j.amount, net |-> j.net]
                 /\ j.number \in Cast[s].numbers /\ j.ent \in Cast[s].entitlements
                 /\ j.amount \in amounts /\ j.net \in 0..Cast[s].maxAmount
            /\ j.at = "invoiceStatus" =>
                 j.id \in Cast[s].invoices /\ j.to \in {"APPROVED", "REJECTED"}
            /\ j.at \in {"custodian", "funded"} =>
                 j = [at |-> j.at, id |-> j.id] /\ j.id \in Cast[s].commitments
            /\ j.at \in {"sumReserved", "insertReservation"} =>
                 /\ j = [at |-> j.at, com |-> j.com, inv |-> j.inv, amount |-> j.amount,
                         committed |-> j.committed]
                 /\ j.com \in Cast[s].commitments /\ j.inv \in Cast[s].invoices
                 /\ j.amount \in amounts /\ j.committed \in amounts
            /\ j.at = "reservationStatus" =>
                 j.id \in Cast[s].reservations /\ j.to \in {"RELEASED", "CANCELLED"}
            /\ j.at \in {"readInvoice", "readReservation", "readHold", "evaluated"} =>
                 /\ j = [at |-> j.at, id |-> j.id, to |-> j.to]
                 /\ j.id \in Cast[s].releases /\ j.to \in {"CONDITIONS_MET", "BLOCKED"}
            /\ j.at = "cancel" => j.id \in Cast[s].releases
<1>1. job[w].at \in Fund(s)!Calls => job[w] \in Fund(s)!Jobs
  BY DEF Fund!TypeOK, Fund!Carrying
<1> QED BY <1>1 DEF Fund!Jobs, Fund!Calls

(* What stands in a row that is known.                                     *)
LEMMA FundRows ==
  ASSUME NEW s \in Scenes, FundTyped(s)
  PROVE  /\ \A e \in Fund(s)!Known(entitlement) :
              e \in Cast[s].entitlements /\ entitlement[e] \in Fund(s)!EntitlementRec
         /\ \A i \in Fund(s)!Known(invoice) :
              i \in Cast[s].invoices /\ invoice[i] \in Fund(s)!InvoiceRec
         /\ \A c \in Fund(s)!Known(commitment) :
              c \in Cast[s].commitments /\ commitment[c] \in Fund(s)!CommitmentRec
         /\ \A r \in Fund(s)!Known(reservation) :
              r \in Cast[s].reservations /\ reservation[r] \in Fund(s)!ReservationRec
         /\ \A q \in Fund(s)!Known(release) :
              q \in Cast[s].releases /\ release[q] \in Fund(s)!ReleaseRec
  BY DEF FundTyped, Fund!Known, Fund!Free, Fund!Blank

(* What a request carries about rows stays true of them.                   *)
LEMMA FundCarried ==
  ASSUME NEW s \in Scenes, Fund(s)!IInv, FundTyped(s)', FundLater(s), NEW v \in Workers
  PROVE  job'[v] = job[v] => Fund(s)!CarriedSound(job[v])'
<1> SUFFICES ASSUME job'[v] = job[v] PROVE Fund(s)!CarriedSound(job[v])'
  OBVIOUS
<1> DEFINE j == job[v]
<1> USE DEF Fund!IInv
<1>0. FundTyped(s)
  BY DEF FundTyped, Fund!TypeOK
<1>1. Fund(s)!CarriedSound(j) /\ Fund(s)!TablesSound
  OBVIOUS
<1>2. /\ \A e : e \in Fund(s)!Known(entitlement)  => e \in Fund(s)!Known(entitlement)'
      /\ \A i : i \in Fund(s)!Known(invoice)      => i \in Fund(s)!Known(invoice)'
      /\ \A c : c \in Fund(s)!Known(commitment)   => c \in Fund(s)!Known(commitment)'
      /\ \A r : r \in Fund(s)!Known(reservation)  => r \in Fund(s)!Known(reservation)'
      /\ \A q : q \in Fund(s)!Known(release)      => q \in Fund(s)!Known(release)'
  BY <1>0 DEF FundTyped, FundLater, Fund!Known, Fund!Free
<1>3. /\ \A e \in Fund(s)!Known(entitlement) : entitlement'[e].net = entitlement[e].net
      /\ \A e \in Cast[s].entitlements :
           entitlement[e].status = "CONFIRMED" =>
             /\ entitlement'[e].status = "CONFIRMED" /\ entitlement'[e].net = entitlement[e].net
      /\ \A i \in Fund(s)!Known(invoice) :
           /\ invoice'[i].ent = invoice[i].ent /\ invoice'[i].amount = invoice[i].amount
           /\ invoice[i].status = "APPROVED" => invoice'[i].status = "APPROVED"
      /\ \A c \in Fund(s)!Known(commitment) : commitment'[c].amount = commitment[c].amount
      /\ \A q \in Fund(s)!Known(release) : release'[q].inv = release[q].inv
  BY <1>0, FundRows DEF FundLater, Fund!Known, Fund!Free
<1>4. CASE j.at = "confirm"
  BY <1>1, <1>2, <1>4 DEF Fund!CarriedSound
<1>5. CASE j.at \in {"numbers", "invoice"}
  <2>1. j.ent \in Cast[s].entitlements
    BY <1>5, FundJobKinds
  <2> QED BY <1>1, <1>3, <1>5, <2>1 DEF Fund!CarriedSound
<1>6. CASE j.at = "invoiceStatus"
  <2>1. /\ j.id \in Fund(s)!Known(invoice) /\ j.id \in Fund(s)!Known(invoice)'
        /\ entitlement[invoice[j.id].ent].status = "CONFIRMED"
    BY <1>1, <1>2, <1>6 DEF Fund!CarriedSound, Fund!TablesSound, Fund!InvoicesSound
  <2>2. invoice[j.id].ent \in Cast[s].entitlements
    BY <1>0, <2>1, FundRows DEF Fund!InvoiceRec
  <2>3. /\ entitlement'[invoice[j.id].ent].net = entitlement[invoice[j.id].ent].net
        /\ invoice'[j.id].ent = invoice[j.id].ent /\ invoice'[j.id].amount = invoice[j.id].amount
    BY <1>3, <2>1, <2>2
  <2> QED BY <1>1, <1>6, <2>1, <2>3 DEF Fund!CarriedSound, Fund!ForTheNet
<1>7. CASE j.at \in {"custodian", "funded", "sumReserved", "insertReservation",
                     "reservationStatus"}
  BY <1>1, <1>2, <1>3, <1>7 DEF Fund!CarriedSound
<1>8. CASE j.at \in {"readInvoice", "readReservation", "readHold", "evaluated", "cancel"}
  <2>1. j.id \in Fund(s)!Known(release) /\ j.id \in Fund(s)!Known(release)'
    BY <1>1, <1>2, <1>8 DEF Fund!CarriedSound
  <2>2. /\ release[j.id].inv \in Fund(s)!Known(invoice)
        /\ release'[j.id].inv = release[j.id].inv
    BY <1>1, <1>3, <2>1 DEF Fund!TablesSound, Fund!ReleasesSound
  <2> QED BY <1>1, <1>3, <1>8, <2>1, <2>2 DEF Fund!CarriedSound
<1> QED BY <1>4, <1>5, <1>6, <1>7, <1>8 DEF Fund!CarriedSound

(* Rows whose table is not written stay sound: what they rest on stays.    *)
LEMMA FundInvoicesStay ==
  ASSUME NEW s \in Scenes, Fund(s)!IInv, FundTyped(s)', FundLater(s), UNCHANGED invoice
  PROVE  Fund(s)!OneLiveInvoice' /\ Fund(s)!InvoicesSound'
<1>1. FundTyped(s) /\ Fund(s)!OneLiveInvoice /\ Fund(s)!InvoicesSound
  BY DEF Fund!IInv, Fund!TypeOK, Fund!TablesSound, FundTyped
<1>2. Fund(s)!OneLiveInvoice'
  BY <1>1 DEF Fund!OneLiveInvoice, Fund!Live
<1>3. ASSUME NEW i \in Fund(s)!Known(invoice)
      PROVE  /\ entitlement'[invoice[i].ent].status = "CONFIRMED"
             /\ invoice[i].status \in {"MATCHED", "APPROVED"} =>
                  invoice[i].amount = entitlement'[invoice[i].ent].net
  <2>1. invoice[i].ent \in Cast[s].entitlements
    BY <1>1, FundRows DEF Fund!InvoiceRec
  <2> QED BY <1>1, <2>1 DEF FundLater, Fund!InvoicesSound, Fund!ForTheNet
<1> QED BY <1>2, <1>3 DEF Fund!InvoicesSound, Fund!Known, Fund!Free, Fund!ForTheNet

LEMMA FundReservationsStay ==
  ASSUME NEW s \in Scenes, Fund(s)!IInv, FundTyped(s)', FundLater(s), UNCHANGED reservation
  PROVE  Fund(s)!ReservationsSound'
<1>1. FundTyped(s) /\ Fund(s)!ReservationsSound
  BY DEF Fund!IInv, Fund!TypeOK, Fund!TablesSound, FundTyped
<1> QED BY <1>1 DEF Fund!ReservationsSound, Fund!Known, Fund!Free, FundTyped, FundLater

LEMMA FundReleasesStay ==
  ASSUME NEW s \in Scenes, Fund(s)!IInv, FundTyped(s)', FundLater(s), UNCHANGED release
  PROVE  Fund(s)!ReleasesSound'
<1>1. FundTyped(s) /\ Fund(s)!ReleasesSound
  BY DEF Fund!IInv, Fund!TypeOK, Fund!TablesSound, FundTyped
<1> QED BY <1>1 DEF Fund!ReleasesSound, Fund!Known, Fund!Free, FundTyped, FundLater

(* A step that writes tables soundly and moves one request.                *)
LEMMA FundStep ==
  ASSUME NEW s \in Scenes, Fund(s)!IInv, NEW w \in Workers, NEW j, Carry(w, j),
         j.at = "idle" \/ (j.at \in Fund(s)!Calls /\ j \in Fund(s)!Jobs),
         FundTyped(s)', FundLater(s), Case(s)!Held' = Case(s)!Held,
         Fund(s)!TablesSound', Fund(s)!CarriedSound(j)'
  PROVE  Fund(s)!IInv' /\ Moved(w) /\ job'[w] = j /\ FundNext(s, w)
<1>1. Moved(w) /\ job'[w] = j
  BY CarryMoves DEF Fund!IInv, Fund!TypeOK, Fund!Carrying
<1>2. "idle" \notin Fund(s)!Calls
  BY DEF Fund!Calls
<1>3. \A v \in Workers : job'[v].at \in Fund(s)!Calls => job'[v] \in Fund(s)!Jobs
  BY <1>1, <1>2 DEF Fund!IInv, Fund!TypeOK, Fund!Carrying, Moved
<1>4. Fund(s)!TypeOK'
  BY <1>1, <1>3 DEF Fund!TypeOK, Fund!Carrying, FundTyped, Moved, Fund!IInv
<1>5. ASSUME NEW v \in Workers PROVE Fund(s)!CarriedSound(job[v])'
  <2>1. CASE v = w
    BY <1>1, <2>1 DEF Fund!CarriedSound
  <2>2. CASE v # w
    BY <1>1, <2>2, FundCarried DEF Moved
  <2> QED BY <2>1, <2>2
<1> QED BY <1>1, <1>4, <1>5 DEF Fund!IInv, FundNext

(* The same when the request is over in the step that starts it.           *)
LEMMA FundAtomic ==
  ASSUME NEW s \in Scenes, Fund(s)!IInv, NEW w \in Workers, UNCHANGED job, job[w].at = "idle",
         FundTyped(s)', FundLater(s), Case(s)!Held' = Case(s)!Held, Fund(s)!TablesSound'
  PROVE  Fund(s)!IInv' /\ Moved(w) /\ FundNext(s, w)
<1>1. Fund(s)!TypeOK'
  BY DEF Fund!TypeOK, Fund!Carrying, FundTyped, Fund!IInv
<1>2. \A v \in Workers : Fund(s)!CarriedSound(job[v])'
  BY FundCarried
<1> QED BY <1>1, <1>2 DEF Fund!IInv, FundNext, Moved, Fund!TypeOK, Fund!Carrying

LEMMA FundReads ==
  ASSUME NEW s \in Scenes, Fund(s)!IInv, NEW w \in Workers, NEW j, Carry(w, j),
         j.at = "idle" \/ (j.at \in Fund(s)!Calls /\ j \in Fund(s)!Jobs),
         Fund(s)!CarriedSound(j), UNCHANGED fundingVars, Case(s)!Held' = Case(s)!Held
  PROVE  Fund(s)!IInv' /\ Moved(w) /\ job'[w] = j /\ FundNext(s, w)
<1>1. FundTyped(s)' /\ FundLater(s)
  BY DEF fundingVars, FundTyped, FundLater, Fund!IInv, Fund!TypeOK
<1>2. Fund(s)!TablesSound'
  BY <1>1, FundInvoicesStay, FundReservationsStay, FundReleasesStay
     DEF fundingVars, Fund!TablesSound
<1>3. Fund(s)!CarriedSound(j)'
  BY DEF fundingVars, Fund!CarriedSound, Fund!Known, Fund!Free, Fund!ForTheNet
<1> QED BY <1>1, <1>2, <1>3, FundStep

(* A request that ends carries nothing.                                    *)
LEMMA FundIdle ==
  ASSUME NEW s \in Scenes
  PROVE  Idle.at = "idle" /\ Fund(s)!CarriedSound(Idle) /\ Fund(s)!CarriedSound(Idle)'
  BY DEF Idle, Fund!CarriedSound

LEMMA FundReadsKeep ==
  ASSUME NEW s \in Scenes, Fund(s)!IInv, NEW w \in Workers,
         \/ Fund(s)!Calculate(w) \/ Fund(s)!Confirm(w) \/ Fund(s)!SubmitInvoice(w)
         \/ Fund(s)!CheckNumber(w) \/ Fund(s)!ApproveInvoice(w) \/ Fund(s)!RejectInvoice(w)
         \/ Fund(s)!ConfirmCommitment(w) \/ Fund(s)!AskCustodian(w) \/ Fund(s)!Reserve(w)
         \/ Fund(s)!SumReserved(w) \/ Fund(s)!EndReservation(w) \/ Fund(s)!Evaluate(w)
         \/ Fund(s)!ReadInvoice(w) \/ Fund(s)!ReadReservation(w) \/ Fund(s)!ReadHold(w)
         \/ Fund(s)!Cancel(w)
  PROVE  Fund(s)!IInv' /\ Moved(w) /\ FundNext(s, w)
<1> DEFINE j == job[w]
<1>a. /\ FundTyped(s) /\ Fund(s)!TypeOK /\ Fund(s)!CarriedSound(j)
      /\ Fund(s)!InvoicesSound
  BY DEF Fund!IInv, Fund!TypeOK, FundTyped, Fund!TablesSound
<1>0. UNCHANGED fundingVars /\ Case(s)!Held' = Case(s)!Held
  BY DEF Fund!Calculate, Fund!Confirm, Fund!SubmitInvoice, Fund!CheckNumber,
         Fund!ApproveInvoice, Fund!RejectInvoice, Fund!ConfirmCommitment, Fund!AskCustodian,
         Fund!Reserve, Fund!SumReserved, Fund!EndReservation, Fund!Evaluate,
         Fund!ReadInvoice, Fund!ReadReservation, Fund!ReadHold, Fund!ReadFor, Fund!Cancel,
         fundingVars, Fund!records
<1> USE DEF Fund!Receive, Fund!Carry, Carry
<1>1. CASE Fund(s)!Calculate(w)
  <2>1. PICK n \in 0..Cast[s].maxAmount : Carry(w, [at |-> "entitle", net |-> n])
    BY ONLY <1>1, Zenon DEF Fund!Calculate, Fund!Receive, Fund!Carry, Carry
  <2> QED BY <1>0, <2>1, FundReads DEF Fund!Jobs, Fund!Calls, Fund!CarriedSound
<1>2. CASE Fund(s)!Confirm(w)
  <2>1. PICK e \in Fund(s)!Known(entitlement) :
          Carry(w, [at |-> "confirm", id |-> e, net |-> entitlement[e].net])
    BY <1>2 DEF Fund!Confirm
  <2>2. e \in Cast[s].entitlements /\ entitlement[e].net \in 0..Cast[s].maxAmount
    BY <1>a, <2>1, FundRows DEF Fund!EntitlementRec
  <2> QED BY <1>0, <2>1, <2>2, FundReads DEF Fund!Jobs, Fund!Calls, Fund!CarriedSound
<1>3. CASE Fund(s)!SubmitInvoice(w)
  <2>1. PICK e \in Fund(s)!Known(entitlement), n \in Cast[s].numbers, a \in Fund(s)!Amounts :
          /\ entitlement[e].status = "CONFIRMED"
          /\ Carry(w, [at |-> "numbers", number |-> n, ent |-> e, amount |-> a,
                       net |-> entitlement[e].net])
    BY <1>3, Zenon DEF Fund!SubmitInvoice
  <2>2. e \in Cast[s].entitlements /\ entitlement[e].net \in 0..Cast[s].maxAmount
    BY <1>a, <2>1, FundRows DEF Fund!EntitlementRec
  <2> QED BY <1>0, <2>1, <2>2, FundReads DEF Fund!Jobs, Fund!Calls, Fund!CarriedSound
<1>4. CASE Fund(s)!CheckNumber(w)
  <2>1. /\ j.at = "numbers"
        /\ Carry(w, Idle) \/ Carry(w, [j EXCEPT !.at = "invoice"])
    BY <1>4 DEF Fund!CheckNumber, Fund!At, Fund!Return, Fund!Idle, Idle
  <2>2. /\ [j EXCEPT !.at = "invoice"] =
             [at |-> "invoice", number |-> j.number, ent |-> j.ent, amount |-> j.amount,
              net |-> j.net]
        /\ j.number \in Cast[s].numbers /\ j.ent \in Cast[s].entitlements
        /\ j.amount \in Fund(s)!Amounts /\ j.net \in 0..Cast[s].maxAmount
    <3>1. /\ j = [at |-> j.at, number |-> j.number, ent |-> j.ent, amount |-> j.amount,
                  net |-> j.net]
          /\ j.number \in Cast[s].numbers /\ j.ent \in Cast[s].entitlements
          /\ j.amount \in Fund(s)!Amounts /\ j.net \in 0..Cast[s].maxAmount
      BY <1>a, <2>1, FundJobKinds
    <3> QED BY <3>1
  <2>3. /\ [j EXCEPT !.at = "invoice"] \in Fund(s)!Jobs
        /\ [j EXCEPT !.at = "invoice"].at \in Fund(s)!Calls
        /\ Fund(s)!CarriedSound([j EXCEPT !.at = "invoice"])
    BY <1>a, <2>1, <2>2 DEF Fund!Jobs, Fund!Calls, Fund!CarriedSound
  <2> QED BY <1>0, <2>1, <2>3, FundReads, FundIdle
<1>5. CASE Fund(s)!ApproveInvoice(w)
  <2>1. PICK i \in Fund(s)!Known(invoice) :
          /\ invoice[i].status = "MATCHED"
          /\ Carry(w, [at |-> "invoiceStatus", id |-> i, to |-> "APPROVED"])
    BY <1>5 DEF Fund!ApproveInvoice
  <2>2. i \in Cast[s].invoices /\ Fund(s)!ForTheNet(i)
    BY <1>a, <2>1, FundRows DEF Fund!InvoicesSound
  <2> QED BY <1>0, <2>1, <2>2, FundReads DEF Fund!Jobs, Fund!Calls, Fund!CarriedSound
<1>6. CASE Fund(s)!RejectInvoice(w)
  <2>1. PICK i \in Fund(s)!Known(invoice) :
          Carry(w, [at |-> "invoiceStatus", id |-> i, to |-> "REJECTED"])
    BY <1>6 DEF Fund!RejectInvoice
  <2>2. i \in Cast[s].invoices
    BY <1>a, <2>1, FundRows
  <2> QED BY <1>0, <2>1, <2>2, FundReads DEF Fund!Jobs, Fund!Calls, Fund!CarriedSound
<1>7. CASE Fund(s)!ConfirmCommitment(w)
  <2>1. PICK c \in Fund(s)!Known(commitment) : Carry(w, [at |-> "custodian", id |-> c])
    BY <1>7 DEF Fund!ConfirmCommitment
  <2>2. c \in Cast[s].commitments
    BY <1>a, <2>1, FundRows
  <2> QED BY <1>0, <2>1, <2>2, FundReads DEF Fund!Jobs, Fund!Calls, Fund!CarriedSound
<1>8. CASE Fund(s)!AskCustodian(w)
  <2>1. /\ j.at = "custodian"
        /\ Carry(w, Idle) \/ Carry(w, [j EXCEPT !.at = "funded"])
    BY <1>8 DEF Fund!AskCustodian, Fund!At, Fund!Return, Fund!Idle, Idle
  <2>2. /\ [j EXCEPT !.at = "funded"] = [at |-> "funded", id |-> j.id]
        /\ j.id \in Cast[s].commitments
    <3>1. j = [at |-> j.at, id |-> j.id] /\ j.id \in Cast[s].commitments
      BY <1>a, <2>1, FundJobKinds
    <3> QED BY <3>1
  <2>3. /\ [j EXCEPT !.at = "funded"] \in Fund(s)!Jobs
        /\ [j EXCEPT !.at = "funded"].at \in Fund(s)!Calls
        /\ Fund(s)!CarriedSound([j EXCEPT !.at = "funded"])
    BY <1>a, <2>1, <2>2 DEF Fund!Jobs, Fund!Calls, Fund!CarriedSound
  <2> QED BY <1>0, <2>1, <2>3, FundReads, FundIdle
<1>9. CASE Fund(s)!Reserve(w)
  <2>1. PICK c \in Fund(s)!Known(commitment), i \in Fund(s)!Known(invoice),
             a \in Fund(s)!Amounts :
          Carry(w, [at |-> "sumReserved", com |-> c, inv |-> i, amount |-> a,
                    committed |-> commitment[c].amount])
    BY <1>9, Zenon DEF Fund!Reserve
  <2>2. /\ c \in Cast[s].commitments /\ i \in Cast[s].invoices
        /\ commitment[c].amount \in Fund(s)!Amounts
    BY <1>a, <2>1, FundRows DEF Fund!CommitmentRec
  <2> QED BY <1>0, <2>1, <2>2, FundReads DEF Fund!Jobs, Fund!Calls, Fund!CarriedSound
<1>10. CASE Fund(s)!SumReserved(w)
  <2>1. /\ j.at = "sumReserved"
        /\ Carry(w, Idle) \/ Carry(w, [j EXCEPT !.at = "insertReservation"])
    BY <1>10 DEF Fund!SumReserved, Fund!At, Fund!Return, Fund!Idle, Idle
  <2>2. /\ [j EXCEPT !.at = "insertReservation"] =
             [at |-> "insertReservation", com |-> j.com, inv |-> j.inv, amount |-> j.amount,
              committed |-> j.committed]
        /\ j.com \in Cast[s].commitments /\ j.inv \in Cast[s].invoices
        /\ j.amount \in Fund(s)!Amounts /\ j.committed \in Fund(s)!Amounts
    <3>1. /\ j = [at |-> j.at, com |-> j.com, inv |-> j.inv, amount |-> j.amount,
                  committed |-> j.committed]
          /\ j.com \in Cast[s].commitments /\ j.inv \in Cast[s].invoices
          /\ j.amount \in Fund(s)!Amounts /\ j.committed \in Fund(s)!Amounts
      BY <1>a, <2>1, FundJobKinds
    <3> QED BY <3>1
  <2>3. /\ [j EXCEPT !.at = "insertReservation"] \in Fund(s)!Jobs
        /\ [j EXCEPT !.at = "insertReservation"].at \in Fund(s)!Calls
        /\ Fund(s)!CarriedSound([j EXCEPT !.at = "insertReservation"])
    BY <1>a, <2>1, <2>2 DEF Fund!Jobs, Fund!Calls, Fund!CarriedSound
  <2> QED BY <1>0, <2>1, <2>3, FundReads, FundIdle
<1>11. CASE Fund(s)!EndReservation(w)
  <2>1. PICK r \in Fund(s)!Known(reservation), to \in {"RELEASED", "CANCELLED"} :
          Carry(w, [at |-> "reservationStatus", id |-> r, to |-> to])
    BY <1>11 DEF Fund!EndReservation
  <2>2. r \in Cast[s].reservations
    BY <1>a, <2>1, FundRows
  <2> QED BY <1>0, <2>1, <2>2, FundReads DEF Fund!Jobs, Fund!Calls, Fund!CarriedSound
<1>12. CASE Fund(s)!Evaluate(w)
  <2>1. PICK q \in Fund(s)!Known(release), to \in {"CONDITIONS_MET", "BLOCKED"} :
          Carry(w, [at |-> "readInvoice", id |-> q, to |-> to])
    BY <1>12 DEF Fund!Evaluate
  <2>2. q \in Cast[s].releases
    BY <1>a, <2>1, FundRows
  <2> QED BY <1>0, <2>1, <2>2, FundReads DEF Fund!Jobs, Fund!Calls, Fund!CarriedSound
<1>13. CASE Fund(s)!Cancel(w)
  <2>1. PICK q \in Fund(s)!Known(release) : Carry(w, [at |-> "cancel", id |-> q])
    BY <1>13 DEF Fund!Cancel
  <2>2. q \in Cast[s].releases
    BY <1>a, <2>1, FundRows
  <2> QED BY <1>0, <2>1, <2>2, FundReads DEF Fund!Jobs, Fund!Calls, Fund!CarriedSound
<1>14. ASSUME NEW label \in {"readInvoice", "readReservation", "readHold"},
              NEW next \in {"readReservation", "readHold", "evaluated"}, NEW ok \in BOOLEAN,
              Fund(s)!ReadFor(w, label, next, ok),
              label = "readInvoice" => (ok => invoice[release[j.id].inv].status = "APPROVED")
       PROVE  Fund(s)!IInv' /\ Moved(w) /\ FundNext(s, w)
  <2>1. /\ j.at = label
        /\ Carry(w, [at |-> next, id |-> j.id, to |-> IF ok THEN j.to ELSE "BLOCKED"])
    BY <1>14 DEF Fund!ReadFor, Fund!At
  <2>2. j.id \in Cast[s].releases /\ j.to \in {"CONDITIONS_MET", "BLOCKED"}
    BY <1>a, <2>1, FundJobKinds
  <2>3. PICK to \in {"CONDITIONS_MET", "BLOCKED"} : to = IF ok THEN j.to ELSE "BLOCKED"
    BY <2>2
  <2>4. Carry(w, [at |-> next, id |-> j.id, to |-> to])
    BY <2>1, <2>3
  <2>5. [at |-> next, id |-> j.id, to |-> to] \in Fund(s)!Jobs /\ next \in Fund(s)!Calls
    BY <2>2 DEF Fund!Jobs, Fund!Calls
  <2>6. Fund(s)!CarriedSound([at |-> next, id |-> j.id, to |-> to])
    BY <1>a, <1>14, <2>1, <2>2, <2>3 DEF Fund!CarriedSound
  <2> QED BY <1>0, <2>4, <2>5, <2>6, FundReads
<1>15. CASE Fund(s)!ReadInvoice(w) \/ Fund(s)!ReadReservation(w) \/ Fund(s)!ReadHold(w)
  BY <1>14, <1>15 DEF Fund!ReadInvoice, Fund!ReadReservation, Fund!ReadHold
<1> QED BY <1>1, <1>2, <1>3, <1>4, <1>5, <1>6, <1>7, <1>8, <1>9, <1>10, <1>11, <1>12, <1>13,
           <1>15

(* Tables in which a row is added or its status changes.                   *)
LEMMA FundEntitlementsKeep ==
  ASSUME NEW s \in Scenes, Fund(s)!IInv, NEW w \in Workers,
         \/ Fund(s)!Assess(w) \/ Fund(s)!InsertEntitlement(w) \/ Fund(s)!WriteConfirmed(w)
  PROVE  Fund(s)!IInv' /\ Moved(w) /\ FundNext(s, w)
<1> DEFINE j == job[w]
<1>a. FundTyped(s) /\ Fund(s)!TypeOK /\ Fund(s)!CarriedSound(j)
  BY DEF Fund!IInv, Fund!TypeOK, FundTyped
<1>b. ASSUME FundTyped(s)', FundLater(s), UNCHANGED <<invoice, reservation, release>>
      PROVE  Fund(s)!TablesSound'
  BY <1>b, FundInvoicesStay, FundReservationsStay, FundReleasesStay DEF Fund!TablesSound
<1>1. CASE Fund(s)!Assess(w)
  <2>1. /\ eligible' \in [Cast[s].eligibilities -> {"none", "yes", "no"}]
        /\ UNCHANGED <<entitlement, invoice, commitment, reservation, release,
                       Case(s)!Held, job>>
        /\ job[w].at = "idle"
    BY <1>1, <1>a DEF Fund!Assess, FundTyped, Fund!At
  <2>2. FundTyped(s)' /\ FundLater(s)
    BY <1>a, <2>1 DEF FundTyped, FundLater
  <2> QED BY <2>1, <2>2, <1>b, FundAtomic
<1>2. CASE Fund(s)!InsertEntitlement(w)
  <2>1. PICK e \in Cast[s].entitlements :
          /\ entitlement[e].status = "none"
          /\ entitlement' = [entitlement EXCEPT ![e] = [status |-> "DRAFT", net |-> j.net]]
    BY <1>2, <1>a DEF Fund!InsertEntitlement, Fund!Free, FundTyped
  <2>2. /\ UNCHANGED <<eligible, invoice, commitment, reservation, release, Case(s)!Held>>
        /\ Carry(w, Idle) /\ j.net \in 0..Cast[s].maxAmount
    BY <1>2, <1>a, FundJobKinds
       DEF Fund!InsertEntitlement, Fund!At, Fund!Return, Fund!Carry, Carry, Fund!Idle, Idle
  <2>3. FundTyped(s)'
    BY <1>a, <2>1, <2>2 DEF FundTyped, Fund!EntitlementRec
  <2>4. FundLater(s)
    BY <1>a, <2>1, <2>2 DEF FundTyped, FundLater
  <2> QED BY <2>2, <2>3, <2>4, <1>b, FundStep, FundIdle
<1>3. CASE Fund(s)!WriteConfirmed(w)
  <2>1. /\ UNCHANGED <<eligible, invoice, commitment, reservation, release, Case(s)!Held>>
        /\ Carry(w, Idle)
        /\ \/ entitlement' = entitlement
           \/ entitlement' = [entitlement EXCEPT ![j.id].status = "CONFIRMED"]
    BY <1>3
       DEF Fund!WriteConfirmed, Fund!Return, Fund!Carry, Carry, Fund!Idle, Idle
  <2>2. j.id \in Cast[s].entitlements /\ entitlement[j.id] \in Fund(s)!EntitlementRec
    BY <1>3, <1>a, FundRows DEF Fund!WriteConfirmed, Fund!At, Fund!CarriedSound
  <2>3. [entitlement[j.id] EXCEPT !.status = "CONFIRMED"] \in Fund(s)!EntitlementRec
    BY <2>2 DEF Fund!EntitlementRec
  <2>4. FundTyped(s)'
    BY <1>a, <2>1, <2>2, <2>3 DEF FundTyped
  <2>5. FundLater(s)
    BY <1>a, <2>1, <2>2, <2>3 DEF FundTyped, FundLater, Fund!EntitlementRec
  <2> QED BY <2>1, <2>4, <2>5, <1>b, FundStep, FundIdle
<1> QED BY <1>1, <1>2, <1>3

LEMMA FundInsertInvoiceKeeps ==
  ASSUME NEW s \in Scenes, Fund(s)!IInv, NEW w \in Workers, Fund(s)!InsertInvoice(w)
  PROVE  Fund(s)!IInv' /\ Moved(w) /\ FundNext(s, w)
<1> DEFINE j == job[w]
<1>a. FundTyped(s) /\ Fund(s)!TypeOK /\ Fund(s)!CarriedSound(j) /\ Fund(s)!TablesSound
  BY DEF Fund!IInv, Fund!TypeOK, FundTyped
<1>1. /\ UNCHANGED <<eligible, entitlement, commitment, reservation, release, Case(s)!Held>>
      /\ Carry(w, Idle) /\ j.at = "invoice"
  BY DEF Fund!InsertInvoice, Fund!Return, Fund!Carry, Carry, Fund!Idle, Idle, Fund!At
<1>2. CASE invoice' = invoice
  BY <1>1, <1>2, FundReads, FundIdle DEF fundingVars
<1>3. CASE invoice' # invoice
  <2>1. /\ j.number \in Cast[s].numbers /\ j.ent \in Cast[s].entitlements
        /\ j.amount \in Fund(s)!Amounts
        /\ entitlement[j.ent].status = "CONFIRMED" /\ j.net = entitlement[j.ent].net
    BY <1>1, <1>a, FundJobKinds DEF Fund!CarriedSound
  <2>2. PICK i \in Cast[s].invoices :
          /\ invoice[i].status = "none"
          /\ invoice' = [invoice EXCEPT ![i] =
               [status |-> Fund(s)!MatchOf(j.amount, j.net), number |-> j.number,
                ent |-> j.ent, amount |-> j.amount]]
    BY <1>3, <1>a DEF Fund!InsertInvoice, Fund!Free, FundTyped
  <2>3. /\ invoice'[i].status \in {"MATCHED", "SUBMITTED"}
        /\ invoice'[i].status = "MATCHED" => j.amount = j.net
        /\ invoice'[i].number = j.number /\ invoice'[i].ent = j.ent
        /\ invoice'[i].amount = j.amount
        /\ invoice'[i] \in Fund(s)!InvoiceRec
        /\ \A k \in Cast[s].invoices \ {i} : invoice'[k] = invoice[k]
    BY <1>a, <2>1, <2>2 DEF FundTyped, Fund!MatchOf, Fund!InvoiceRec
  <2>4. FundTyped(s)'
    BY <1>a, <1>1, <2>2, <2>3 DEF FundTyped
  <2>5. FundLater(s)
    BY <1>a, <1>1, <2>2, <2>3 DEF FundLater
  <2>6. Fund(s)!ReservationsSound' /\ Fund(s)!ReleasesSound'
    BY <1>1, <2>4, <2>5, FundReservationsStay, FundReleasesStay
  <2>7. Fund(s)!OneLiveInvoice'
    <3>1. \A k \in Cast[s].invoices : Fund(s)!Live(k) => invoice[k].number # j.number
      BY <1>3 DEF Fund!InsertInvoice, Fund!NumberFree
    <3> QED BY <1>a, <2>2, <2>3, <3>1
            DEF Fund!TablesSound, Fund!OneLiveInvoice, Fund!Live
  <2>8. Fund(s)!InvoicesSound'
    <3> SUFFICES ASSUME NEW k \in Cast[s].invoices, invoice'[k].status # "none"
        PROVE  /\ entitlement[invoice'[k].ent].status = "CONFIRMED"
               /\ invoice'[k].status \in {"MATCHED", "APPROVED"} =>
                    invoice'[k].amount = entitlement[invoice'[k].ent].net
      BY <1>1, <2>4 DEF Fund!InvoicesSound, Fund!Known, Fund!Free, Fund!ForTheNet, FundTyped
    <3>1. CASE k = i
      BY <3>1, <2>1, <2>3
    <3>2. CASE k # i
      BY <1>a, <3>2, <2>3
         DEF Fund!TablesSound, Fund!InvoicesSound, Fund!Known, Fund!Free, Fund!ForTheNet,
             FundTyped
    <3> QED BY <3>1, <3>2
  <2> QED BY <1>1, <2>4, <2>5, <2>6, <2>7, <2>8, FundStep, FundIdle DEF Fund!TablesSound
<1> QED BY <1>2, <1>3

LEMMA FundWriteInvoiceKeeps ==
  ASSUME NEW s \in Scenes, Fund(s)!IInv, NEW w \in Workers, Fund(s)!WriteInvoice(w)
  PROVE  Fund(s)!IInv' /\ Moved(w) /\ FundNext(s, w)
<1> DEFINE j == job[w]
<1>a. FundTyped(s) /\ Fund(s)!TypeOK /\ Fund(s)!CarriedSound(j) /\ Fund(s)!TablesSound
  BY DEF Fund!IInv, Fund!TypeOK, FundTyped
<1>1. /\ UNCHANGED <<eligible, entitlement, commitment, reservation, release, Case(s)!Held>>
      /\ Carry(w, Idle) /\ j.at = "invoiceStatus"
  BY DEF Fund!WriteInvoice, Fund!Return, Fund!Carry, Carry, Fund!Idle, Idle, Fund!At
<1>2. CASE invoice' = invoice
  BY <1>1, <1>2, FundReads, FundIdle DEF fundingVars
<1>3. CASE invoice' # invoice
  <2>1. /\ j.id \in Cast[s].invoices /\ invoice[j.id] \in Fund(s)!InvoiceRec
        /\ j.id \in Fund(s)!Known(invoice)
        /\ j.to \in {"APPROVED", "REJECTED"}
        /\ j.to = "APPROVED" => Fund(s)!ForTheNet(j.id)
    BY <1>1, <1>a, FundJobKinds, FundRows DEF Fund!CarriedSound
  <2>2. /\ invoice' = [invoice EXCEPT ![j.id].status = j.to]
        /\ invoice[j.id].status \notin {"APPROVED", "REJECTED"}
    BY <1>3 DEF Fund!WriteInvoice, Fund!Governed
  <2>3. /\ [invoice[j.id] EXCEPT !.status = j.to] \in Fund(s)!InvoiceRec
        /\ invoice[j.id].status \in {"SUBMITTED", "MATCHED"}
    BY <2>1, <2>2 DEF Fund!InvoiceRec
  <2>4. /\ invoice'[j.id].status = j.to
        /\ invoice'[j.id].number = invoice[j.id].number
        /\ invoice'[j.id].ent = invoice[j.id].ent
        /\ invoice'[j.id].amount = invoice[j.id].amount
        /\ invoice'[j.id] \in Fund(s)!InvoiceRec
        /\ \A k \in Cast[s].invoices \ {j.id} : invoice'[k] = invoice[k]
    BY <1>a, <2>1, <2>2, <2>3 DEF FundTyped, Fund!InvoiceRec
  <2>5. FundTyped(s)'
    BY <1>a, <1>1, <2>2, <2>4 DEF FundTyped
  <2>6. FundLater(s)
    <3>1. \A k \in Cast[s].invoices :
            /\ invoice'[k].ent = invoice[k].ent /\ invoice'[k].amount = invoice[k].amount
            /\ invoice[k].status = "APPROVED" => invoice'[k].status = "APPROVED"
            /\ invoice[k].status # "none" => invoice'[k].status # "none"
      BY <2>1, <2>3, <2>4
    <3> QED BY <1>1, <3>1 DEF FundLater
  <2>7. Fund(s)!ReservationsSound' /\ Fund(s)!ReleasesSound'
    BY <1>1, <2>5, <2>6, FundReservationsStay, FundReleasesStay
  <2>8. Fund(s)!OneLiveInvoice'
    BY <1>a, <2>3, <2>4 DEF Fund!TablesSound, Fund!OneLiveInvoice, Fund!Live
  <2>9. Fund(s)!InvoicesSound'
    <3> SUFFICES ASSUME NEW k \in Cast[s].invoices, invoice'[k].status # "none"
        PROVE  /\ entitlement[invoice'[k].ent].status = "CONFIRMED"
               /\ invoice'[k].status \in {"MATCHED", "APPROVED"} =>
                    invoice'[k].amount = entitlement[invoice'[k].ent].net
      BY <1>1, <2>5 DEF Fund!InvoicesSound, Fund!Known, Fund!Free, Fund!ForTheNet, FundTyped
    <3>1. CASE k = j.id
      BY <1>a, <3>1, <2>1, <2>4 DEF Fund!TablesSound, Fund!InvoicesSound, Fund!ForTheNet
    <3>2. CASE k # j.id
      BY <1>a, <3>2, <2>4
         DEF Fund!TablesSound, Fund!InvoicesSound, Fund!Known, Fund!Free, Fund!ForTheNet,
             FundTyped
    <3> QED BY <3>1, <3>2
  <2> QED BY <1>1, <2>5, <2>6, <2>7, <2>8, <2>9, FundStep, FundIdle DEF Fund!TablesSound
<1> QED BY <1>2, <1>3

LEMMA FundCommitmentsKeep ==
  ASSUME NEW s \in Scenes, Fund(s)!IInv, NEW w \in Workers,
         Fund(s)!RecordCommitment(w) \/ Fund(s)!WriteCommitment(w)
  PROVE  Fund(s)!IInv' /\ Moved(w) /\ FundNext(s, w)
<1> DEFINE j == job[w]
<1>a. FundTyped(s) /\ Fund(s)!TypeOK /\ Fund(s)!CarriedSound(j)
  BY DEF Fund!IInv, Fund!TypeOK, FundTyped
<1>b. ASSUME FundTyped(s)', FundLater(s), UNCHANGED <<invoice, reservation, release>>
      PROVE  Fund(s)!TablesSound'
  BY <1>b, FundInvoicesStay, FundReservationsStay, FundReleasesStay DEF Fund!TablesSound
<1>1. CASE Fund(s)!RecordCommitment(w)
  <2>1. PICK c \in Cast[s].commitments, a \in Fund(s)!Amounts :
          /\ commitment[c].status = "none"
          /\ commitment' = [commitment EXCEPT ![c] =
                              [status |-> "PENDING_CONFIRMATION", amount |-> a]]
    BY <1>1, <1>a DEF Fund!RecordCommitment, Fund!Free, FundTyped
  <2>2. /\ UNCHANGED <<eligible, entitlement, invoice, reservation, release, Case(s)!Held, job>>
        /\ job[w].at = "idle"
    BY <1>1 DEF Fund!RecordCommitment, Fund!At
  <2>3. FundTyped(s)'
    BY <1>a, <2>1, <2>2 DEF FundTyped, Fund!CommitmentRec
  <2>4. FundLater(s)
    BY <1>a, <2>1, <2>2 DEF FundTyped, FundLater
  <2> QED BY <2>2, <2>3, <2>4, <1>b, FundAtomic
<1>2. CASE Fund(s)!WriteCommitment(w)
  <2>1. /\ UNCHANGED <<eligible, entitlement, invoice, reservation, release, Case(s)!Held>>
        /\ Carry(w, Idle)
        /\ commitment' = [commitment EXCEPT ![j.id].status = "CONFIRMED"]
    BY <1>2 DEF Fund!WriteCommitment, Fund!Return, Fund!Carry, Carry, Fund!Idle, Idle
  <2>2. j.id \in Cast[s].commitments /\ commitment[j.id] \in Fund(s)!CommitmentRec
    BY <1>2, <1>a, FundRows DEF Fund!WriteCommitment, Fund!At, Fund!CarriedSound
  <2>3. [commitment[j.id] EXCEPT !.status = "CONFIRMED"] \in Fund(s)!CommitmentRec
    BY <2>2 DEF Fund!CommitmentRec
  <2>4. FundTyped(s)'
    BY <1>a, <2>1, <2>2, <2>3 DEF FundTyped
  <2>5. FundLater(s)
    BY <1>a, <2>1, <2>2, <2>3 DEF FundTyped, FundLater, Fund!CommitmentRec
  <2> QED BY <2>1, <2>4, <2>5, <1>b, FundStep, FundIdle
<1> QED BY <1>1, <1>2

LEMMA FundReservationsKeep ==
  ASSUME NEW s \in Scenes, Fund(s)!IInv, NEW w \in Workers,
         Fund(s)!InsertReservation(w) \/ Fund(s)!WriteReservation(w)
  PROVE  Fund(s)!IInv' /\ Moved(w) /\ FundNext(s, w)
<1> DEFINE j == job[w]
<1>a. FundTyped(s) /\ Fund(s)!TypeOK /\ Fund(s)!CarriedSound(j) /\ Fund(s)!ReservationsSound
  BY DEF Fund!IInv, Fund!TypeOK, FundTyped, Fund!TablesSound
<1>b. ASSUME FundTyped(s)', FundLater(s), UNCHANGED <<invoice, release>>,
             Fund(s)!ReservationsSound'
      PROVE  Fund(s)!TablesSound'
  BY <1>b, FundInvoicesStay, FundReleasesStay DEF Fund!TablesSound
<1>0. /\ UNCHANGED <<eligible, entitlement, invoice, commitment, release, Case(s)!Held>>
      /\ Carry(w, Idle)
  BY DEF Fund!InsertReservation, Fund!WriteReservation, Fund!Return, Fund!Carry, Carry,
         Fund!Idle, Idle
<1>1. CASE Fund(s)!InsertReservation(w)
  <2>1. PICK r \in Cast[s].reservations :
          /\ reservation[r].status = "none"
          /\ reservation' = [reservation EXCEPT ![r] =
               [status |-> "RESERVED", com |-> j.com, inv |-> j.inv, amount |-> j.amount]]
    BY <1>1, <1>a DEF Fund!InsertReservation, Fund!Free, FundTyped
  <2>2. /\ j.com \in Cast[s].commitments /\ j.inv \in Cast[s].invoices
        /\ j.amount \in Fund(s)!Amounts /\ j.com \in Fund(s)!Known(commitment)
    BY <1>1, <1>a, FundJobKinds DEF Fund!InsertReservation, Fund!At, Fund!CarriedSound
  <2>3. FundTyped(s)'
    BY <1>a, <1>0, <2>1, <2>2 DEF FundTyped, Fund!ReservationRec
  <2>4. FundLater(s)
    BY <1>a, <1>0, <2>1 DEF FundTyped, FundLater
  <2>5. Fund(s)!ReservationsSound'
    BY <1>a, <1>0, <2>1, <2>2, <2>3
       DEF Fund!ReservationsSound, Fund!Known, Fund!Free, FundTyped
  <2> QED BY <1>0, <2>3, <2>4, <2>5, <1>b, FundStep, FundIdle
<1>2. CASE Fund(s)!WriteReservation(w)
  <2>1. \/ reservation' = reservation
        \/ reservation' = [reservation EXCEPT ![j.id].status = j.to]
    BY <1>2 DEF Fund!WriteReservation
  <2>2. /\ j.id \in Cast[s].reservations /\ reservation[j.id] \in Fund(s)!ReservationRec
        /\ j.to \in {"RELEASED", "CANCELLED"} /\ j.id \in Fund(s)!Known(reservation)
    BY <1>2, <1>a, FundRows, FundJobKinds
       DEF Fund!WriteReservation, Fund!At, Fund!CarriedSound
  <2>3. [reservation[j.id] EXCEPT !.status = j.to] \in Fund(s)!ReservationRec
    BY <2>2 DEF Fund!ReservationRec
  <2>4. FundTyped(s)'
    BY <1>a, <1>0, <2>1, <2>2, <2>3 DEF FundTyped
  <2>5. \A r \in Cast[s].reservations :
          /\ reservation'[r].com = reservation[r].com
          /\ reservation'[r].amount = reservation[r].amount
          /\ reservation'[r].status # "none" <=> reservation[r].status # "none"
    BY <1>a, <2>1, <2>2, <2>3 DEF FundTyped, Fund!ReservationRec
  <2>6. FundLater(s)
    BY <1>0, <2>5 DEF FundLater
  <2>7. Fund(s)!ReservationsSound'
    BY <1>a, <1>0, <2>4, <2>5 DEF Fund!ReservationsSound, Fund!Known, Fund!Free, FundTyped
  <2> QED BY <1>0, <2>4, <2>6, <2>7, <1>b, FundStep, FundIdle
<1> QED BY <1>1, <1>2

LEMMA FundReleasesKeep ==
  ASSUME NEW s \in Scenes, Fund(s)!IInv, NEW w \in Workers,
         Fund(s)!Draft(w) \/ Fund(s)!WriteEvaluation(w) \/ Fund(s)!WriteCancelled(w)
  PROVE  Fund(s)!IInv' /\ Moved(w) /\ FundNext(s, w)
<1> DEFINE j == job[w]
<1>a. FundTyped(s) /\ Fund(s)!TypeOK /\ Fund(s)!CarriedSound(j) /\ Fund(s)!ReleasesSound
  BY DEF Fund!IInv, Fund!TypeOK, FundTyped, Fund!TablesSound
<1>b. ASSUME FundTyped(s)', FundLater(s), UNCHANGED <<invoice, reservation>>,
             Fund(s)!ReleasesSound'
      PROVE  Fund(s)!TablesSound'
  BY <1>b, FundInvoicesStay, FundReservationsStay DEF Fund!TablesSound
<1>0. UNCHANGED <<eligible, entitlement, invoice, commitment, reservation, Case(s)!Held>>
  BY DEF Fund!Draft, Fund!WriteEvaluation, Fund!WriteCancelled
<1>1. CASE Fund(s)!Draft(w)
  <2>1. PICK q \in Fund(s)!Free(release), e \in Fund(s)!Known(entitlement),
             i \in Fund(s)!Known(invoice), r \in Fund(s)!Known(reservation),
             full \in BOOLEAN, a \in Fund(s)!Amounts :
          /\ full => a = entitlement[e].net
          /\ a <= reservation[r].amount
          /\ release' = [release EXCEPT ![q] =
               [status |-> "DRAFT", ent |-> e, inv |-> i, res |-> r, amount |-> a]]
    BY ONLY <1>1, Zenon DEF Fund!Draft
  <2>2. UNCHANGED job /\ job[w].at = "idle"
    BY <1>1 DEF Fund!Draft, Fund!At
  <2>3. /\ q \in Cast[s].releases /\ release[q].status = "none"
        /\ e \in Cast[s].entitlements /\ i \in Cast[s].invoices /\ r \in Cast[s].reservations
    BY <1>a, <2>1, FundRows DEF Fund!Free, FundTyped
  <2>4. [status |-> "DRAFT", ent |-> e, inv |-> i, res |-> r, amount |-> a]
          \in Fund(s)!ReleaseRec
    BY <2>3 DEF Fund!ReleaseRec
  <2>5. /\ release'[q] = [status |-> "DRAFT", ent |-> e, inv |-> i, res |-> r, amount |-> a]
        /\ \A x \in Cast[s].releases \ {q} : release'[x] = release[x]
    BY <1>a, <2>1, <2>3 DEF FundTyped
  <2>6. FundTyped(s)'
    BY <1>a, <1>0, <2>1, <2>4 DEF FundTyped
  <2>7. FundLater(s)
    BY <1>0, <2>3, <2>5 DEF FundLater
  <2>8. Fund(s)!ReleasesSound'
    BY <1>a, <1>0, <2>1, <2>5, <2>6 DEF Fund!ReleasesSound, Fund!Known, Fund!Free, FundTyped
  <2> QED BY <1>0, <2>2, <2>6, <2>7, <2>8, <1>b, FundAtomic
<1>2. ASSUME NEW to \in {"CONDITIONS_MET", "BLOCKED", "CANCELLED"},
             j.id \in Fund(s)!Known(release), Fund(s)!PutRelease(j.id, to), Carry(w, Idle),
             to = "CONDITIONS_MET" => invoice[release[j.id].inv].status = "APPROVED"
      PROVE  Fund(s)!IInv' /\ Moved(w) /\ FundNext(s, w)
  <2>1. \/ release' = release
        \/ release' = [release EXCEPT ![j.id].status = to]
    BY <1>2 DEF Fund!PutRelease
  <2>2. j.id \in Cast[s].releases /\ release[j.id] \in Fund(s)!ReleaseRec
    BY <1>2, <1>a, FundRows
  <2>3. [release[j.id] EXCEPT !.status = to] \in Fund(s)!ReleaseRec
    BY <2>2 DEF Fund!ReleaseRec
  <2>4. FundTyped(s)'
    BY <1>a, <1>0, <2>1, <2>2, <2>3 DEF FundTyped
  <2>5. \A q \in Cast[s].releases :
          /\ release'[q].inv = release[q].inv /\ release'[q].res = release[q].res
          /\ release'[q].amount = release[q].amount
          /\ release[q].status # "none" => release'[q].status # "none"
          /\ release'[q].status # "none" => release[q].status # "none"
    BY <1>a, <1>2, <2>1, <2>2, <2>3 DEF FundTyped, Fund!ReleaseRec, Fund!Known, Fund!Free
  <2>6. FundLater(s)
    BY <1>0, <2>5 DEF FundLater
  <2>7. \A q \in Cast[s].releases :
          release'[q].status = "CONDITIONS_MET" =>
            \/ release[q].status = "CONDITIONS_MET"
            \/ q = j.id /\ to = "CONDITIONS_MET"
    BY <1>a, <2>1, <2>2 DEF FundTyped, Fund!ReleaseRec
  <2>8. Fund(s)!ReleasesSound'
    <3> SUFFICES ASSUME NEW q \in Cast[s].releases, release'[q].status # "none"
        PROVE  /\ release[q].inv \in Fund(s)!Known(invoice)
               /\ release[q].res \in Fund(s)!Known(reservation)
               /\ release[q].amount <= reservation[release[q].res].amount
               /\ release'[q].status = "CONDITIONS_MET" =>
                    invoice[release[q].inv].status = "APPROVED"
      BY <1>0, <2>4, <2>5 DEF Fund!ReleasesSound, Fund!Known, Fund!Free, FundTyped
    <3>1. q \in Fund(s)!Known(release)
      BY <1>a, <2>5 DEF Fund!Known, Fund!Free, FundTyped
    <3> QED BY <1>a, <1>2, <2>7, <3>1 DEF Fund!ReleasesSound
  <2> QED BY <1>0, <1>2, <2>4, <2>6, <2>8, <1>b, FundStep, FundIdle
<1>3. CASE Fund(s)!WriteEvaluation(w)
  <2>1. /\ j.at = "evaluated" /\ Fund(s)!PutRelease(j.id, j.to) /\ Carry(w, Idle)
    BY <1>3
       DEF Fund!WriteEvaluation, Fund!At, Fund!Return, Fund!Carry, Carry, Fund!Idle, Idle
  <2>2. /\ j.to \in {"CONDITIONS_MET", "BLOCKED"} /\ j.id \in Fund(s)!Known(release)
        /\ j.to = "CONDITIONS_MET" => invoice[release[j.id].inv].status = "APPROVED"
    BY <1>a, <2>1, FundJobKinds DEF Fund!CarriedSound
  <2> QED BY <1>2, <2>1, <2>2
<1>4. CASE Fund(s)!WriteCancelled(w)
  <2>1. /\ j.at = "cancel" /\ Fund(s)!PutRelease(j.id, "CANCELLED") /\ Carry(w, Idle)
    BY <1>4
       DEF Fund!WriteCancelled, Fund!At, Fund!Return, Fund!Carry, Carry, Fund!Idle, Idle
  <2>2. j.id \in Fund(s)!Known(release)
    BY <1>a, <2>1 DEF Fund!CarriedSound
  <2> QED BY <1>2, <2>1, <2>2
<1> QED BY <1>1, <1>3, <1>4

LEMMA FundHandleKeeps ==
  ASSUME NEW s \in Scenes, Fund(s)!IInv, NEW w \in Workers, Fund(s)!Handle(w)
  PROVE  Fund(s)!IInv' /\ Moved(w) /\ FundNext(s, w)
  BY FundReadsKeep, FundEntitlementsKeep, FundInsertInvoiceKeeps, FundWriteInvoiceKeeps,
     FundCommitmentsKeep, FundReservationsKeep, FundReleasesKeep
     DEF Fund!Handle

LEMMA FundDieKeeps ==
  ASSUME NEW s \in Scenes, Fund(s)!IInv, NEW w \in Workers, Carry(w, Idle),
         UNCHANGED <<fundingVars, Case(s)!Held>>
  PROVE  Fund(s)!IInv'
  BY FundReads, FundIdle

(* Steps of other engines' requests keep the invariant.                    *)
LEMMA FundOthersKeep ==
  ASSUME NEW s \in Scenes, Fund(s)!IInv, UNCHANGED fundingVars,
         Case(s)!Held' \subseteq Cast[s].releases,
         NEW w \in Workers, Moved(w), job'[w].at \notin Fund(s)!Calls
  PROVE  Fund(s)!IInv'
<1>1. Fund(s)!TypeOK'
  BY DEF Fund!IInv, Fund!TypeOK, Fund!Carrying, fundingVars, Moved
<1>2. FundTyped(s)' /\ FundLater(s)
  BY DEF fundingVars, FundTyped, FundLater, Fund!IInv, Fund!TypeOK
<1>3. Fund(s)!TablesSound'
  BY <1>2, FundInvoicesStay, FundReservationsStay, FundReleasesStay
     DEF fundingVars, Fund!TablesSound
<1>4. ASSUME NEW v \in Workers PROVE Fund(s)!CarriedSound(job[v])'
  <2>1. CASE v = w
    BY <2>1 DEF Fund!CarriedSound, Fund!Calls
  <2>2. CASE v # w
    BY <2>2, <1>2, FundCarried DEF Moved
  <2> QED BY <2>1, <2>2
<1> QED BY <1>1, <1>3, <1>4 DEF Fund!IInv

----------------------------------------------------------------------------
(* The engines together.                                                   *)

(* A request of one engine makes none of another's calls.                  *)
LEMMA CallsApart ==
  ASSUME NEW s \in Scenes, NEW at
  PROVE  /\ at \in Calls => at \notin Pay(s)!Calls \cup Fund(s)!Calls \cup Case(s)!Calls
         /\ at \in Pay(s)!Calls => at \notin Calls \cup Fund(s)!Calls \cup Case(s)!Calls
         /\ at \in Fund(s)!Calls => at \notin Calls \cup Pay(s)!Calls \cup Case(s)!Calls
         /\ at \in Case(s)!Calls => at \notin Calls \cup Pay(s)!Calls \cup Fund(s)!Calls
         /\ at = "idle" => at \notin Calls \cup Pay(s)!Calls \cup Fund(s)!Calls \cup Case(s)!Calls
  BY DEF Calls, Pay!Calls, Fund!Calls, Case!Calls

(* Where a request of an engine is before and after a step of it.          *)
LEMMA AuthorityMoves ==
  ASSUME IInv, NEW w \in Workers, Handle(w)
  PROVE  /\ Moved(w)
         /\ job[w].at \in Calls \cup {"idle"}
         /\ job'[w].at \in Calls \cup {"idle"}
<1>1. PICK j : Carry(w, j) /\ j.at \in Calls \cup {"idle"}
  <2> USE DEF Calls, Idle, Return, Receive
  <2>1. CASE DefineThreshold(w)
    BY <2>1 DEF DefineThreshold
  <2>2. CASE RequestAuthorization(w)
    <3>1. PICK u \in Actors, amount \in Amounts : \E i \in FirstCovering(amount) :
            Carry(w, [at |-> "request", by |-> u, need |-> thresholds[i].need])
      BY <2>2 DEF RequestAuthorization
    <3> QED BY <3>1
  <2>3. CASE Approve(w)
    <3>1. PICK a \in Authorizations, u \in Actors :
            Carry(w, [at |-> "count", id |-> a, by |-> u, row |-> auth[a]])
      BY <2>3 DEF Approve
    <3> QED BY <3>1
  <2>6. CASE Reject(w)
    <3>1. PICK a \in Authorizations :
            Carry(w, [at |-> "decide", id |-> a, row |-> [auth[a] EXCEPT !.status = "REJECTED"]])
      BY <2>6 DEF Reject
    <3> QED BY <3>1
  <2>4. CASE AppendThreshold(w) \/ InsertAuthorization(w) \/ WriteDecision(w)
    BY <2>4 DEF AppendThreshold, InsertAuthorization, WriteDecision
  <2>5. CASE CountVotes(w) \/ CastVote(w)
    BY <2>5 DEF CountVotes, CastVote
  <2> QED BY <2>1, <2>2, <2>3, <2>4, <2>5, <2>6 DEF Handle, Continue
<1>2. job[w].at \in Calls \cup {"idle"}
  BY DEF Handle, Continue, DefineThreshold, RequestAuthorization, Approve, Reject,
         AppendThreshold, InsertAuthorization, CountVotes, CastVote, WriteDecision,
         Receive, At, Calls
<1>3. Moved(w) /\ job'[w] = j
  BY <1>1, CarryMoves DEF IInv, TypeOK, Carrying
<1> QED BY <1>1, <1>2, <1>3

LEMMA Starts ==
  ASSUME NEW s \in Scenes, NEW w \in Workers
  PROVE  /\ Pay(s)!Handle(w)  => job[w].at \in Pay(s)!Calls \cup {"idle"}
         /\ Fund(s)!Handle(w) => job[w].at \in Fund(s)!Calls \cup {"idle"}
         /\ Case(s)!Handle(w) => job[w].at \in Case(s)!Calls \cup {"idle"}
<1>1. Pay(s)!Handle(w)  => job[w].at \in Pay(s)!Calls \cup {"idle"}
  BY DEF Pay!Handle, Pay!Issue, Pay!InsertInstruction, Pay!Submit, Pay!SubmitPayment,
         Pay!RecordAnswer, Pay!Refresh, Pay!GetStatus, Pay!Reverse, Pay!WriteStatus, Pay!Post,
         Pay!Reconcile, Pay!InsertReconciliation, Pay!Receive, Pay!At, Pay!Calls
<1>2. Fund(s)!Handle(w) => job[w].at \in Fund(s)!Calls \cup {"idle"}
  BY DEF Fund!Handle, Fund!Assess, Fund!Calculate, Fund!InsertEntitlement, Fund!Confirm,
         Fund!WriteConfirmed, Fund!SubmitInvoice, Fund!CheckNumber, Fund!InsertInvoice,
         Fund!ApproveInvoice, Fund!RejectInvoice, Fund!WriteInvoice, Fund!RecordCommitment,
         Fund!ConfirmCommitment, Fund!AskCustodian, Fund!WriteCommitment, Fund!Reserve,
         Fund!SumReserved, Fund!InsertReservation, Fund!EndReservation, Fund!WriteReservation,
         Fund!Draft, Fund!Evaluate, Fund!ReadFor, Fund!ReadInvoice, Fund!ReadReservation,
         Fund!ReadHold, Fund!WriteEvaluation, Fund!Cancel, Fund!WriteCancelled,
         Fund!Receive, Fund!At, Fund!Calls
<1>3. Case(s)!Handle(w) => job[w].at \in Case(s)!Calls \cup {"idle"}
  BY DEF Case!Handle, Case!Continue, Case!Raise, Case!PlaceHold, Case!File, Case!AppendFiling,
         Case!Decide, Case!AppendDecision, Case!Appeal, Case!WriteStatus, Case!Close,
         Case!WriteClosed, Case!LiftHold, Case!OpenAccount, Case!CloseAccount,
         Case!WriteAccountClosed, Case!IssueCertificate, Case!CheckIssued,
         Case!InsertCertificate, Case!Receive, Case!At, Case!Calls
<1> QED BY <1>1, <1>2, <1>3

(* The inductive invariant of the scene that is played.                    *)
Sound(s) == IInv /\ Pay(s)!IInv /\ Fund(s)!IInv /\ Case(s)!IInv

SettlementInv == scene \in Scenes /\ \A s \in Scenes : scene = s => Sound(s)

LEMMA InitPay == ASSUME NEW s \in Scenes, Pay(s)!Init PROVE Pay(s)!IInv
<1>0. Pay(s)!PaymentAssumption
  BY SettlementAssumption
<1>1. Pay(s)!TypeOK
  BY DEF Pay!Init, Pay!TypeOK, Pay!Carrying, Pay!Calls, Pay!Idle, Pay!Instr, Pay!NoInstr,
         Pay!Statuses, Pay!ProviderStates, Pay!None
<1>2. Pay(s)!TablesSound
  BY DEF Pay!Init, Pay!TablesSound, Pay!Issued, Pay!NoInstr
<1>3. \A w \in Workers : Pay(s)!CarriedSound(job[w])
  BY DEF Pay!Init, Pay!CarriedSound, Pay!Idle
<1> QED BY <1>1, <1>2, <1>3 DEF Pay!IInv

LEMMA InitFund == ASSUME NEW s \in Scenes, Fund(s)!Init PROVE Fund(s)!IInv
<1>1. Fund(s)!TypeOK
  BY DEF Fund!Init, Fund!TypeOK, Fund!Carrying, Fund!Calls, Fund!Idle
<1>2. Fund(s)!TablesSound
  BY DEF Fund!Init, Fund!TablesSound, Fund!OneLiveInvoice, Fund!Live, Fund!InvoicesSound,
         Fund!ReservationsSound, Fund!ReleasesSound, Fund!Known, Fund!Free, Fund!Blank
<1>3. \A w \in Workers : Fund(s)!CarriedSound(job[w])
  BY DEF Fund!Init, Fund!CarriedSound, Fund!Idle
<1> QED BY <1>1, <1>2, <1>3 DEF Fund!IInv

LEMMA InitCase == ASSUME NEW s \in Scenes, Case(s)!Init PROVE Case(s)!IInv
<1>1. Case(s)!TypeOK
  BY DEF Case!Init, Case!TypeOK, Case!Carrying, Case!Calls, Case!Idle, Case!DisputeRec,
         Case!AccountRec
<1>2. Case(s)!TablesSound
  BY DEF Case!Init, Case!TablesSound, Case!OnlyClosureLifts, Case!OneCertificate,
         Case!NoDispute, Case!NoAccount
<1>3. \A w \in Workers : Case(s)!CarriedSound(job[w])
  BY DEF Case!Init, Case!CarriedSound, Case!Idle
<1> QED BY <1>1, <1>2, <1>3 DEF Case!IInv

LEMMA BeginSound == Begin => SettlementInv
  BY InitIInv, InitPay, InitFund, InitCase DEF Begin, SettlementInv, Sound

(* The steps of each engine, and deaths, keep the invariants of all four.  *)
LEMMA AuthorizeKeeps ==
  ASSUME NEW s \in Scenes, Sound(s), NEW w \in Workers, Authorize(w) PROVE Sound(s)'
<1> USE DEF Sound
<1>1. /\ Moved(w) /\ job'[w].at \notin Pay(s)!Calls \cup Fund(s)!Calls \cup Case(s)!Calls
      /\ UNCHANGED <<paymentVars, fundingVars, caseVars>>
  BY AuthorityMoves, CallsApart DEF Authorize
<1>2. Case(s)!Held' = Case(s)!Held /\ Case(s)!Held \subseteq Cast[s].releases
  BY <1>1, HeldStays DEF Pay!IInv, Pay!TypeOK
<1> QED BY <1>1, <1>2, HandleKeeps, PayOthersKeep, FundOthersKeep, CaseOthersKeep DEF Authorize

LEMMA ExecuteKeeps ==
  ASSUME NEW s \in Scenes, Sound(s), NEW w \in Workers, Execute(s, w) PROVE Sound(s)'
<1> USE DEF Sound
<1>1. /\ Pay(s)!IInv' /\ Moved(w) /\ job'[w].at \notin Calls \cup Fund(s)!Calls \cup Case(s)!Calls
      /\ UNCHANGED <<store, fundingVars, caseVars>>
  BY PayHandleKeeps, CallsApart DEF Execute, PayNext
<1>2. Case(s)!Held' = Case(s)!Held /\ Case(s)!Held \subseteq Cast[s].releases
  BY <1>1, HeldStays DEF Pay!IInv, Pay!TypeOK
<1> QED BY <1>1, <1>2, OthersKeep, FundOthersKeep, CaseOthersKeep DEF Moved

LEMMA ReleaseKeeps ==
  ASSUME NEW s \in Scenes, Sound(s), NEW w \in Workers, Release(s, w) PROVE Sound(s)'
<1> USE DEF Sound
<1>1. /\ Fund(s)!IInv' /\ Moved(w) /\ job'[w].at \notin Calls \cup Pay(s)!Calls \cup Case(s)!Calls
      /\ UNCHANGED <<store, paymentVars, caseVars>>
  BY FundHandleKeeps, CallsApart DEF Release, FundNext
<1>2. Case(s)!Held' = Case(s)!Held /\ Case(s)!Held \subseteq Cast[s].releases
  BY <1>1, HeldStays DEF Pay!IInv, Pay!TypeOK
<1> QED BY <1>1, <1>2, OthersKeep, PayOthersKeep, CaseOthersKeep DEF Moved

LEMMA DisputeKeeps ==
  ASSUME NEW s \in Scenes, Sound(s), NEW w \in Workers, Dispute(s, w) PROVE Sound(s)'
<1> USE DEF Sound
<1>1. /\ Case(s)!IInv' /\ Moved(w) /\ job'[w].at \notin Calls \cup Pay(s)!Calls \cup Fund(s)!Calls
      /\ UNCHANGED <<store, paymentVars, fundingVars>>
  BY CaseHandleKeeps, CallsApart DEF Dispute, CaseNext
<1>2. Case(s)!Held' \subseteq Cast[s].releases
  BY <1>1 DEF Case!IInv, Case!TypeOK, Case!Held, Case!Raised, Case!DisputeRec, Case!NoDispute
<1> QED BY <1>1, <1>2, OthersKeep, PayOthersKeep, FundOthersKeep DEF Moved

(* No request moves: the provider acts, or nobody does.                    *)
LEMMA StillSound ==
  ASSUME NEW s \in Scenes, Sound(s), UNCHANGED <<store, fundingVars, caseVars, job>>
  PROVE  IInv' /\ Fund(s)!IInv' /\ Case(s)!IInv'
<1> USE DEF Sound
<1>1. Case(s)!Held' = Case(s)!Held
  BY HeldStays
<1>2. IInv' /\ Case(s)!IInv'
  BY DEF store, IInv, TypeOK, Carrying, TablesSound, Backed, ReadsSound, Carried,
         caseVars, Case!IInv, Case!TypeOK, Case!Carrying, Case!TablesSound,
         Case!OnlyClosureLifts, Case!OneCertificate, Case!CarriedSound, Case!Raised
<1>3. Fund(s)!IInv'
  <2>1. Fund(s)!TypeOK'
    BY <1>1 DEF fundingVars, Fund!IInv, Fund!TypeOK, Fund!Carrying
  <2>2. Fund(s)!OneLiveInvoice' /\ Fund(s)!InvoicesSound'
    BY DEF fundingVars, Fund!IInv, Fund!TablesSound, Fund!OneLiveInvoice, Fund!Live, Fund!InvoicesSound,
           Fund!Known, Fund!Free, Fund!ForTheNet
  <2>3. Fund(s)!ReservationsSound' /\ Fund(s)!ReleasesSound'
    BY DEF fundingVars, Fund!IInv, Fund!TablesSound, Fund!ReservationsSound, Fund!ReleasesSound,
           Fund!Known, Fund!Free
  <2>4. \A v \in Workers : Fund(s)!CarriedSound(job[v])'
    BY DEF fundingVars, Fund!IInv, Fund!CarriedSound, Fund!Known, Fund!Free, Fund!ForTheNet
  <2> QED BY <2>1, <2>2, <2>3, <2>4 DEF Fund!IInv, Fund!TablesSound
<1> QED BY <1>2, <1>3

LEMMA ProviderKeeps ==
  ASSUME NEW s \in Scenes, Sound(s), ProviderActs(s) PROVE Sound(s)'
<1>1. Pay(s)!IInv' /\ UNCHANGED <<store, fundingVars, caseVars, job>>
  BY PayProviderKeeps DEF ProviderActs, Pay!ProviderSettles, Sound
<1> QED BY <1>1, StillSound DEF Sound

LEMMA StutterKeeps ==
  ASSUME NEW s \in Scenes, Sound(s),
         UNCHANGED <<store, paymentVars, fundingVars, caseVars, job>>
  PROVE  Sound(s)'
<1>1. Case(s)!Held' = Case(s)!Held
  BY HeldStays
<1>2. Pay(s)!TypeOK'
  BY <1>1 DEF Sound, Pay!IInv, Pay!TypeOK, Pay!Carrying, paymentVars
<1>3. Pay(s)!IInv'
  BY <1>2, PayStays DEF Sound, paymentVars
<1> QED BY <1>3, StillSound DEF Sound

LEMMA DeathKeeps ==
  ASSUME NEW s \in Scenes, Sound(s), NEW w \in Workers, Dies(w) PROVE Sound(s)'
<1> USE DEF Sound
<1>1. UNCHANGED <<store, paymentVars, fundingVars, caseVars>> /\ Carry(w, Idle)
  BY DEF Dies, Crash, Return
<1>2. Case(s)!Held' = Case(s)!Held
  BY <1>1, HeldStays
<1>3. IInv'
  BY HandleKeeps DEF Die, Dies
<1> QED BY <1>1, <1>2, <1>3, PayDieKeeps, FundDieKeeps, CaseDieKeeps DEF Pay!IInv

LEMMA PlaySound == SettlementInv /\ [Play]_allVars => SettlementInv'
<1> SUFFICES ASSUME SettlementInv, [Play]_allVars PROVE SettlementInv'
  OBVIOUS
<1>1. PICK s \in Scenes : scene = s /\ Sound(s)
  BY DEF SettlementInv
<1>2. \A w \in Clients(s) \cup Mortals(s) : w \in Workers
  BY SettlementAssumption
<1>3. CASE Play
  <2>1. /\ scene' = s
        /\ \/ \E w \in Approvers(s) : Authorize(w)
           \/ \E w \in Payers(s) : Execute(s, w)
           \/ ProviderActs(s)
           \/ \E w \in Releasers(s) : Release(s, w)
           \/ \E w \in Parties(s) : Dispute(s, w)
           \/ \E w \in Mortals(s) : Dies(w)
    BY <1>1, <1>3 DEF Play, Playing
  <2>2. Sound(s)'
    BY <1>1, <1>2, <2>1, AuthorizeKeeps, ExecuteKeeps, ProviderKeeps, ReleaseKeeps,
       DisputeKeeps, DeathKeeps DEF Clients
  <2> QED BY <2>1, <2>2 DEF SettlementInv
<1>4. CASE UNCHANGED allVars
  <2>1. Sound(s)'
    BY <1>1, <1>4, StutterKeeps DEF allVars
  <2> QED BY <1>1, <1>4, <2>1 DEF SettlementInv, allVars
<1> QED BY <1>3, <1>4

(* The strengthened invariant of every scene, for every cast.              *)
THEOREM SettlementInvariant == Scenario => []SettlementInv
  BY BeginSound, PlaySound, PTL DEF Scenario

(* Tables and requests in flight have their types.                         *)
THEOREM SettlementTyped == Scenario => []RecordsTyped
<1>1. SettlementInv => RecordsTyped
  BY DEF SettlementInv, Sound, RecordsTyped, IInv, Pay!IInv, Fund!IInv, Case!IInv
<1> QED BY <1>1, SettlementInvariant, PTL

LEMMA OneElement ==
  ASSUME NEW S, \A x, y \in S : x = y PROVE IsFiniteSet(S) /\ Cardinality(S) <= 1
<1>1. CASE S = {}
  BY <1>1, FS_EmptySet
<1>2. CASE S # {}
  <2>1. PICK x : x \in S
    BY <1>2
  <2>2. S \subseteq {x}
    BY <2>1
  <2>3. IsFiniteSet({x}) /\ Cardinality({x}) = 1
    BY FS_Singleton
  <2> QED BY <2>2, <2>3, FS_Subset
<1> QED BY <1>1, <1>2

(* A key pays one payload, an invoice number is in force once, an account  *)
(* gets one certificate, however many requests race (Engines 43, 47, 50).  *)
THEOREM SettlementOnce == Scenario => []OnceOnly
<1>1. ASSUME SettlementInv PROVE OnceOnly
  <2> SUFFICES ASSUME NEW s \in Scenes, Sound(s)
               PROVE  /\ Pay(s)!OnePayloadPerKey
                      /\ Fund(s)!OneLiveInvoice /\ Case(s)!OneCertificate
    BY <1>1 DEF SettlementInv, OnceOnly
  <2>1. ASSUME NEW k \in Cast[s].keys PROVE Cardinality(asked[k]) <= 1
    <3>1. ASSUME NEW p \in asked[k], NEW q \in asked[k] PROVE p = q
      <4>1. PICK i \in Pay(s)!Issued : instr[i].key = k /\ instr[i].payload = p
        BY DEF Sound, Pay!IInv, Pay!TablesSound
      <4>2. PICK m \in Pay(s)!Issued : instr[m].key = k /\ instr[m].payload = q
        BY DEF Sound, Pay!IInv, Pay!TablesSound
      <4>3. i = m
        BY <4>1, <4>2 DEF Sound, Pay!IInv, Pay!TablesSound
      <4> QED BY <4>1, <4>2, <4>3
    <3> QED BY <3>1, OneElement
  <2>2. Pay(s)!OnePayloadPerKey
    BY <2>1 DEF Pay!OnePayloadPerKey, Pay!Cardinality, Cardinality
  <2> QED BY <2>2 DEF Sound, Fund!IInv, Fund!TablesSound, Case!IInv, Case!TablesSound
<1> QED BY <1>1, SettlementInvariant, PTL

(* Settlements were reported, attempts were made, met conditions rest on   *)
(* an approved invoice for a confirmed net, a hold is lifted by the        *)
(* closure of its own dispute, which takes a decision.                     *)
THEOREM SettlementTrue == Scenario => []RecordsTrue
<1>1. ASSUME SettlementInv PROVE RecordsTrue
  <2> SUFFICES ASSUME NEW s \in Scenes, Sound(s)
               PROVE  /\ Pay(s)!SettlementReported /\ Pay(s)!AttemptsWithinCalls
                      /\ Fund(s)!MetIsBacked
                      /\ Case(s)!OnlyClosureLifts /\ Case(s)!ClosedOnDecision
    BY <1>1 DEF SettlementInv, RecordsTrue
  <2>1. Pay(s)!SettlementReported /\ Pay(s)!AttemptsWithinCalls
    BY DEF Sound, Pay!IInv, Pay!TablesSound, Pay!SettlementReported, Pay!AttemptsWithinCalls
  <2>2. Fund(s)!MetIsBacked
    BY DEF Sound, Fund!IInv, Fund!TablesSound, Fund!ReleasesSound, Fund!InvoicesSound,
           Fund!ForTheNet, Fund!MetIsBacked
  <2>3. Case(s)!OnlyClosureLifts /\ Case(s)!ClosedOnDecision
    BY DEF Sound, Case!IInv, Case!TablesSound, Case!ClosedOnDecision
  <2> QED BY <2>1, <2>2, <2>3
<1> QED BY <1>1, SettlementInvariant, PTL

(* Engine 46 implements the abstract vote also among the other engines.    *)
THEOREM SettlementVotes == Scenario => QuorumSpec
<1>1. Begin => Voting!Init
  BY DEF Begin, Init, Voting!Init, NoAuth
<1>2. SettlementInv /\ [Play]_allVars => [Voting!Next]_<<auth, votes>>
  <2> SUFFICES ASSUME SettlementInv, [Play]_allVars PROVE [Voting!Next]_<<auth, votes>>
    OBVIOUS
  <2>1. PICK s \in Scenes : scene = s /\ IInv
    BY DEF SettlementInv, Sound
  <2>2. CASE UNCHANGED store
    BY <2>2 DEF store
  <2>3. CASE ~UNCHANGED store
    <3>1. PICK w \in Approvers(s) : Authorize(w)
      BY <2>1, <2>3
         DEF Play, Playing, Execute, ProviderActs, Release, Dispute, Dies, allVars
    <3>2. w \in Workers
      BY SettlementAssumption DEF Clients
    <3> QED BY <2>1, <3>1, <3>2, HandleVotes DEF Authorize
  <2> QED BY <2>2, <2>3
<1> QED BY <1>1, <1>2, SettlementInvariant, PTL DEF Scenario, QuorumSpec, Voting!Spec

----------------------------------------------------------------------------
(* The tables refuse money to what is held, also to requests that read     *)
(* before the hold came.                                                   *)
LEMMA HeldNotIssued ==
  ASSUME NEW s \in Scenes, Pay(s)!IInv, NEW w \in Workers, Pay(s)!Handle(w),
         NEW i \in Cast[s].instructions, instr[i].status = "none", instr'[i].status # "none"
  PROVE  Cast[s].releaseOf[instr'[i].payload] \notin Case(s)!Held
<1> DEFINE j == job[w]
<1>1. ASSUME j.at \in {"reject", "accept", "write"} PROVE j.id # i
  BY <1>1 DEF Pay!IInv, Pay!CarriedSound, Pay!Issued
<1>2. ~Pay(s)!RecordAnswer(w) /\ ~Pay(s)!WriteStatus(w)
  BY <1>1 DEF Pay!RecordAnswer, Pay!WriteStatus, Pay!PutInstr, Pay!At, Pay!IInv, Pay!TypeOK
<1>3. Pay(s)!InsertInstruction(w)
  BY <1>2
     DEF Pay!Handle, Pay!Issue, Pay!Submit, Pay!SubmitPayment, Pay!Refresh, Pay!GetStatus,
         Pay!Reverse, Pay!Post, Pay!Reconcile, Pay!InsertReconciliation, Pay!records
<1>4. PICK k \in Cast[s].instructions :
        /\ Pay(s)!Insertable(j.key, j.payload)
        /\ instr' = [instr EXCEPT ![k] = [status |-> "DRAFT", key |-> j.key,
                                          payload |-> j.payload, attempts |-> 0]]
  BY <1>3 DEF Pay!InsertInstruction, Pay!Issued
<1>5. instr'[i].payload = j.payload
  BY <1>4 DEF Pay!IInv, Pay!TypeOK
<1> QED BY <1>4, <1>5 DEF Pay!Insertable

LEMMA HeldNotReleased ==
  ASSUME NEW s \in Scenes, Fund(s)!IInv, NEW w \in Workers, Fund(s)!Handle(w),
         NEW q \in Cast[s].releases,
         release[q].status # "CONDITIONS_MET", release'[q].status = "CONDITIONS_MET"
  PROVE  q \notin Case(s)!Held
<1>1. Fund(s)!Draft(w) \/ Fund(s)!WriteEvaluation(w) \/ Fund(s)!WriteCancelled(w)
  BY DEF Fund!Handle, Fund!Assess, Fund!Calculate, Fund!InsertEntitlement, Fund!Confirm,
         Fund!WriteConfirmed, Fund!SubmitInvoice, Fund!CheckNumber, Fund!InsertInvoice,
         Fund!ApproveInvoice, Fund!RejectInvoice, Fund!WriteInvoice, Fund!RecordCommitment,
         Fund!ConfirmCommitment, Fund!AskCustodian, Fund!WriteCommitment, Fund!Reserve,
         Fund!SumReserved, Fund!InsertReservation, Fund!EndReservation, Fund!WriteReservation,
         Fund!Evaluate, Fund!ReadFor, Fund!ReadInvoice, Fund!ReadReservation,
         Fund!ReadHold, Fund!Cancel, Fund!records
<1>2. CASE Fund(s)!Draft(w)
  <2>1. \E x \in Fund(s)!Free(release) : \E row :
          row.status = "DRAFT" /\ release' = [release EXCEPT ![x] = row]
    BY ONLY <1>2, Zenon DEF Fund!Draft
  <2> QED BY <2>1 DEF Fund!IInv, Fund!TypeOK
<1>3. ASSUME NEW x, NEW to, Fund(s)!PutRelease(x, to) PROVE q \notin Case(s)!Held
  <2>1. Fund(s)!Permitted(x, to) /\ release' = [release EXCEPT ![x].status = to]
    BY <1>3 DEF Fund!PutRelease
  <2>2. x = q /\ to = "CONDITIONS_MET"
    BY <2>1 DEF Fund!IInv, Fund!TypeOK, Fund!ReleaseRec, Fund!Blank
  <2> QED BY <2>1, <2>2 DEF Fund!Permitted
<1> QED BY <1>1, <1>2, <1>3 DEF Fund!WriteEvaluation, Fund!WriteCancelled

LEMMA HeldNotClosed ==
  ASSUME NEW s \in Scenes, Case(s)!IInv, NEW w \in Workers, Case(s)!Handle(w),
         NEW a \in Cast[s].accounts,
         account[a].status = "DRAFT", account'[a].status = "CLOSED"
  PROVE  account[a].milestone \notin Case(s)!HeldMilestones
<1>1. Case(s)!OpenAccount(w) \/ Case(s)!WriteAccountClosed(w)
  BY DEF Case!Handle, Case!Continue, Case!Raise, Case!PlaceHold, Case!File, Case!AppendFiling,
         Case!Decide, Case!AppendDecision, Case!Appeal, Case!WriteStatus, Case!Close,
         Case!WriteClosed, Case!LiftHold, Case!CloseAccount, Case!IssueCertificate,
         Case!CheckIssued, Case!InsertCertificate, Case!accountVars
<1>2. ~Case(s)!OpenAccount(w)
  <2> SUFFICES ASSUME Case(s)!OpenAccount(w) PROVE FALSE
    OBVIOUS
  <2>1. \E x \in Cast[s].accounts : \E row :
          account[x].status = "none" /\ account' = [account EXCEPT ![x] = row]
    BY Zenon DEF Case!OpenAccount
  <2> QED BY <2>1 DEF Case!IInv, Case!TypeOK
<1>3. Case(s)!Closable(job[w].id) /\ account' = [account EXCEPT ![job[w].id].status = "CLOSED"]
  BY <1>1, <1>2 DEF Case!WriteAccountClosed
<1>4. job[w].id = a
  BY <1>3 DEF Case!IInv, Case!TypeOK
<1> QED BY <1>3, <1>4 DEF Case!Closable

(* Nothing is paid, released or closed under a hold (Engines 45, 47, 49    *)
(* and 50).                                                                *)
THEOREM HoldsStopMoney == Scenario => HoldStopsMoney
<1>1. ASSUME SettlementInv, Play, NEW s \in Scenes, scene = s PROVE HeldIsKept(s)
  <2>1. Sound(s) /\ Clients(s) \subseteq Workers
    BY <1>1, SettlementAssumption DEF SettlementInv
  <2>2. \/ UNCHANGED instr
        \/ \E w \in Payers(s) : Pay(s)!Handle(w)
    BY <1>1 DEF Play, Playing, Authorize, Execute, ProviderActs, Pay!ProviderSettles, Pay!records,
                Release, Dispute, Dies, paymentVars
  <2>3. \/ UNCHANGED release
        \/ \E w \in Releasers(s) : Fund(s)!Handle(w)
    BY <1>1 DEF Play, Playing, Authorize, Execute, ProviderActs, Release, Dispute, Dies,
                fundingVars
  <2>4. \/ UNCHANGED account
        \/ \E w \in Parties(s) : Case(s)!Handle(w)
    BY <1>1 DEF Play, Playing, Authorize, Execute, ProviderActs, Release, Dispute, Dies, caseVars
  <2>5. \A i \in Cast[s].instructions :
          instr[i].status = "none" /\ instr'[i].status # "none"
            => Cast[s].releaseOf[instr'[i].payload] \notin Case(s)!Held
    BY <2>1, <2>2, HeldNotIssued DEF Sound, Clients
  <2>6. \A q \in Cast[s].releases :
          release[q].status # "CONDITIONS_MET" /\ release'[q].status = "CONDITIONS_MET"
            => q \notin Case(s)!Held
    BY <2>1, <2>3, HeldNotReleased DEF Sound, Clients
  <2>7. \A a \in Cast[s].accounts :
          account[a].status = "DRAFT" /\ account'[a].status = "CLOSED"
            => account[a].milestone \notin Case(s)!HeldMilestones
    BY <2>1, <2>4, HeldNotClosed DEF Sound, Clients
  <2> QED BY <2>5, <2>6, <2>7 DEF HeldIsKept
<1>2. SettlementInv /\ [Play]_allVars => [\A s \in Scenes : scene = s => HeldIsKept(s)]_allVars
  BY <1>1
<1> QED BY <1>2, SettlementInvariant, PTL DEF Scenario, HoldStopsMoney

----------------------------------------------------------------------------
(* Requests that come one after another, and none of which dies.           *)

(* Engines 49 and 50: a step that leaves what the disputes hold.           *)
LEMMA CaseSerialStays ==
  ASSUME NEW s \in Scenes, Case(s)!SerialSound, NEW w \in Workers, Alone(w), Moved(w),
         job[w].at \notin {"placeHold", "lift"}, job'[w].at # "placeHold",
         hold' = hold, Case(s)!Raised' = Case(s)!Raised,
         \A d \in Case(s)!Raised : dispute'[d].status = "CLOSED" <=> dispute[d].status = "CLOSED"
  PROVE  Case(s)!SerialSound'
<1>1. \A v \in Workers : job[v].at \notin {"placeHold", "lift"} /\ job'[v].at # "placeHold"
  BY DEF Alone, At, Moved
<1>2. \A d \in Case(s)!Raised : Case(s)!HoldsRight(d)
  BY <1>1 DEF Case!SerialSound
<1> QED BY <1>1, <1>2 DEF Case!SerialSound, Case!HoldsRight, Case!At

LEMMA CaseReadsInTurn ==
  ASSUME NEW s \in Scenes, Case(s)!IInv, Case(s)!SerialSound, NEW w \in Workers, Alone(w),
         \/ Case(s)!File(w) \/ Case(s)!Decide(w) \/ Case(s)!Appeal(w) \/ Case(s)!Close(w)
         \/ Case(s)!CloseAccount(w) \/ Case(s)!IssueCertificate(w) \/ Case(s)!CheckIssued(w)
         \/ Case(s)!AppendFiling(w) \/ Case(s)!AppendDecision(w)
         \/ Case(s)!OpenAccount(w) \/ Case(s)!WriteAccountClosed(w)
         \/ Case(s)!InsertCertificate(w)
  PROVE  Case(s)!SerialSound'
<1>1. Moved(w)
  BY CaseReadsKeep, CaseDisputesKeep, CaseAccountsKeep
<1>2. job[w].at \notin {"placeHold", "lift"} /\ hold' = hold /\ dispute' = dispute
  BY DEF Case!File, Case!Decide, Case!Appeal, Case!Close, Case!CloseAccount,
         Case!IssueCertificate, Case!CheckIssued, Case!AppendFiling, Case!AppendDecision,
         Case!OpenAccount, Case!WriteAccountClosed, Case!InsertCertificate,
         Case!Receive, Case!At, Case!disputeVars, Case!accountVars
<1>3. job'[w].at # "placeHold"
  <2> USE DEF Case!IInv, Case!TypeOK, Case!Carrying, Case!Receive, Case!Carry, Case!Return,
              Case!Idle, Case!At
  <2>1. CASE Case(s)!File(w) \/ Case(s)!Decide(w) \/ Case(s)!Appeal(w) \/ Case(s)!Close(w)
    BY <2>1 DEF Case!File, Case!Decide, Case!Appeal, Case!Close
  <2>2. CASE Case(s)!CloseAccount(w) \/ Case(s)!IssueCertificate(w)
    BY <2>2 DEF Case!CloseAccount, Case!IssueCertificate
  <2>3. CASE Case(s)!CheckIssued(w)
    BY <2>3, CaseReadsKeep, CaseJobKinds DEF Case!CheckIssued, CaseNext, Case!Calls, Case!Jobs
  <2>4. CASE Case(s)!AppendFiling(w) \/ Case(s)!AppendDecision(w)
    BY <2>4 DEF Case!AppendFiling, Case!AppendDecision
  <2>5. CASE Case(s)!OpenAccount(w)
    BY <2>5 DEF Case!OpenAccount
  <2>6. CASE Case(s)!WriteAccountClosed(w) \/ Case(s)!InsertCertificate(w)
    BY <2>6 DEF Case!WriteAccountClosed, Case!InsertCertificate
  <2> QED BY <2>1, <2>2, <2>3, <2>4, <2>5, <2>6
<1> QED BY <1>1, <1>2, <1>3, CaseSerialStays DEF Case!Raised

(* A dispute that is raised goes on to place its hold, one that is closed  *)
(* to lift it.                                                             *)
LEMMA CaseWritesInTurn ==
  ASSUME NEW s \in Scenes, Case(s)!IInv, Case(s)!SerialSound, NEW w \in Workers, Alone(w),
         \/ Case(s)!Raise(w) \/ Case(s)!PlaceHold(w) \/ Case(s)!WriteStatus(w)
         \/ Case(s)!WriteClosed(w) \/ Case(s)!LiftHold(w)
  PROVE  Case(s)!SerialSound'
<1> DEFINE j == job[w]
           Others == \A v \in Workers \ {w} : job'[v].at = "idle"
           Right == \A v \in Workers : job'[v].at = "placeHold"
                                         => dispute'[job'[v].id].status # "CLOSED"
           Kept(d) == \/ hold'[d] = "active" <=> dispute'[d].status # "CLOSED"
                      \/ \E v \in Workers :
                           job'[v].at \in {"placeHold", "lift"} /\ job'[v].id = d
<1> USE DEF Case!IInv, Case!TypeOK
<1>0. /\ Case(s)!CarriedSound(j) /\ Moved(w) /\ Case(s)!IInv' /\ Others
  BY CaseDisputesKeep DEF Alone, At, Moved
<1>a. ASSUME Right, \A d \in Case(s)!Raised' : Kept(d) PROVE Case(s)!SerialSound'
  BY <1>a DEF Case!SerialSound, Case!HoldsRight, Case!At
<1>b. ASSUME NEW d \in Case(s)!Raised, j.at \notin {"placeHold", "lift"} \/ j.id # d
      PROVE  hold[d] = "active" <=> dispute[d].status # "CLOSED"
  BY <1>b DEF Case!SerialSound, Case!HoldsRight, Alone, At, Case!At
<1>1. CASE Case(s)!Raise(w)
  <2>1. PICK d \in Cast[s].disputes \ Case(s)!Raised, r \in Cast[s].releases :
          /\ dispute' = [dispute EXCEPT ![d] = [status |-> "OPEN", release |-> r]]
          /\ Carry(w, [at |-> "placeHold", id |-> d])
    BY <1>1 DEF Case!Raise, Case!Receive, Case!Carry, Carry
  <2>2. hold' = hold /\ j.at = "idle"
    BY <1>1 DEF Case!Raise, Case!Receive, Case!At
  <2>3. /\ dispute'[d] = [status |-> "OPEN", release |-> r]
        /\ \A x \in Cast[s].disputes \ {d} : dispute'[x] = dispute[x]
        /\ job'[w] = [at |-> "placeHold", id |-> d]
    BY <2>1 DEF Case!Carrying, Carry
  <2>4. Right
    BY <1>0, <2>3
  <2>5. ASSUME NEW x \in Case(s)!Raised' PROVE Kept(x)
    <3>1. CASE x = d
      BY <3>1, <2>3
    <3>2. CASE x # d
      BY <3>2, <2>2, <2>3, <1>b DEF Case!Raised
    <3> QED BY <3>1, <3>2
  <2> QED BY <1>a, <2>4, <2>5
<1>2. CASE Case(s)!PlaceHold(w)
  <2>1. /\ j.at = "placeHold" /\ j.id \in Cast[s].disputes /\ dispute[j.id].status # "CLOSED"
        /\ hold' = [hold EXCEPT ![j.id] = "active"] /\ dispute' = dispute
        /\ job' = [job EXCEPT ![w] = Idle]
    BY <1>2, CaseJobKinds
       DEF Case!PlaceHold, Case!At, Case!Return, Case!Carry, Case!Idle, Idle, Case!SerialSound
  <2>2. Right
    BY <1>0, <2>1 DEF Case!Carrying, Idle
  <2>3. ASSUME NEW x \in Case(s)!Raised' PROVE Kept(x)
    BY <2>1, <1>b DEF Case!Raised
  <2> QED BY <1>a, <2>2, <2>3
<1>3. CASE Case(s)!WriteStatus(w)
  <2>1. /\ j.at = "status" /\ j.id \in Case(s)!Raised \cap decided /\ j.to \in {"DECIDED", "APPEALED"}
        /\ Case(s)!PutStatus(j.id, j.to) /\ job' = [job EXCEPT ![w] = Idle]
        /\ UNCHANGED <<decided, hold, filings, account, certificates>>
    BY <1>0, <1>3, CaseJobKinds
       DEF Case!WriteStatus, Case!At, Case!Return, Case!Carry, Case!Idle, Idle,
           Case!accountVars, Case!CarriedSound
  <2>2. /\ Case(s)!Raised' = Case(s)!Raised
        /\ dispute'[j.id].status = IF dispute[j.id].status = "CLOSED" THEN "CLOSED" ELSE j.to
        /\ \A x \in Cast[s].disputes \ {j.id} : dispute'[x] = dispute[x]
    BY <2>1, CasePutKeeps
  <2>3. \A d \in Case(s)!Raised : dispute'[d].status = "CLOSED" <=> dispute[d].status = "CLOSED"
    BY <2>1, <2>2 DEF Case!Raised
  <2>4. job'[w].at = "idle"
    BY <2>1 DEF Case!Carrying, Idle
  <2> QED BY <1>0, <2>1, <2>2, <2>3, <2>4, CaseSerialStays
<1>4. CASE Case(s)!WriteClosed(w)
  <2>1. /\ j.at = "close" /\ j.id \in Case(s)!Raised \cap decided /\ j.id \in Cast[s].disputes
        /\ Case(s)!PutStatus(j.id, "CLOSED")
        /\ job' = [job EXCEPT ![w] = IF dispute[j.id].status = "CLOSED" THEN Idle
                                     ELSE [at |-> "lift", id |-> j.id]]
        /\ UNCHANGED <<decided, hold, filings, account, certificates>>
    BY <1>0, <1>4, CaseJobKinds
       DEF Case!WriteClosed, Case!At, Case!Return, Case!Carry, Case!Idle, Idle,
           Case!accountVars, Case!CarriedSound
  <2>2. /\ Case(s)!Raised' = Case(s)!Raised
        /\ dispute[j.id].status = "CLOSED" => dispute' = dispute
        /\ \A x \in Cast[s].disputes \ {j.id} : dispute'[x] = dispute[x]
    BY <2>1, CasePutKeeps
  <2>3. /\ job'[w].at # "placeHold"
        /\ dispute[j.id].status # "CLOSED" => job'[w].at = "lift" /\ job'[w].id = j.id
    BY <2>1 DEF Case!Carrying, Idle
  <2>4. Right
    BY <1>0, <2>3
  <2>5. ASSUME NEW x \in Case(s)!Raised' PROVE Kept(x)
    <3>0. x \in Case(s)!Raised /\ x \in Cast[s].disputes
      BY <2>2 DEF Case!Raised
    <3>1. CASE x = j.id /\ dispute[j.id].status # "CLOSED"
      <4>1. job'[w].at \in {"placeHold", "lift"} /\ job'[w].id = x
        BY <3>1, <2>3
      <4> QED BY <4>1
    <3>2. CASE x # j.id \/ dispute[j.id].status = "CLOSED"
      BY <3>0, <3>2, <2>1, <2>2, <1>b
    <3> QED BY <3>1, <3>2
  <2> QED BY <1>a, <2>4, <2>5
<1>5. CASE Case(s)!LiftHold(w)
  <2>1. /\ j.at = "lift" /\ j.id \in Cast[s].disputes /\ dispute[j.id].status = "CLOSED"
        /\ dispute' = dispute /\ job' = [job EXCEPT ![w] = Idle]
        /\ hold' = [d \in Cast[s].disputes |->
                      IF d = j.id /\ hold[d] = "active" THEN "released" ELSE hold[d]]
    BY <1>0, <1>5, CaseJobKinds
       DEF Case!LiftHold, Case!Lifted, Case!At, Case!Return, Case!Carry, Case!Idle, Idle,
           Case!CarriedSound
  <2>2. Right
    BY <1>0, <2>1 DEF Case!Carrying, Idle
  <2>3. ASSUME NEW x \in Case(s)!Raised' PROVE Kept(x)
    BY <2>1, <1>b DEF Case!Raised
  <2> QED BY <1>a, <2>2, <2>3
<1> QED BY <1>1, <1>2, <1>3, <1>4, <1>5

LEMMA CaseInTurn ==
  ASSUME NEW s \in Scenes, Case(s)!IInv, Case(s)!SerialSound, NEW w \in Workers, Alone(w),
         Case(s)!Handle(w)
  PROVE  Case(s)!SerialSound'
  BY CaseReadsInTurn, CaseWritesInTurn DEF Case!Handle, Case!Continue

(* Steps of other engines' requests leave it alone.                        *)
LEMMA CaseSerialOthers ==
  ASSUME NEW s \in Scenes, Case(s)!SerialSound, UNCHANGED caseVars, NEW w \in Workers, Moved(w),
         job[w].at \notin Case(s)!Calls, job'[w].at \notin Case(s)!Calls
  PROVE  Case(s)!SerialSound'
<1>1. \A v \in Workers :
        /\ job[v].at \in Case(s)!Calls => v # w /\ job'[v] = job[v]
        /\ job'[v].at \in Case(s)!Calls => v # w /\ job'[v] = job[v]
  BY DEF Moved
<1> QED BY <1>1 DEF Case!SerialSound, Case!HoldsRight, Case!At, Case!Calls, caseVars, Case!Raised

(* Engines 47 and 48: what a request does, or leaves for its next call.    *)
LEMMA PayTurn ==
  ASSUME NEW s \in Scenes, Pay(s)!SerialSound, NEW w \in Workers, Alone(w), Moved(w),
         job'[w].at # "reject", job'[w].at = "write" => job'[w].row.status # "FAILED",
         \A i \in Pay(s)!Issued' :
           Pay(s)!OnRecord(i)' \/ (job'[w].at = "accept" /\ job'[w].id = i)
  PROVE  Pay(s)!SerialSound'
<1>1. \A v \in Workers \ {w} : job'[v].at = "idle"
  BY DEF Alone, At, Moved
<1> QED BY <1>1 DEF Pay!SerialSound, Pay!At

LEMMA PayOnRecord ==
  ASSUME NEW s \in Scenes, Pay(s)!SerialSound, NEW w \in Workers, Alone(w),
         NEW i \in Pay(s)!Issued, job[w].at # "accept" \/ job[w].id # i
  PROVE  Pay(s)!OnRecord(i)
  BY DEF Pay!SerialSound, Pay!At, Alone, At

(* A step that leaves the instructions and the provider.                   *)
LEMMA PayTurnStays ==
  ASSUME NEW s \in Scenes, Pay(s)!SerialSound, NEW w \in Workers, Alone(w), Moved(w),
         job[w].at # "accept", UNCHANGED <<instr, provider>>,
         job'[w].at # "reject", job'[w].at = "write" => job'[w].row.status # "FAILED"
  PROVE  Pay(s)!SerialSound'
<1>1. \A i \in Pay(s)!Issued : Pay(s)!OnRecord(i)
  BY PayOnRecord
<1>2. Pay(s)!Issued' = Pay(s)!Issued /\ \A i \in Pay(s)!Issued : Pay(s)!OnRecord(i)'
  BY <1>1 DEF Pay!Issued, Pay!OnRecord
<1> QED BY <1>2, PayTurn

LEMMA PayReadsInTurn ==
  ASSUME NEW s \in Scenes, Pay(s)!IInv, Pay(s)!SerialSound, NEW w \in Workers, Alone(w),
         \/ Pay(s)!Issue(w) \/ Pay(s)!Submit(w) \/ Pay(s)!Refresh(w) \/ Pay(s)!Reverse(w)
         \/ Pay(s)!Reconcile(w)
  PROVE  Pay(s)!SerialSound'
<1>1. Moved(w)
  BY PayReadsKeep
<1>2. job[w].at = "idle" /\ UNCHANGED <<instr, provider>>
  BY DEF Pay!Issue, Pay!Submit, Pay!Refresh, Pay!Reverse, Pay!Reconcile, Pay!Receive, Pay!At,
         Pay!records, Pay!gateway
<1>3. job'[w].at # "reject" /\ (job'[w].at = "write" => job'[w].row.status # "FAILED")
  <2>0. ASSUME NEW j, Carry(w, j) PROVE job'[w] = j
    BY <2>0, CarryMoves DEF Pay!IInv, Pay!TypeOK, Pay!Carrying
  <2>1. CASE Pay(s)!Issue(w)
    <3>1. PICK k \in Cast[s].keys, p \in Cast[s].payloads :
            Carry(w, [at |-> "issue", key |-> k, payload |-> p])
      BY <2>1 DEF Pay!Issue, Pay!Receive, Pay!Carry, Carry
    <3> QED BY <2>0, <3>1
  <2>2. CASE Pay(s)!Submit(w)
    <3>1. PICK i \in Cast[s].instructions : Carry(w, [at |-> "submit", id |-> i, row |-> instr[i]])
      BY <2>2 DEF Pay!Submit, Pay!Receive, Pay!Carry, Carry
    <3> QED BY <2>0, <3>1
  <2>3. CASE Pay(s)!Refresh(w)
    <3>1. PICK i \in Cast[s].instructions : Carry(w, [at |-> "refresh", id |-> i, row |-> instr[i]])
      BY <2>3 DEF Pay!Refresh, Pay!Receive, Pay!Carry, Carry
    <3> QED BY <2>0, <3>1
  <2>4. CASE Pay(s)!Reverse(w)
    <3>1. PICK i \in Cast[s].instructions :
            /\ instr[i].status = "SETTLED"
            /\ Carry(w, [at |-> "write", id |-> i,
                         row |-> [instr[i] EXCEPT !.status = "REVERSED"]])
      BY <2>4 DEF Pay!Reverse, Pay!Receive, Pay!Carry, Carry
    <3> DEFINE row == [instr[i] EXCEPT !.status = "REVERSED"]
    <3>2. row.status = "REVERSED"
      BY DEF Pay!IInv, Pay!TypeOK, Pay!Instr
    <3>3. job'[w] = [at |-> "write", id |-> i, row |-> row]
      BY <2>0, <3>1
    <3> HIDE DEF row
    <3> QED BY <3>2, <3>3
  <2>5. CASE Pay(s)!Reconcile(w)
    <3>1. PICK i \in Cast[s].instructions, t \in Cast[s].statements, e \in BOOLEAN :
            Carry(w, [at |-> "reconcile", id |-> i, statement |-> t, equal |-> e])
      BY <2>5 DEF Pay!Reconcile, Pay!Receive, Pay!Carry, Carry, Pay!Issued
    <3> QED BY <2>0, <3>1
  <2> QED BY <2>1, <2>2, <2>3, <2>4, <2>5
<1> QED BY <1>1, <1>2, <1>3, PayTurnStays

(* The provider is asked, and what it says is written or to be written.    *)
LEMMA PaySubmitInTurn ==
  ASSUME NEW s \in Scenes, Pay(s)!IInv, Pay(s)!SerialSound, NEW w \in Workers, Alone(w),
         Pay(s)!SubmitPayment(w)
  PROVE  Pay(s)!SerialSound'
<1> DEFINE j == job[w]
           k == j.row.key
<1> USE DEF Pay!IInv, Pay!TypeOK
<1>1. j.at = "submit" /\ UNCHANGED <<instr, journal, matched>> /\ Moved(w)
  BY PaySubmitKeeps DEF Pay!SubmitPayment, Pay!At, Pay!records
<1>2. /\ j.id \in Pay(s)!Issued /\ k = instr[j.id].key /\ k \in Cast[s].keys
      /\ j = [at |-> "submit", id |-> j.id, row |-> j.row]
  BY <1>1, PayJobKinds, PayRow DEF Pay!CarriedSound
<1>3. CASE Pay(s)!Accepts(k) /\ Carry(w, [j EXCEPT !.at = "accept"])
  <2>1. [j EXCEPT !.at = "accept"] = [at |-> "accept", id |-> j.id, row |-> j.row]
    BY <1>2
  <2>2. job'[w].at = "accept" /\ job'[w].id = j.id
    BY <1>3, <2>1, CarryMoves DEF Pay!Carrying
  <2>3. \A x \in Cast[s].keys \ {k} : provider'[x] = provider[x]
    BY <1>2, <1>3 DEF Pay!Accepts
  <2>4. ASSUME NEW i \in Pay(s)!Issued, i # j.id PROVE Pay(s)!OnRecord(i)'
    <3>1. instr[i].key \in Cast[s].keys \ {k}
      BY <1>2, <2>4, PayRow DEF Pay!TablesSound
    <3>2. Pay(s)!OnRecord(i)
      BY <1>1, PayOnRecord
    <3> QED BY <1>1, <2>3, <3>1, <3>2 DEF Pay!OnRecord
  <2>5. Pay(s)!Issued' = Pay(s)!Issued
    BY <1>1 DEF Pay!Issued
  <2> QED BY <1>1, <2>2, <2>4, <2>5, PayTurn
<1>4. CASE Pay(s)!Rejects(k) /\ Carry(w, [j EXCEPT !.at = "reject"])
  <2>1. [j EXCEPT !.at = "reject"] = [at |-> "reject", id |-> j.id, row |-> j.row]
    BY <1>2
  <2>2. job'[w].at = "reject" /\ job'[w].row = j.row
    BY <1>4, <2>1, CarryMoves DEF Pay!Carrying
  <2>3. provider' = provider /\ provider[k] \in {"none", "FAILED"}
    BY <1>4 DEF Pay!Rejects
  <2>4. \A v \in Workers \ {w} : job'[v].at = "idle"
    BY <1>1 DEF Alone, At, Moved
  <2>5. \A i \in Pay(s)!Issued : Pay(s)!OnRecord(i)
    BY <1>1, PayOnRecord
  <2>6. Pay(s)!Issued' = Pay(s)!Issued /\ \A i \in Pay(s)!Issued : Pay(s)!OnRecord(i)'
    BY <1>1, <2>3, <2>5 DEF Pay!Issued, Pay!OnRecord
  <2>7. \A v \in Workers : job'[v].at \in {"reject", "write"}
          => provider'[job'[v].row.key] \in {"none", "FAILED"}
    BY <2>2, <2>3, <2>4
  <2> QED BY <2>6, <2>7 DEF Pay!SerialSound
<1> QED BY <1>3, <1>4 DEF Pay!SubmitPayment, Pay!Carry, Carry

(* A status is written for one instruction, and the request ends.          *)
LEMMA PayWriteInTurn ==
  ASSUME NEW s \in Scenes, Pay(s)!IInv, Pay(s)!SerialSound, NEW w \in Workers, Alone(w), Moved(w),
         job'[w].at = "idle", provider' = provider,
         NEW i \in Pay(s)!Issued, job[w].at = "accept" => job[w].id = i,
         NEW row, row.status # "none",
         Pay(s)!PutInstr(i, row) \/ (instr[i].status = "REVERSED" /\ instr' = instr),
         \/ row.status \in {"SUBMITTED", "SETTLED", "REVERSED"}
         \/ provider[instr[i].key] \notin {"PENDING", "SETTLED", "REVERSED"}
  PROVE  Pay(s)!SerialSound'
<1> USE DEF Pay!IInv, Pay!TypeOK
<1>1. i \in Cast[s].instructions /\ instr[i] \in Pay(s)!Instr
  BY PayRow
<1>2. /\ \A x \in Cast[s].instructions \ {i} : instr'[x] = instr[x]
      /\ instr'[i].key = instr[i].key
      /\ \/ instr'[i].status = row.status
         \/ instr[i].status = "REVERSED" /\ instr'[i].status = "REVERSED"
  BY <1>1 DEF Pay!Instr, Pay!PutInstr
<1>3. Pay(s)!Issued' = Pay(s)!Issued
  BY <1>1, <1>2 DEF Pay!Issued
<1>4. ASSUME NEW x \in Pay(s)!Issued PROVE Pay(s)!OnRecord(x)'
  <2>1. CASE x = i
    BY <2>1, <1>2 DEF Pay!OnRecord
  <2>2. CASE x # i
    <3>1. Pay(s)!OnRecord(x)
      BY <2>2, PayOnRecord
    <3> QED BY <2>2, <3>1, <1>2 DEF Pay!OnRecord, Pay!Issued
  <2> QED BY <2>1, <2>2
<1> QED BY <1>3, <1>4, PayTurn

LEMMA PayAnswerInTurn ==
  ASSUME NEW s \in Scenes, Pay(s)!IInv, Pay(s)!SerialSound, NEW w \in Workers, Alone(w),
         Pay(s)!RecordAnswer(w) \/ Pay(s)!WriteStatus(w)
  PROVE  Pay(s)!SerialSound'
<1> DEFINE j == job[w]
           row == CASE j.at = "reject" -> Pay(s)!Failed(j.row)
                    [] j.at = "accept" -> Pay(s)!Submitted(j.row)
                    [] j.at = "write"  -> j.row
<1> USE DEF Pay!IInv, Pay!TypeOK
<1>1. /\ j.at \in {"reject", "accept", "write"} /\ provider' = provider
      /\ job' = [job EXCEPT ![w] = Idle]
  BY DEF Pay!RecordAnswer, Pay!WriteStatus, Pay!At, Pay!gateway, Pay!Return, Pay!Carry, Pay!Idle, Idle
<1>2. Moved(w) /\ job'[w].at = "idle"
  BY <1>1, PayCallsKeep DEF Pay!Carrying, Idle
<1>3. /\ j.id \in Pay(s)!Issued /\ j.row \in Pay(s)!Instr /\ j.row.key = instr[j.id].key
      /\ j.at = "write" => j.row.status \in {"SETTLED", "FAILED", "REVERSED"}
  BY <1>1, PayJobKinds DEF Pay!CarriedSound, Pay!RowSound
<1>4. Pay(s)!PutInstr(j.id, row) \/ (instr[j.id].status = "REVERSED" /\ instr' = instr)
  BY <1>1 DEF Pay!RecordAnswer, Pay!WriteStatus, Pay!At
<1>5. row.status = CASE j.at = "reject" -> "FAILED" [] j.at = "accept" -> "SUBMITTED"
                     [] j.at = "write" -> j.row.status
  BY <1>1, <1>3, PayAnswers
<1>6. j.at = "reject" \/ (j.at = "write" /\ j.row.status = "FAILED")
        => provider[instr[j.id].key] \in {"none", "FAILED"}
  BY <1>3 DEF Pay!SerialSound
<1> HIDE DEF row
<1>7. /\ row.status # "none"
      /\ \/ row.status \in {"SUBMITTED", "SETTLED", "REVERSED"}
         \/ provider[instr[j.id].key] \notin {"PENDING", "SETTLED", "REVERSED"}
  <2>1. CASE j.at = "reject"
    BY <2>1, <1>5, <1>6
  <2>2. CASE j.at = "accept"
    BY <2>2, <1>5
  <2>3. CASE j.at = "write"
    BY <2>3, <1>3, <1>5, <1>6
  <2> QED BY <1>1, <2>1, <2>2, <2>3
<1> HIDE DEF Pay!IInv, Pay!TypeOK
<1> QED BY <1>1, <1>2, <1>3, <1>4, <1>7, PayWriteInTurn

LEMMA PayOtherCallsInTurn ==
  ASSUME NEW s \in Scenes, Pay(s)!IInv, Pay(s)!SerialSound, NEW w \in Workers, Alone(w),
         \/ Pay(s)!InsertInstruction(w) \/ Pay(s)!GetStatus(w)
         \/ Pay(s)!Post(w) \/ Pay(s)!InsertReconciliation(w)
  PROVE  Pay(s)!SerialSound'
<1> DEFINE j == job[w]
<1> USE DEF Pay!IInv, Pay!TypeOK
<1>1. CASE Pay(s)!InsertInstruction(w) /\ instr' = instr
  <2>1. Moved(w) /\ j.at = "issue" /\ provider' = provider /\ job' = [job EXCEPT ![w] = Idle]
    BY <1>1, PayCallsKeep
       DEF Pay!InsertInstruction, Pay!At, Pay!gateway, Pay!Return, Pay!Carry, Pay!Idle, Idle
  <2>2. job'[w].at = "idle"
    BY <2>1 DEF Pay!Carrying, Idle
  <2> QED BY <1>1, <2>1, <2>2, PayTurnStays
<1>2. CASE Pay(s)!InsertInstruction(w) /\ instr' # instr
  <2>1. Moved(w) /\ j.at = "issue" /\ provider' = provider /\ job' = [job EXCEPT ![w] = Idle]
    BY <1>2, PayInsertKeeps
       DEF Pay!InsertInstruction, Pay!At, Pay!gateway, Pay!Return, Pay!Carry, Pay!Idle, Idle
  <2>2. job'[w].at = "idle"
    BY <2>1 DEF Pay!Carrying, Idle
  <2>3. PICK i \in Cast[s].instructions :
          /\ instr[i].status = "none" /\ instr'[i].status = "DRAFT"
          /\ \A k \in Cast[s].instructions \ {i} : instr'[k] = instr[k]
          /\ instr'[i].key = job[w].key
          /\ provider[job[w].key] = "none"
    BY <1>2, PayInsertKeeps
  <2>4. ASSUME NEW x \in Pay(s)!Issued' PROVE Pay(s)!OnRecord(x)'
    <3>1. CASE x = i
      BY <3>1, <2>1, <2>3 DEF Pay!OnRecord
    <3>2. CASE x # i
      <4>1. x \in Pay(s)!Issued /\ instr'[x] = instr[x]
        BY <3>2, <2>3 DEF Pay!Issued
      <4>2. Pay(s)!OnRecord(x)
        BY <4>1, <2>1, PayOnRecord
      <4> QED BY <4>1, <4>2, <2>1 DEF Pay!OnRecord
    <3> QED BY <3>1, <3>2
  <2> QED BY <2>1, <2>2, <2>4, PayTurn
<1>3. CASE Pay(s)!GetStatus(w)
  <2> DEFINE st == provider[j.row.key]
             k == [at |-> "write", id |-> j.id, row |-> [j.row EXCEPT !.status = st]]
  <2>1. /\ j.at = "refresh" /\ UNCHANGED <<instr, provider>> /\ Moved(w)
        /\ job' = [job EXCEPT ![w] = IF st = "PENDING" THEN Idle ELSE k]
    BY <1>3, PayCallsKeep
       DEF Pay!GetStatus, Pay!records, Pay!At, Pay!Return, Pay!Carry, Pay!Idle, Idle
  <2>2. j.row \in Pay(s)!Instr
    BY <2>1, PayJobKinds
  <2>3. [j.row EXCEPT !.status = st].status = st /\ [j.row EXCEPT !.status = st].key = j.row.key
    BY <2>2 DEF Pay!Instr
  <2>4. \/ job'[w].at = "idle"
        \/ job'[w].at = "write" /\ job'[w].row.status = st /\ job'[w].row.key = j.row.key
    BY <2>1, <2>3 DEF Pay!Carrying, Idle
  <2>5. \A v \in Workers \ {w} : job'[v].at = "idle"
    BY <2>1 DEF Alone, At, Moved
  <2>6. \A v \in Workers :
          job'[v].at = "reject" \/ (job'[v].at = "write" /\ job'[v].row.status = "FAILED")
            => provider'[job'[v].row.key] \in {"none", "FAILED"}
    BY <2>1, <2>4, <2>5
  <2>7. \A i \in Pay(s)!Issued : Pay(s)!OnRecord(i)
    BY <2>1, PayOnRecord
  <2>8. Pay(s)!Issued' = Pay(s)!Issued /\ \A i \in Pay(s)!Issued : Pay(s)!OnRecord(i)'
    BY <2>1, <2>7 DEF Pay!Issued, Pay!OnRecord
  <2> QED BY <2>6, <2>8 DEF Pay!SerialSound
<1>4. CASE Pay(s)!Post(w)
  <2>1. /\ UNCHANGED <<instr, provider, job>> /\ j.at = "idle" /\ Moved(w)
    BY <1>4, PayCallsKeep DEF Pay!Post, Pay!gateway, Pay!At
  <2> QED BY <2>1, PayTurnStays
<1>5. CASE Pay(s)!InsertReconciliation(w)
  <2>1. /\ UNCHANGED <<instr, provider>> /\ j.at = "reconcile" /\ Moved(w)
        /\ job' = [job EXCEPT ![w] = Idle]
    BY <1>5, PayCallsKeep
       DEF Pay!InsertReconciliation, Pay!gateway, Pay!At, Pay!Return, Pay!Carry, Pay!Idle, Idle
  <2>2. job'[w].at = "idle"
    BY <2>1 DEF Pay!Carrying, Idle
  <2> QED BY <2>1, <2>2, PayTurnStays
<1> QED BY <1>1, <1>2, <1>3, <1>4, <1>5

LEMMA PayInTurn ==
  ASSUME NEW s \in Scenes, Pay(s)!IInv, Pay(s)!SerialSound, NEW w \in Workers, Alone(w),
         Pay(s)!Handle(w)
  PROVE  Pay(s)!SerialSound'
  BY PayReadsInTurn, PaySubmitInTurn, PayAnswerInTurn, PayOtherCallsInTurn DEF Pay!Handle

(* The provider moves on only from what it has under way.                  *)
LEMMA ProviderInTurn ==
  ASSUME NEW s \in Scenes, Pay(s)!IInv, Pay(s)!SerialSound, Pay(s)!ProviderSettles
  PROVE  Pay(s)!SerialSound'
<1>1. UNCHANGED <<instr, job>>
  BY DEF Pay!ProviderSettles, Pay!records
<1>2. \A k \in Cast[s].keys :
        /\ provider[k] \in {"none", "FAILED"} => provider'[k] = provider[k]
        /\ provider'[k] \in {"PENDING", "SETTLED", "REVERSED"}
             => provider[k] \in {"PENDING", "SETTLED", "REVERSED"}
  BY DEF Pay!ProviderSettles, Pay!IInv, Pay!TypeOK
<1>3. ASSUME NEW v \in Workers,
             job[v].at = "reject" \/ (job[v].at = "write" /\ job[v].row.status = "FAILED")
      PROVE  provider'[job[v].row.key] \in {"none", "FAILED"}
  <2>1. job[v].row.key \in Cast[s].keys
    BY <1>3, PayRow DEF Pay!IInv, Pay!CarriedSound
  <2> QED BY <1>2, <1>3, <2>1 DEF Pay!SerialSound
<1>4. ASSUME NEW i \in Pay(s)!Issued, Pay(s)!OnRecord(i) PROVE Pay(s)!OnRecord(i)'
  <2>1. instr[i].key \in Cast[s].keys
    BY PayRow
  <2> QED BY <1>1, <1>2, <1>4, <2>1 DEF Pay!OnRecord
<1>5. Pay(s)!Issued' = Pay(s)!Issued
  BY <1>1 DEF Pay!Issued
<1> QED BY <1>1, <1>3, <1>4, <1>5 DEF Pay!SerialSound, Pay!At

LEMMA PaySerialOthers ==
  ASSUME NEW s \in Scenes, Pay(s)!SerialSound, UNCHANGED paymentVars, NEW w \in Workers, Moved(w),
         job[w].at \notin Pay(s)!Calls, job'[w].at \notin Pay(s)!Calls
  PROVE  Pay(s)!SerialSound'
<1>1. \A v \in Workers :
        /\ job[v].at \in Pay(s)!Calls => v # w /\ job'[v] = job[v]
        /\ job'[v].at \in Pay(s)!Calls => v # w /\ job'[v] = job[v]
  BY DEF Moved
<1> QED BY <1>1 DEF Pay!SerialSound, Pay!OnRecord, Pay!At, Pay!Calls, paymentVars, Pay!Issued

(* Engines 41 to 45.  What is reserved, counted: one more reservation adds *)
(* at most its amount, and one that ends adds nothing.                     *)
Counted(s) == \A c \in Cast[s].commitments : IsFiniteSet(Fund(s)!ReservedUnits(c))

FundTurn(s) == Fund(s)!SerialSound /\ Counted(s)

LEMMA FundReserved ==
  ASSUME NEW s \in Scenes, NEW c
  PROVE  /\ Fund(s)!Reserved(c) = Cardinality(Fund(s)!ReservedUnits(c))
         /\ Fund(s)!Reserved(c)' = Cardinality(Fund(s)!ReservedUnits(c)')
  BY DEF Fund!Reserved, Fund!Cardinality, Cardinality

LEMMA FundFits ==
  ASSUME NEW s \in Scenes, Fund(s)!IInv, FundTurn(s), NEW c \in Fund(s)!Known(commitment)
  PROVE  /\ c \in Cast[s].commitments /\ commitment[c].amount \in Nat
         /\ IsFiniteSet(Fund(s)!ReservedUnits(c))
         /\ Fund(s)!Reserved(c) = Cardinality(Fund(s)!ReservedUnits(c))
         /\ Fund(s)!Reserved(c) \in Nat
         /\ Fund(s)!Reserved(c) <= commitment[c].amount
<1>1. FundTyped(s)
  BY DEF FundTyped, Fund!IInv, Fund!TypeOK
<1>2. c \in Cast[s].commitments /\ commitment[c] \in Fund(s)!CommitmentRec
  BY <1>1, FundRows
<1>3. commitment[c].amount \in Nat
  BY <1>2, SettlementAssumption DEF Fund!CommitmentRec, Fund!Amounts, Fund!AmountAssumption
<1>4. IsFiniteSet(Fund(s)!ReservedUnits(c))
  BY <1>2 DEF FundTurn, Counted
<1>5. Fund(s)!Reserved(c) <= commitment[c].amount
  BY DEF FundTurn, Fund!SerialSound, Fund!WithinCommitment
<1>6. Fund(s)!Reserved(c) = Cardinality(Fund(s)!ReservedUnits(c))
  BY FundReserved
<1>7. Cardinality(Fund(s)!ReservedUnits(c)) \in Nat
  BY <1>4, FS_CardinalityType
<1> QED BY <1>2, <1>3, <1>4, <1>5, <1>6, <1>7

(* A step in which no commitment loses room.                               *)
LEMMA FundTurnKept ==
  ASSUME NEW s \in Scenes, Fund(s)!IInv, FundTurn(s), NEW w \in Workers, Alone(w), Moved(w),
         job'[w].at # "insertReservation",
         \A c \in Cast[s].commitments : Fund(s)!ReservedUnits(c)' \subseteq Fund(s)!ReservedUnits(c),
         \A c \in Fund(s)!Known(commitment)' :
           \/ c \in Fund(s)!Known(commitment) /\ commitment'[c].amount = commitment[c].amount
           \/ /\ c \in Cast[s].commitments /\ Fund(s)!ReservedUnits(c) = {}
              /\ commitment'[c].amount \in Nat
  PROVE  FundTurn(s)'
<1>1. Counted(s)'
  BY FS_Subset DEF Counted, FundTurn
<1>2. ASSUME NEW c \in Fund(s)!Known(commitment)'
      PROVE  Cardinality(Fund(s)!ReservedUnits(c)') <= commitment'[c].amount
  <2>1. CASE c \in Fund(s)!Known(commitment) /\ commitment'[c].amount = commitment[c].amount
    <3>1. /\ c \in Cast[s].commitments /\ commitment[c].amount \in Nat
          /\ IsFiniteSet(Fund(s)!ReservedUnits(c))
          /\ Cardinality(Fund(s)!ReservedUnits(c)) <= commitment[c].amount
          /\ Cardinality(Fund(s)!ReservedUnits(c)) \in Nat
      <4>1. c \in Fund(s)!Known(commitment)
        BY <2>1
      <4> QED BY <4>1, FundFits
    <3>2. /\ Cardinality(Fund(s)!ReservedUnits(c)') <= Cardinality(Fund(s)!ReservedUnits(c))
          /\ Cardinality(Fund(s)!ReservedUnits(c)') \in Nat
      BY <3>1, FS_Subset, FS_CardinalityType
    <3> QED BY <2>1, <3>1, <3>2
  <2>2. CASE /\ c \in Cast[s].commitments /\ Fund(s)!ReservedUnits(c) = {}
             /\ commitment'[c].amount \in Nat
    <3>1. Fund(s)!ReservedUnits(c)' = {}
      BY <2>2
    <3>2. Cardinality(Fund(s)!ReservedUnits(c)') = 0
      BY <3>1, FS_EmptySet
    <3> QED BY <2>2, <3>2
  <2> QED BY <2>1, <2>2
<1>3. \A v \in Workers : job'[v].at # "insertReservation"
  BY DEF Alone, At, Moved
<1>4. Fund(s)!WithinCommitment'
  BY <1>2, FundReserved DEF Fund!WithinCommitment
<1>5. Fund(s)!SerialSound'
  BY <1>3, <1>4 DEF Fund!SerialSound, Fund!At
<1> QED BY <1>1, <1>5 DEF FundTurn

(* Only the call that sums up what is reserved goes on to reserve.         *)
LEMMA FundReadsInTurn ==
  ASSUME NEW s \in Scenes, Fund(s)!IInv, NEW w \in Workers,
         \/ Fund(s)!Calculate(w) \/ Fund(s)!Confirm(w) \/ Fund(s)!SubmitInvoice(w)
         \/ Fund(s)!CheckNumber(w) \/ Fund(s)!ApproveInvoice(w) \/ Fund(s)!RejectInvoice(w)
         \/ Fund(s)!ConfirmCommitment(w) \/ Fund(s)!AskCustodian(w) \/ Fund(s)!Reserve(w)
         \/ Fund(s)!EndReservation(w) \/ Fund(s)!Evaluate(w)
         \/ Fund(s)!ReadInvoice(w) \/ Fund(s)!ReadReservation(w) \/ Fund(s)!ReadHold(w)
         \/ Fund(s)!Cancel(w)
  PROVE  job'[w].at # "insertReservation" /\ UNCHANGED <<reservation, commitment>>
<1> DEFINE j == job[w]
<1>0. ASSUME NEW k, Carry(w, k) PROVE job'[w] = k
  BY <1>0, CarryMoves DEF Fund!IInv, Fund!TypeOK, Fund!Carrying
<1>a. UNCHANGED <<reservation, commitment>>
  BY DEF Fund!Calculate, Fund!Confirm, Fund!SubmitInvoice, Fund!CheckNumber,
         Fund!ApproveInvoice, Fund!RejectInvoice, Fund!ConfirmCommitment, Fund!AskCustodian,
         Fund!Reserve, Fund!EndReservation, Fund!Evaluate,
         Fund!ReadInvoice, Fund!ReadReservation, Fund!ReadHold, Fund!ReadFor, Fund!Cancel,
         Fund!records
<1>1. CASE Fund(s)!Calculate(w)
  <2>1. PICK n \in 0..Cast[s].maxAmount : Carry(w, [at |-> "entitle", net |-> n])
    BY ONLY <1>1, Zenon DEF Fund!Calculate, Fund!Receive, Fund!Carry, Carry
  <2> QED BY <1>a, <1>0, <2>1
<1>2. CASE Fund(s)!Confirm(w)
  <2>1. PICK e \in Fund(s)!Known(entitlement) :
          Carry(w, [at |-> "confirm", id |-> e, net |-> entitlement[e].net])
    BY <1>2 DEF Fund!Confirm, Fund!Receive, Fund!Carry, Carry
  <2> QED BY <1>a, <1>0, <2>1
<1>3. CASE Fund(s)!SubmitInvoice(w)
  <2>1. PICK e \in Fund(s)!Known(entitlement), n \in Cast[s].numbers, a \in Fund(s)!Amounts :
          /\ entitlement[e].status = "CONFIRMED"
          /\ Carry(w, [at |-> "numbers", number |-> n, ent |-> e, amount |-> a,
                       net |-> entitlement[e].net])
    BY <1>3, Zenon DEF Fund!SubmitInvoice, Fund!Receive, Fund!Carry, Carry
  <2> QED BY <1>a, <1>0, <2>1
<1>4. CASE Fund(s)!CheckNumber(w) \/ Fund(s)!AskCustodian(w)
  <2>1. PICK at \in {"invoice", "funded"} :
          /\ j.at \in {"numbers", "custodian"}
          /\ Carry(w, Idle) \/ Carry(w, [j EXCEPT !.at = at])
    BY <1>4 DEF Fund!CheckNumber, Fund!AskCustodian, Fund!At, Fund!Return, Fund!Idle, Idle,
                Fund!Carry, Carry
  <2>2. [j EXCEPT !.at = at].at = at
    BY <2>1, FundJobKinds DEF Fund!IInv
  <2>3. Idle.at = "idle"
    BY DEF Idle
  <2> QED BY <1>a, <1>0, <2>1, <2>2, <2>3
<1>5. CASE Fund(s)!ApproveInvoice(w) \/ Fund(s)!RejectInvoice(w)
  <2>1. PICK i \in Fund(s)!Known(invoice), to \in {"APPROVED", "REJECTED"} :
          Carry(w, [at |-> "invoiceStatus", id |-> i, to |-> to])
    BY <1>5 DEF Fund!ApproveInvoice, Fund!RejectInvoice, Fund!Receive, Fund!Carry, Carry
  <2> QED BY <1>a, <1>0, <2>1
<1>6. CASE Fund(s)!ConfirmCommitment(w)
  <2>1. PICK c \in Fund(s)!Known(commitment) : Carry(w, [at |-> "custodian", id |-> c])
    BY <1>6 DEF Fund!ConfirmCommitment, Fund!Receive, Fund!Carry, Carry
  <2> QED BY <1>a, <1>0, <2>1
<1>7. CASE Fund(s)!Reserve(w)
  <2>1. PICK c \in Fund(s)!Known(commitment), i \in Fund(s)!Known(invoice),
             a \in Fund(s)!Amounts :
          Carry(w, [at |-> "sumReserved", com |-> c, inv |-> i, amount |-> a,
                    committed |-> commitment[c].amount])
    BY <1>7, Zenon DEF Fund!Reserve, Fund!Receive, Fund!Carry, Carry
  <2> QED BY <1>a, <1>0, <2>1
<1>8. CASE Fund(s)!EndReservation(w)
  <2>1. PICK r \in Fund(s)!Known(reservation), to \in {"RELEASED", "CANCELLED"} :
          Carry(w, [at |-> "reservationStatus", id |-> r, to |-> to])
    BY <1>8 DEF Fund!EndReservation, Fund!Receive, Fund!Carry, Carry
  <2> QED BY <1>a, <1>0, <2>1
<1>9. CASE Fund(s)!Evaluate(w)
  <2>1. PICK q \in Fund(s)!Known(release), to \in {"CONDITIONS_MET", "BLOCKED"} :
          Carry(w, [at |-> "readInvoice", id |-> q, to |-> to])
    BY <1>9 DEF Fund!Evaluate, Fund!Receive, Fund!Carry, Carry
  <2> QED BY <1>a, <1>0, <2>1
<1>10. CASE Fund(s)!ReadInvoice(w) \/ Fund(s)!ReadReservation(w) \/ Fund(s)!ReadHold(w)
  <2>1. PICK next \in {"readReservation", "readHold", "evaluated"} :
          \E to : Carry(w, [at |-> next, id |-> j.id, to |-> to])
    BY <1>10 DEF Fund!ReadInvoice, Fund!ReadReservation, Fund!ReadHold, Fund!ReadFor,
                 Fund!Carry, Carry
  <2>2. PICK to : Carry(w, [at |-> next, id |-> j.id, to |-> to])
    BY <2>1
  <2> QED BY <1>a, <1>0, <2>2
<1>11. CASE Fund(s)!Cancel(w)
  <2>1. PICK q \in Fund(s)!Known(release) : Carry(w, [at |-> "cancel", id |-> q])
    BY <1>11 DEF Fund!Cancel, Fund!Receive, Fund!Carry, Carry
  <2> QED BY <1>a, <1>0, <2>1
<1> QED BY <1>1, <1>2, <1>3, <1>4, <1>5, <1>6, <1>7, <1>8, <1>9, <1>10, <1>11

(* A step that writes neither reservations nor commitments.                *)
LEMMA FundTurnStays ==
  ASSUME NEW s \in Scenes, Fund(s)!IInv, FundTurn(s), NEW w \in Workers, Alone(w), Moved(w),
         job'[w].at # "insertReservation", UNCHANGED <<reservation, commitment>>
  PROVE  FundTurn(s)'
<1>1. \A c : Fund(s)!ReservedUnits(c)' = Fund(s)!ReservedUnits(c)
  BY DEF Fund!ReservedUnits
<1>2. Fund(s)!Known(commitment)' = Fund(s)!Known(commitment)
  BY DEF Fund!Known, Fund!Free
<1> QED BY <1>1, <1>2, FundTurnKept

LEMMA FundWritesInTurn ==
  ASSUME NEW s \in Scenes, Fund(s)!IInv, FundTurn(s), NEW w \in Workers, Alone(w), Moved(w),
         \/ Fund(s)!Assess(w) \/ Fund(s)!InsertEntitlement(w) \/ Fund(s)!WriteConfirmed(w)
         \/ Fund(s)!InsertInvoice(w) \/ Fund(s)!WriteInvoice(w)
         \/ Fund(s)!Draft(w) \/ Fund(s)!WriteEvaluation(w) \/ Fund(s)!WriteCancelled(w)
  PROVE  FundTurn(s)'
<1>1. UNCHANGED <<reservation, commitment>>
  BY DEF Fund!Assess, Fund!InsertEntitlement, Fund!WriteConfirmed, Fund!InsertInvoice,
         Fund!WriteInvoice, Fund!Draft, Fund!WriteEvaluation, Fund!WriteCancelled
<1>2. (job' = job /\ job[w].at = "idle") \/ job' = [job EXCEPT ![w] = Idle]
  BY DEF Fund!Assess, Fund!InsertEntitlement, Fund!WriteConfirmed, Fund!InsertInvoice,
         Fund!WriteInvoice, Fund!Draft, Fund!WriteEvaluation, Fund!WriteCancelled,
         Fund!At, Fund!Return, Fund!Carry, Fund!Idle, Idle
<1>3. job'[w].at = "idle"
  BY <1>2 DEF Fund!IInv, Fund!TypeOK, Fund!Carrying, Idle
<1> QED BY <1>1, <1>3, FundTurnStays

(* Nothing is reserved of a commitment that is not there yet.              *)
LEMMA FundCommitInTurn ==
  ASSUME NEW s \in Scenes, Fund(s)!IInv, FundTurn(s), NEW w \in Workers, Alone(w), Moved(w),
         Fund(s)!RecordCommitment(w) \/ Fund(s)!WriteCommitment(w)
  PROVE  FundTurn(s)'
<1> DEFINE j == job[w]
<1>a. FundTyped(s) /\ Fund(s)!CarriedSound(j) /\ Fund(s)!ReservationsSound
  BY DEF Fund!IInv, Fund!TypeOK, FundTyped, Fund!TablesSound
<1>0. /\ reservation' = reservation
      /\ (job' = job /\ j.at = "idle") \/ job' = [job EXCEPT ![w] = Idle]
  BY DEF Fund!RecordCommitment, Fund!WriteCommitment, Fund!At, Fund!Return, Fund!Carry,
         Fund!Idle, Idle
<1>1. job'[w].at = "idle"
  BY <1>0 DEF Fund!IInv, Fund!TypeOK, Fund!Carrying, Idle
<1>2. \A c : Fund(s)!ReservedUnits(c)' = Fund(s)!ReservedUnits(c)
  BY <1>0 DEF Fund!ReservedUnits
<1>3. CASE Fund(s)!RecordCommitment(w)
  <2>1. PICK c \in Cast[s].commitments, a \in Fund(s)!Amounts :
          /\ commitment[c].status = "none"
          /\ commitment' = [commitment EXCEPT ![c] =
                              [status |-> "PENDING_CONFIRMATION", amount |-> a]]
    BY <1>3, <1>a DEF Fund!RecordCommitment, Fund!Free, FundTyped
  <2>2. a \in Nat
    BY SettlementAssumption DEF Fund!Amounts, Fund!AmountAssumption
  <2>3. ASSUME NEW u \in Fund(s)!ReservedUnits(c) PROVE FALSE
    <3>1. /\ u[1] \in Cast[s].reservations /\ reservation[u[1]].status = "RESERVED"
          /\ reservation[u[1]].com = c
      BY <2>3 DEF Fund!ReservedUnits
    <3>2. u[1] \in Fund(s)!Known(reservation)
      BY <1>a, <3>1 DEF Fund!Known, Fund!Free, FundTyped
    <3> QED BY <1>a, <2>1, <3>1, <3>2 DEF Fund!ReservationsSound, Fund!Known, Fund!Free
  <2>4. Fund(s)!ReservedUnits(c) = {}
    BY <2>3
  <2>5. ASSUME NEW d \in Fund(s)!Known(commitment)'
        PROVE  \/ d \in Fund(s)!Known(commitment) /\ commitment'[d].amount = commitment[d].amount
               \/ /\ d \in Cast[s].commitments /\ Fund(s)!ReservedUnits(d) = {}
                  /\ commitment'[d].amount \in Nat
    <3>1. CASE d = c
      BY <3>1, <1>a, <2>1, <2>2, <2>4 DEF FundTyped
    <3>2. CASE d # c
      BY <3>2, <1>a, <2>1 DEF FundTyped, Fund!Known, Fund!Free
    <3> QED BY <3>1, <3>2
  <2> QED BY <1>1, <1>2, <2>5, FundTurnKept
<1>4. CASE Fund(s)!WriteCommitment(w)
  <2>1. commitment' = [commitment EXCEPT ![j.id].status = "CONFIRMED"]
    BY <1>4 DEF Fund!WriteCommitment
  <2>2. /\ j.id \in Cast[s].commitments /\ commitment[j.id] \in Fund(s)!CommitmentRec
        /\ j.id \in Fund(s)!Known(commitment)
    BY <1>4, <1>a, FundRows DEF Fund!WriteCommitment, Fund!At, Fund!CarriedSound
  <2>3. \A d \in Fund(s)!Known(commitment)' :
          d \in Fund(s)!Known(commitment) /\ commitment'[d].amount = commitment[d].amount
    BY <1>a, <2>1, <2>2 DEF FundTyped, Fund!Known, Fund!Free, Fund!CommitmentRec
  <2> QED BY <1>1, <1>2, <2>3, FundTurnKept
<1> QED BY <1>3, <1>4

(* A reservation that ends gives back what it had.                         *)
LEMMA FundEndInTurn ==
  ASSUME NEW s \in Scenes, Fund(s)!IInv, FundTurn(s), NEW w \in Workers, Alone(w), Moved(w),
         Fund(s)!WriteReservation(w)
  PROVE  FundTurn(s)'
<1> DEFINE j == job[w]
<1>a. FundTyped(s) /\ Fund(s)!CarriedSound(j)
  BY DEF Fund!IInv, Fund!TypeOK, FundTyped
<1>1. /\ commitment' = commitment /\ job' = [job EXCEPT ![w] = Idle]
      /\ \/ reservation' = reservation
         \/ reservation' = [reservation EXCEPT ![j.id].status = j.to]
  BY DEF Fund!WriteReservation, Fund!Return, Fund!Carry, Fund!Idle, Idle
<1>2. job'[w].at = "idle"
  BY <1>1 DEF Fund!IInv, Fund!TypeOK, Fund!Carrying, Idle
<1>3. /\ j.id \in Cast[s].reservations /\ reservation[j.id] \in Fund(s)!ReservationRec
      /\ j.to \in {"RELEASED", "CANCELLED"}
  BY <1>a, FundRows, FundJobKinds DEF Fund!WriteReservation, Fund!At, Fund!CarriedSound, Fund!IInv
<1>4. \A r \in Cast[s].reservations :
        reservation'[r].status = "RESERVED" => reservation'[r] = reservation[r]
  BY <1>a, <1>1, <1>3 DEF FundTyped, Fund!ReservationRec
<1>5. \A c : Fund(s)!ReservedUnits(c)' \subseteq Fund(s)!ReservedUnits(c)
  <2> TAKE c
  <2>1. ASSUME NEW u \in Fund(s)!ReservedUnits(c)' PROVE u \in Fund(s)!ReservedUnits(c)
    <3>1. /\ u \in Cast[s].reservations \X Fund(s)!Amounts
          /\ reservation'[u[1]].status = "RESERVED" /\ reservation'[u[1]].com = c
          /\ u[2] <= reservation'[u[1]].amount
      BY <2>1 DEF Fund!ReservedUnits, Fund!Amounts
    <3>2. u[1] \in Cast[s].reservations
      BY <3>1
    <3> QED BY <1>4, <3>1, <3>2 DEF Fund!ReservedUnits
  <2> QED BY <2>1
<1>6. Fund(s)!Known(commitment)' = Fund(s)!Known(commitment)
  BY <1>1 DEF Fund!Known, Fund!Free
<1> QED BY <1>1, <1>2, <1>5, <1>6, FundTurnKept

(* The sum that is read is the sum until the reservation is inserted.      *)
LEMMA FundSumInTurn ==
  ASSUME NEW s \in Scenes, Fund(s)!IInv, FundTurn(s), NEW w \in Workers, Alone(w), Moved(w),
         Fund(s)!SumReserved(w)
  PROVE  FundTurn(s)'
<1> DEFINE j == job[w]
           k == [at |-> "insertReservation", com |-> j.com, inv |-> j.inv, amount |-> j.amount,
                 committed |-> j.committed]
<1>1. /\ j.at = "sumReserved" /\ UNCHANGED <<reservation, commitment>>
      /\ IF Fund(s)!Affords(j) THEN Carry(w, [j EXCEPT !.at = "insertReservation"])
         ELSE Carry(w, Idle)
  BY DEF Fund!SumReserved, Fund!At, Fund!records, Fund!Return, Fund!Carry, Carry, Fund!Idle, Idle
<1>2. [j EXCEPT !.at = "insertReservation"] = k
  <2>1. j = [at |-> j.at, com |-> j.com, inv |-> j.inv, amount |-> j.amount,
             committed |-> j.committed]
    BY <1>1, FundJobKinds DEF Fund!IInv
  <2> QED BY <2>1
<1>3. CASE ~Fund(s)!Affords(j)
  <2>1. job'[w].at = "idle"
    BY <1>1, <1>3, CarryMoves DEF Idle, Fund!IInv, Fund!TypeOK, Fund!Carrying
  <2> QED BY <1>1, <2>1, FundTurnStays
<1>4. CASE Fund(s)!Affords(j)
  <2>1. job'[w] = k
    BY <1>1, <1>2, <1>4, CarryMoves DEF Fund!IInv, Fund!TypeOK, Fund!Carrying
  <2>2. \A v \in Workers \ {w} : job'[v].at = "idle"
    BY DEF Alone, At, Moved
  <2>3. /\ \A c : Fund(s)!ReservedUnits(c)' = Fund(s)!ReservedUnits(c)
        /\ \A c : Fund(s)!Reserved(c)' = Fund(s)!Reserved(c)
    <3>1. \A c : Fund(s)!ReservedUnits(c)' = Fund(s)!ReservedUnits(c)
      BY <1>1 DEF Fund!ReservedUnits
    <3> QED BY <3>1, FundReserved
  <2>4. Fund(s)!Known(commitment)' = Fund(s)!Known(commitment)
    BY <1>1 DEF Fund!Known, Fund!Free
  <2>5. Fund(s)!Reserved(j.com) + j.amount <= j.committed
    BY <1>4 DEF Fund!Affords
  <2>6. Fund(s)!WithinCommitment'
    BY <1>1, <2>3, <2>4 DEF FundTurn, Fund!SerialSound, Fund!WithinCommitment
  <2>7. ASSUME NEW v \in Workers, NEW c \in Cast[s].commitments,
               job'[v].at = "insertReservation", job'[v].com = c
        PROVE  Fund(s)!Reserved(c)' + job'[v].amount <= job'[v].committed
    <3>1. v = w
      BY <2>2, <2>7
    <3>2. c = j.com /\ job'[v].amount = j.amount /\ job'[v].committed = j.committed
      BY <2>1, <2>7, <3>1
    <3> QED BY <2>3, <2>5, <3>2
  <2>8. Fund(s)!SerialSound'
    BY <2>6, <2>7 DEF Fund!SerialSound, Fund!At
  <2> QED BY <2>3, <2>8 DEF FundTurn, Counted
<1> QED BY <1>3, <1>4

(* The units of one reservation are as many as its amount.                 *)
LEMMA UnitsOfOne ==
  ASSUME NEW r, NEW n \in Nat
  PROVE  IsFiniteSet({r} \X (1..n)) /\ Cardinality({r} \X (1..n)) = n
<1> DEFINE R == {r}
           N == 1..n
<1>1. IsFiniteSet(R) /\ Cardinality(R) = 1
  BY FS_Singleton
<1>2. IsFiniteSet(N) /\ Cardinality(N) = IF 1 > n THEN 0 ELSE n - 1 + 1
  BY FS_Interval, 1 \in Int, n \in Int
<1>3. Cardinality(N) = n /\ 1 * n = n
  BY <1>2
<1> HIDE DEF R, N
<1>4. IsFiniteSet(R \X N) /\ Cardinality(R \X N) = Cardinality(R) * Cardinality(N)
  BY <1>1, <1>2, FS_Product
<1> QED BY <1>1, <1>3, <1>4 DEF R, N

(* A reservation is inserted on a sum that still holds.                    *)
LEMMA FundInsertInTurn ==
  ASSUME NEW s \in Scenes, Fund(s)!IInv, FundTurn(s), NEW w \in Workers, Alone(w), Moved(w),
         Fund(s)!InsertReservation(w)
  PROVE  FundTurn(s)'
<1> DEFINE j == job[w]
<1>a. FundTyped(s) /\ Fund(s)!CarriedSound(j)
  BY DEF Fund!IInv, Fund!TypeOK, FundTyped
<1>1. /\ j.at = "insertReservation" /\ commitment' = commitment
      /\ job' = [job EXCEPT ![w] = Idle]
  BY DEF Fund!InsertReservation, Fund!At, Fund!Return, Fund!Carry, Fund!Idle, Idle
<1>2. /\ j.com \in Cast[s].commitments /\ j.amount \in Fund(s)!Amounts
      /\ j.amount \in Nat /\ j.committed = commitment[j.com].amount
      /\ j.com \in Fund(s)!Known(commitment)
  <2>1. j.com \in Cast[s].commitments /\ j.amount \in Fund(s)!Amounts
    BY <1>1, FundJobKinds DEF Fund!IInv
  <2>2. j.amount \in Nat
    BY <2>1, SettlementAssumption DEF Fund!Amounts, Fund!AmountAssumption
  <2>3. j.com \in Fund(s)!Known(commitment) /\ j.committed = commitment[j.com].amount
    BY <1>1, <1>a DEF Fund!CarriedSound
  <2> QED BY <2>1, <2>2, <2>3
<1>3. PICK r \in Cast[s].reservations :
        /\ reservation[r].status = "none"
        /\ reservation' = [reservation EXCEPT ![r] =
             [status |-> "RESERVED", com |-> j.com, inv |-> j.inv, amount |-> j.amount]]
  BY <1>a DEF Fund!InsertReservation, Fund!Free, FundTyped
<1>4. /\ reservation'[r].com = j.com /\ reservation'[r].amount = j.amount
      /\ \A x \in Cast[s].reservations \ {r} : reservation'[x] = reservation[x]
  BY <1>a, <1>3 DEF FundTyped
<1>5. \A v \in Workers : job'[v].at # "insertReservation"
  BY <1>1 DEF Alone, At, Moved, Fund!IInv, Fund!TypeOK, Fund!Carrying, Idle
<1>6. Fund(s)!Known(commitment)' = Fund(s)!Known(commitment)
  BY <1>1 DEF Fund!Known, Fund!Free
<1> DEFINE New == {r} \X (1..j.amount)
<1>7. IsFiniteSet(New) /\ Cardinality(New) = j.amount
  BY <1>2, UnitsOfOne
<1>8. ASSUME NEW c \in Cast[s].commitments
      PROVE  /\ c = j.com => Fund(s)!ReservedUnits(c)' \subseteq Fund(s)!ReservedUnits(c) \cup New
             /\ c # j.com => Fund(s)!ReservedUnits(c)' \subseteq Fund(s)!ReservedUnits(c)
  <2>1. ASSUME NEW u \in Fund(s)!ReservedUnits(c)'
        PROVE  \/ u \in Fund(s)!ReservedUnits(c)
               \/ c = j.com /\ u \in New
    <3>1. /\ u \in Cast[s].reservations \X Fund(s)!Amounts
          /\ reservation'[u[1]].status = "RESERVED" /\ reservation'[u[1]].com = c
          /\ u[2] <= reservation'[u[1]].amount
      BY <2>1 DEF Fund!ReservedUnits, Fund!Amounts
    <3>2. u[1] \in Cast[s].reservations /\ u[2] \in Fund(s)!Amounts /\ u = <<u[1], u[2]>>
      BY <3>1
    <3>3. CASE u[1] = r
      <4>1. u[2] \in 1..j.amount
        BY <1>2, <1>4, <3>1, <3>2, <3>3, SettlementAssumption DEF Fund!Amounts, Fund!AmountAssumption
      <4>2. u \in New
        BY <3>2, <3>3, <4>1
      <4> QED BY <1>4, <3>1, <3>3, <4>2
    <3>4. CASE u[1] # r
      <4>1. reservation'[u[1]] = reservation[u[1]]
        BY <1>4, <3>2, <3>4
      <4> QED BY <3>1, <4>1 DEF Fund!ReservedUnits
    <3> QED BY <3>3, <3>4
  <2> QED BY <2>1
<1> HIDE DEF New
<1>9. ASSUME NEW c \in Cast[s].commitments
      PROVE  /\ IsFiniteSet(Fund(s)!ReservedUnits(c)')
             /\ c \in Fund(s)!Known(commitment)
                  => Cardinality(Fund(s)!ReservedUnits(c)') <= commitment[c].amount
  <2>1. IsFiniteSet(Fund(s)!ReservedUnits(c))
    BY DEF FundTurn, Counted
  <2>2. CASE c # j.com
    <3>1. /\ IsFiniteSet(Fund(s)!ReservedUnits(c)')
          /\ Cardinality(Fund(s)!ReservedUnits(c)') <= Cardinality(Fund(s)!ReservedUnits(c))
      BY <1>8, <2>1, <2>2, FS_Subset
    <3>2. Cardinality(Fund(s)!ReservedUnits(c)') \in Nat
          /\ Cardinality(Fund(s)!ReservedUnits(c)) \in Nat
      BY <2>1, <3>1, FS_CardinalityType
    <3>3. ASSUME c \in Fund(s)!Known(commitment)
          PROVE  /\ Cardinality(Fund(s)!ReservedUnits(c)) <= commitment[c].amount
                 /\ commitment[c].amount \in Nat
      BY <3>3, FundFits
    <3> QED BY <3>1, <3>2, <3>3
  <2>3. CASE c = j.com
    <3> DEFINE Old == Fund(s)!ReservedUnits(c)
               Now == Fund(s)!ReservedUnits(c)'
               Both == Old \cup New
    <3>1. Now \subseteq Both
      BY <1>8, <2>3
    <3>2. IsFiniteSet(Old)
      BY <2>1
    <3>3. Cardinality(Old) + j.amount <= commitment[c].amount
      <4>1. Fund(s)!Reserved(c) + j.amount <= j.committed
        BY <1>1, <2>3 DEF FundTurn, Fund!SerialSound, Fund!At
      <4>2. Fund(s)!Reserved(c) = Cardinality(Old)
        BY FundReserved
      <4> QED BY <1>2, <2>3, <4>1, <4>2
    <3>n. commitment[c].amount \in Nat
      BY <1>2, <2>3, FundFits
    <3> HIDE DEF Old, Now
    <3>4. /\ IsFiniteSet(Both)
          /\ Cardinality(Both) = Cardinality(Old) + Cardinality(New) - Cardinality(Old \cap New)
      BY <1>7, <3>2, FS_Union
    <3>5. IsFiniteSet(Old \cap New)
      BY <3>2, FS_Intersection
    <3>6. Cardinality(Old \cap New) \in Nat /\ Cardinality(Old) \in Nat
      BY <3>2, <3>5, FS_CardinalityType
    <3>7. IsFiniteSet(Now) /\ Cardinality(Now) <= Cardinality(Both)
      BY <3>1, <3>4, FS_Subset
    <3>8. Cardinality(Now) \in Nat /\ Cardinality(Both) \in Nat
      BY <3>4, <3>7, FS_CardinalityType
    <3>9. Cardinality(Now) <= commitment[c].amount
      BY <1>2, <1>7, <3>3, <3>4, <3>6, <3>7, <3>8, <3>n
    <3> QED BY <3>7, <3>9 DEF Now
  <2> QED BY <2>2, <2>3
<1>10. Counted(s)'
  BY <1>9 DEF Counted
<1>11. ASSUME NEW c \in Fund(s)!Known(commitment)'
       PROVE  Fund(s)!Reserved(c)' <= commitment'[c].amount
  <2>1. c \in Fund(s)!Known(commitment)
    BY <1>6
  <2>2. c \in Cast[s].commitments
    BY <2>1, FundFits
  <2> QED BY <1>1, <1>9, <2>1, <2>2, FundReserved
<1>12. Fund(s)!WithinCommitment'
  BY <1>11 DEF Fund!WithinCommitment
<1>13. Fund(s)!SerialSound'
  BY <1>5, <1>12 DEF Fund!SerialSound, Fund!At
<1> QED BY <1>10, <1>13 DEF FundTurn

LEMMA FundInTurn ==
  ASSUME NEW s \in Scenes, Fund(s)!IInv, FundTurn(s), NEW w \in Workers, Alone(w), Moved(w),
         Fund(s)!Handle(w)
  PROVE  FundTurn(s)'
<1>1. CASE \/ Fund(s)!Calculate(w) \/ Fund(s)!Confirm(w) \/ Fund(s)!SubmitInvoice(w)
           \/ Fund(s)!CheckNumber(w) \/ Fund(s)!ApproveInvoice(w) \/ Fund(s)!RejectInvoice(w)
           \/ Fund(s)!ConfirmCommitment(w) \/ Fund(s)!AskCustodian(w) \/ Fund(s)!Reserve(w)
           \/ Fund(s)!EndReservation(w) \/ Fund(s)!Evaluate(w)
           \/ Fund(s)!ReadInvoice(w) \/ Fund(s)!ReadReservation(w) \/ Fund(s)!ReadHold(w)
           \/ Fund(s)!Cancel(w)
  <2>1. job'[w].at # "insertReservation" /\ UNCHANGED <<reservation, commitment>>
    BY ONLY s \in Scenes, Fund(s)!IInv, w \in Workers, <1>1, FundReadsInTurn
  <2> QED BY <2>1, FundTurnStays
<1>2. CASE \/ Fund(s)!Assess(w) \/ Fund(s)!InsertEntitlement(w) \/ Fund(s)!WriteConfirmed(w)
           \/ Fund(s)!InsertInvoice(w) \/ Fund(s)!WriteInvoice(w)
           \/ Fund(s)!Draft(w) \/ Fund(s)!WriteEvaluation(w) \/ Fund(s)!WriteCancelled(w)
  BY <1>2, FundWritesInTurn
<1>3. CASE Fund(s)!RecordCommitment(w) \/ Fund(s)!WriteCommitment(w)
  BY <1>3, FundCommitInTurn
<1>4. CASE Fund(s)!SumReserved(w) \/ Fund(s)!InsertReservation(w) \/ Fund(s)!WriteReservation(w)
  BY <1>4, FundSumInTurn, FundInsertInTurn, FundEndInTurn
<1> QED BY <1>1, <1>2, <1>3, <1>4 DEF Fund!Handle

LEMMA FundSerialOthers ==
  ASSUME NEW s \in Scenes, FundTurn(s), UNCHANGED fundingVars, NEW w \in Workers, Moved(w),
         job'[w].at \notin Fund(s)!Calls
  PROVE  FundTurn(s)'
<1>1. \A v \in Workers : job'[v].at \in Fund(s)!Calls => v # w /\ job'[v] = job[v]
  BY DEF Moved
<1>2. \A c : Fund(s)!ReservedUnits(c)' = Fund(s)!ReservedUnits(c)
  BY DEF Fund!ReservedUnits, fundingVars
<1>3. \A c : Fund(s)!Reserved(c)' = Fund(s)!Reserved(c)
  BY <1>2, FundReserved
<1>4. Counted(s)'
  BY <1>2 DEF Counted, FundTurn
<1>5. Fund(s)!WithinCommitment'
  <2>1. Fund(s)!Known(commitment)' = Fund(s)!Known(commitment) /\ commitment' = commitment
    BY DEF Fund!Known, Fund!Free, fundingVars
  <2> QED BY <1>3, <2>1 DEF FundTurn, Fund!SerialSound, Fund!WithinCommitment
<1>6. ASSUME NEW v \in Workers, NEW c \in Cast[s].commitments,
             job'[v].at = "insertReservation", job'[v].com = c
      PROVE  Fund(s)!Reserved(c)' + job'[v].amount <= job'[v].committed
  <2>1. job'[v] = job[v]
    BY <1>1, <1>6 DEF Fund!Calls
  <2>2. Fund(s)!Reserved(c) + job[v].amount <= job[v].committed
    BY <1>6, <2>1 DEF FundTurn, Fund!SerialSound, Fund!At
  <2> QED BY <1>3, <2>1, <2>2
<1>7. Fund(s)!SerialSound'
  BY <1>5, <1>6 DEF Fund!SerialSound, Fund!At
<1> QED BY <1>4, <1>7 DEF FundTurn

(* The engines together, one request at a time.                            *)
TurnSound(s) == SerialSound /\ Pay(s)!SerialSound /\ FundTurn(s) /\ Case(s)!SerialSound

LEMMA AuthorizeInTurn ==
  ASSUME NEW s \in Scenes, Sound(s), TurnSound(s), NEW w \in Workers, Alone(w), Authorize(w)
  PROVE  TurnSound(s)' /\ Moved(w)
<1> USE DEF Sound, TurnSound
<1>1. /\ Moved(w) /\ UNCHANGED <<paymentVars, fundingVars, caseVars>>
      /\ job[w].at \notin Pay(s)!Calls \cup Fund(s)!Calls \cup Case(s)!Calls
      /\ job'[w].at \notin Pay(s)!Calls \cup Fund(s)!Calls \cup Case(s)!Calls
  BY AuthorityMoves, CallsApart DEF Authorize
<1>2. SerialSound'
  BY SerialKeeps DEF Authorize
<1> QED BY <1>1, <1>2, PaySerialOthers, FundSerialOthers, CaseSerialOthers

LEMMA ExecuteInTurn ==
  ASSUME NEW s \in Scenes, Sound(s), TurnSound(s), NEW w \in Workers, Alone(w), Execute(s, w)
  PROVE  TurnSound(s)' /\ Moved(w)
<1> USE DEF Sound, TurnSound
<1>1. /\ Moved(w) /\ UNCHANGED <<store, fundingVars, caseVars>>
      /\ job[w].at \notin Calls \cup Fund(s)!Calls \cup Case(s)!Calls
      /\ job'[w].at \notin Calls \cup Fund(s)!Calls \cup Case(s)!Calls
  BY PayHandleKeeps, Starts, CallsApart DEF Execute, PayNext
<1>2. Pay(s)!SerialSound'
  BY PayInTurn DEF Execute
<1>3. SerialSound'
  BY <1>1, SerialOthers DEF store, Moved
<1> QED BY <1>1, <1>2, <1>3, FundSerialOthers, CaseSerialOthers

LEMMA ReleaseInTurn ==
  ASSUME NEW s \in Scenes, Sound(s), TurnSound(s), NEW w \in Workers, Alone(w), Release(s, w)
  PROVE  TurnSound(s)' /\ Moved(w)
<1> USE DEF Sound, TurnSound
<1>1. /\ Moved(w) /\ UNCHANGED <<store, paymentVars, caseVars>>
      /\ job[w].at \notin Calls \cup Pay(s)!Calls \cup Case(s)!Calls
      /\ job'[w].at \notin Calls \cup Pay(s)!Calls \cup Case(s)!Calls
  BY FundHandleKeeps, Starts, CallsApart DEF Release, FundNext
<1>2. FundTurn(s)'
  BY <1>1, FundInTurn DEF Release
<1>3. SerialSound'
  BY <1>1, SerialOthers DEF store, Moved
<1> QED BY <1>1, <1>2, <1>3, PaySerialOthers, CaseSerialOthers

LEMMA DisputeInTurn ==
  ASSUME NEW s \in Scenes, Sound(s), TurnSound(s), NEW w \in Workers, Alone(w), Dispute(s, w)
  PROVE  TurnSound(s)' /\ Moved(w)
<1> USE DEF Sound, TurnSound
<1>1. /\ Moved(w) /\ UNCHANGED <<store, paymentVars, fundingVars>>
      /\ job[w].at \notin Calls \cup Pay(s)!Calls \cup Fund(s)!Calls
      /\ job'[w].at \notin Calls \cup Pay(s)!Calls \cup Fund(s)!Calls
  BY CaseHandleKeeps, Starts, CallsApart DEF Dispute, CaseNext
<1>2. Case(s)!SerialSound'
  BY CaseInTurn DEF Dispute
<1>3. SerialSound'
  BY <1>1, SerialOthers DEF store, Moved
<1> QED BY <1>1, <1>2, <1>3, PaySerialOthers, FundSerialOthers

(* No request moves: the provider acts, or nobody does.                    *)
LEMMA StillInTurn ==
  ASSUME NEW s \in Scenes, TurnSound(s), UNCHANGED <<store, fundingVars, caseVars, job>>
  PROVE  SerialSound' /\ FundTurn(s)' /\ Case(s)!SerialSound'
<1> USE DEF TurnSound
<1>1. SerialSound'
  BY DEF SerialSound, At, store
<1>2. Case(s)!SerialSound'
  BY DEF Case!SerialSound, Case!HoldsRight, Case!At, Case!Raised, caseVars
<1>3. \A c : Fund(s)!ReservedUnits(c)' = Fund(s)!ReservedUnits(c)
  BY DEF Fund!ReservedUnits, fundingVars
<1>4. \A c : Fund(s)!Reserved(c)' = Fund(s)!Reserved(c)
  BY <1>3, FundReserved
<1>5. Fund(s)!Known(commitment)' = Fund(s)!Known(commitment) /\ commitment' = commitment
  BY DEF Fund!Known, Fund!Free, fundingVars
<1>6. Fund(s)!SerialSound'
  BY <1>4, <1>5 DEF FundTurn, Fund!SerialSound, Fund!WithinCommitment, Fund!At
<1>7. Counted(s)'
  BY <1>3 DEF FundTurn, Counted
<1> QED BY <1>1, <1>2, <1>6, <1>7 DEF FundTurn

LEMMA ProviderStepInTurn ==
  ASSUME NEW s \in Scenes, Sound(s), TurnSound(s), ProviderActs(s)
  PROVE  TurnSound(s)' /\ job' = job
<1>1. UNCHANGED <<store, fundingVars, caseVars, job>>
  BY DEF ProviderActs, Pay!ProviderSettles
<1>2. Pay(s)!SerialSound'
  BY ProviderInTurn DEF ProviderActs, Sound, TurnSound
<1> QED BY <1>1, <1>2, StillInTurn DEF TurnSound

LEMMA StutterInTurn ==
  ASSUME NEW s \in Scenes, TurnSound(s),
         UNCHANGED <<store, paymentVars, fundingVars, caseVars, job>>
  PROVE  TurnSound(s)'
<1>1. Pay(s)!SerialSound'
  BY DEF TurnSound, Pay!SerialSound, Pay!OnRecord, Pay!At, Pay!Issued, paymentVars
<1> QED BY <1>1, StillInTurn DEF TurnSound

(* At the start nothing is reserved and no request is under way.           *)
LEMMA BeginInTurn ==
  ASSUME NEW s \in Scenes, Init, Case(s)!Init, Pay(s)!Init, Fund(s)!Init
  PROVE  TurnSound(s)
<1>1. SerialSound
  <2>1. \A w \in Workers : job[w].at = "idle"
    BY DEF Init, Idle
  <2>2. \A a \in Authorizations : auth[a].status # "PENDING"
    BY DEF Init, NoAuth
  <2> QED BY <2>1, <2>2 DEF SerialSound, At
<1>2. Pay(s)!SerialSound
  BY DEF Pay!Init, Pay!Idle, Pay!SerialSound, Pay!Issued, Pay!NoInstr
<1>3. Case(s)!SerialSound
  BY DEF Case!Init, Case!Idle, Case!SerialSound, Case!Raised, Case!NoDispute, Case!At
<1>4. \A c : Fund(s)!ReservedUnits(c) = {}
  BY DEF Fund!Init, Fund!ReservedUnits, Fund!Blank
<1>5. Counted(s)
  BY <1>4, FS_EmptySet DEF Counted
<1>6. Fund(s)!SerialSound
  <2>1. Fund(s)!Known(commitment) = {}
    BY DEF Fund!Init, Fund!Known, Fund!Free, Fund!Blank
  <2>2. \A w \in Workers : job[w].at = "idle"
    BY DEF Fund!Init, Fund!Idle
  <2> QED BY <2>1, <2>2 DEF Fund!SerialSound, Fund!WithinCommitment, Fund!At
<1> QED BY <1>1, <1>2, <1>3, <1>5, <1>6 DEF TurnSound, FundTurn

(* Only the clients of the scene have requests; when they take turns, one  *)
(* request at most is under way.                                           *)
InTurnInv ==
  \A s \in Scenes : scene = s /\ InTurn(s) =>
    TurnSound(s) /\ \A v \in Workers \ Clients(s) : At(v, "idle")

LEMMA BeginTakesTurns == Begin => InTurnInv
<1> SUFFICES ASSUME Begin PROVE InTurnInv
  OBVIOUS
<1>1. PICK s \in Scenes : scene = s /\ Init /\ Case(s)!Init /\ Pay(s)!Init /\ Fund(s)!Init
  BY DEF Begin
<1>2. TurnSound(s)
  BY <1>1, BeginInTurn
<1>3. \A v \in Workers : At(v, "idle")
  BY <1>1 DEF Init, Idle, At
<1> QED BY <1>1, <1>2, <1>3 DEF InTurnInv

LEMMA PlayTakesTurns == SettlementInv /\ InTurnInv /\ [Play]_allVars => InTurnInv'
<1> SUFFICES ASSUME SettlementInv, InTurnInv, [Play]_allVars,
                    NEW s \in Scenes, scene' = s, InTurn(s)
             PROVE  TurnSound(s)' /\ \A v \in Workers \ Clients(s) : At(v, "idle")'
  BY DEF InTurnInv, InTurn
<1>1. scene = s
  BY DEF Play, Playing, allVars
<1>2. /\ Sound(s) /\ TurnSound(s) /\ Clients(s) \subseteq Workers /\ Mortals(s) = {}
      /\ \A v \in Workers \ Clients(s) : At(v, "idle")
  BY <1>1, SettlementAssumption DEF SettlementInv, InTurnInv, InTurn
<1>3. \A w \in Clients(s) : w \in Workers /\ Alone(w)
  BY <1>2 DEF InTurn, Alone
<1>4. \/ \E w \in Clients(s) : Authorize(w) \/ Execute(s, w) \/ Release(s, w) \/ Dispute(s, w)
      \/ ProviderActs(s)
      \/ UNCHANGED <<store, paymentVars, fundingVars, caseVars, job>>
  BY <1>1, <1>2 DEF Play, Playing, Clients, allVars
<1>5. CASE \E w \in Clients(s) : Authorize(w) \/ Execute(s, w) \/ Release(s, w) \/ Dispute(s, w)
  <2>1. PICK w \in Clients(s) : Authorize(w) \/ Execute(s, w) \/ Release(s, w) \/ Dispute(s, w)
    BY <1>5
  <2>2. TurnSound(s)' /\ Moved(w)
    BY <1>2, <1>3, <2>1, AuthorizeInTurn, ExecuteInTurn, ReleaseInTurn, DisputeInTurn
  <2> QED BY <1>2, <2>2 DEF Moved, At
<1>6. CASE ProviderActs(s)
  BY <1>2, <1>6, ProviderStepInTurn DEF At
<1>7. CASE UNCHANGED <<store, paymentVars, fundingVars, caseVars, job>>
  BY <1>2, <1>7, StutterInTurn DEF At
<1> QED BY <1>4, <1>5, <1>6, <1>7

(* The serial promises, for every cast in which one client at a time makes *)
(* requests and none dies, however many records, amounts and calls.        *)
THEOREM SettlementTakesTurns == Scenario => []SerialPromises
<1>1. InTurnInv => SerialPromises
  <2> SUFFICES ASSUME NEW s \in Scenes, TurnSound(s)
               PROVE  /\ VotesDecide /\ Pay(s)!RecordsFollowProvider
                      /\ Fund(s)!WithinCommitment /\ Case(s)!HoldFollowsDispute
    BY DEF InTurnInv, SerialPromises
  <2>1. VotesDecide
    BY DEF TurnSound, VotesDecide, SerialSound, Quiet, At
  <2>2. Pay(s)!RecordsFollowProvider
    BY DEF TurnSound, Pay!RecordsFollowProvider, Pay!SerialSound, Pay!OnRecord, Pay!Quiet, Pay!At
  <2>3. Fund(s)!WithinCommitment
    BY DEF TurnSound, FundTurn, Fund!SerialSound
  <2>4. Case(s)!HoldFollowsDispute
    BY DEF TurnSound, Case!HoldFollowsDispute, Case!SerialSound, Case!HoldsRight, Case!Quiet,
           Case!At
  <2> QED BY <2>1, <2>2, <2>3, <2>4
<1>2. Begin => SettlementInv /\ InTurnInv
  BY BeginSound, BeginTakesTurns
<1>3. SettlementInv /\ InTurnInv /\ [Play]_allVars => SettlementInv' /\ InTurnInv'
  BY PlaySound, PlayTakesTurns
<1> QED BY <1>1, <1>2, <1>3, PTL DEF Scenario
=============================================================================
