-------------------------- MODULE PaymentAuthority --------------------------
(***************************************************************************)
(* Engine 46 (packages/settlement-execution): thresholds say how many      *)
(* people must approve an amount, an authorisation is requested, approved  *)
(* by others than the requester, and granted or rejected.  The vote and    *)
(* the grant are separate transactions, and the number of votes is taken   *)
(* from a read made before the vote is cast.                               *)
(***************************************************************************)
EXTENDS Requests, Sequences

CONSTANTS
  Actors,          \* users that request and approve
  Authorizations,  \* identifiers of authorisations
  MaxAmount,       \* bound: amounts in minor units and requiredApprovals are at most this
  MaxThresholds    \* bound: how many thresholds are ever defined

Nobody == "nobody"

ASSUME AuthorityAssumption ==
  /\ MaxAmount \in Nat \ {0}
  /\ MaxThresholds \in Nat
  /\ Nobody \notin Actors

VARIABLES
  thresholds,  \* approvalThresholds, in the order in which the store lists them
  auth,        \* authorizationDecisions: status, requestedBy, requiredApprovals
  votes        \* approverIds of the financialApprovalDecisions of each authorisation

store == <<thresholds, auth, votes>>
vars  == <<thresholds, auth, votes, job>>

Amounts == 1..MaxAmount
Threshold == [lo : 0..MaxAmount, hi : Amounts, need : Amounts]
Statuses == {"none", "PENDING", "AUTHORIZED", "REJECTED"}
Auth == [status : Statuses, by : Actors \cup {Nobody}, need : 0..MaxAmount]
NoAuth == [status |-> "none", by |-> Nobody, need |-> 0]

Calls == {"threshold", "request", "count", "vote", "decide"}

Jobs ==
  [at : {"threshold"}, row : Threshold]
  \cup [at : {"request"}, by : Actors, need : Amounts]
  \cup [at : {"count"}, id : Authorizations, by : Actors, row : Auth]
  \cup [at : {"vote"}, id : Authorizations, by : Actors, row : Auth, count : Nat]
  \cup [at : {"decide"}, id : Authorizations, row : Auth]

TypeOK ==
  /\ thresholds \in Seq(Threshold)
  /\ auth \in [Authorizations -> Auth]
  /\ votes \in [Authorizations -> SUBSET Actors]
  /\ Carrying(Calls, Jobs)

Init ==
  /\ thresholds = <<>>
  /\ auth = [a \in Authorizations |-> NoAuth]
  /\ votes = [a \in Authorizations |-> {}]
  /\ job = [w \in Workers |-> Idle]

----------------------------------------------------------------------------
(* The tables.  UPDATE of an authorisation writes its status alone, and    *)
(* the governed-transition trigger refuses it once the status is terminal. *)
PutAuthUngoverned(a, row) == auth' = [auth EXCEPT ![a].status = row.status]

PutAuth(a, row) ==
  /\ auth[a].status \notin {"AUTHORIZED", "REJECTED"}
  /\ auth' = [auth EXCEPT ![a].status = row.status]

(* One vote per approver is a unique constraint; that the requester does   *)
(* not vote is a trigger that reads the authorisation in the same          *)
(* transaction.                                                            *)
Admissible(a, u) == u \notin votes[a] /\ u # auth[a].by

(* A request is received only while identifiers are left for all in flight.*)
Room == Cardinality({a \in Authorizations : auth[a].status = "none"})
          > Cardinality({w \in Workers : At(w, "request")})

----------------------------------------------------------------------------
DefineThresholdOfNone(w) ==
  /\ Len(thresholds) + Cardinality({v \in Workers : At(v, "threshold")}) < MaxThresholds
  /\ \E t \in [lo : 0..MaxAmount, hi : Amounts, need : 0..MaxAmount] :
       t.lo < t.hi /\ Receive(w, [at |-> "threshold", row |-> t])
  /\ UNCHANGED store

DefineThreshold(w) ==
  /\ Len(thresholds) + Cardinality({v \in Workers : At(v, "threshold")}) < MaxThresholds
  /\ \E t \in Threshold : t.lo < t.hi /\ Receive(w, [at |-> "threshold", row |-> t])
  /\ UNCHANGED store

AppendThreshold(w) ==
  /\ At(w, "threshold")
  /\ thresholds' = Append(thresholds, job[w].row)
  /\ Return(w)
  /\ UNCHANGED <<auth, votes>>

Covers(t, amount) == t.lo <= amount /\ amount <= t.hi

(* Neighbouring ranges share their end point, and the first one listed     *)
(* decides.                                                                *)
FirstCovering(amount) ==
  {i \in DOMAIN thresholds :
     /\ Covers(thresholds[i], amount)
     /\ \A j \in 1..(i - 1) : ~Covers(thresholds[j], amount)}

RequestAuthorization(w) ==
  /\ Room
  /\ \E u \in Actors, amount \in Amounts : \E i \in FirstCovering(amount) :
       Receive(w, [at |-> "request", by |-> u, need |-> thresholds[i].need])
  /\ UNCHANGED store

InsertAuthorization(w) ==
  /\ At(w, "request")
  /\ \E a \in Authorizations :
       /\ auth[a].status = "none"
       /\ auth' = [auth EXCEPT ![a] =
                     [status |-> "PENDING", by |-> job[w].by, need |-> job[w].need]]
  /\ Return(w)
  /\ UNCHANGED <<thresholds, votes>>

Approve(w) ==
  /\ \E a \in Authorizations, u \in Actors :
       /\ auth[a].status = "PENDING"
       /\ u # auth[a].by
       /\ Receive(w, [at |-> "count", id |-> a, by |-> u, row |-> auth[a]])
  /\ UNCHANGED store

CountVotes(w) ==
  /\ At(w, "count")
  /\ LET j == job[w]
     IN IF j.by \in votes[j.id]
        THEN Return(w)
        ELSE Carry(w, [at |-> "vote", id |-> j.id, by |-> j.by, row |-> j.row,
                       count |-> Cardinality(votes[j.id]) + 1])
  /\ UNCHANGED store

QuorumReached(j) == j.count >= j.row.need

CastVote(w) ==
  /\ At(w, "vote")
  /\ LET j == job[w]
     IN \/ /\ Admissible(j.id, j.by)
           /\ votes' = [votes EXCEPT ![j.id] = @ \cup {j.by}]
           /\ IF QuorumReached(j)
              THEN Carry(w, [at |-> "decide", id |-> j.id,
                             row |-> [j.row EXCEPT !.status = "AUTHORIZED"]])
              ELSE Return(w)
        \/ /\ ~Admissible(j.id, j.by)
           /\ Return(w)
           /\ UNCHANGED votes
  /\ UNCHANGED <<thresholds, auth>>

Reject(w) ==
  /\ \E a \in Authorizations :
       /\ auth[a].status = "PENDING"
       /\ Receive(w, [at |-> "decide", id |-> a,
                      row |-> [auth[a] EXCEPT !.status = "REJECTED"]])
  /\ UNCHANGED store

(* The last write of approve and of reject; refused, it throws.            *)
WriteDecision(w) ==
  /\ At(w, "decide")
  /\ \/ PutAuth(job[w].id, job[w].row)
     \/ auth[job[w].id].status \in {"AUTHORIZED", "REJECTED"} /\ UNCHANGED auth
  /\ Return(w)
  /\ UNCHANGED <<thresholds, votes>>

Die(w) == Crash(w) /\ UNCHANGED store

Continue(w) ==
  \/ AppendThreshold(w) \/ InsertAuthorization(w) \/ CountVotes(w)
  \/ CastVote(w) \/ WriteDecision(w)

Handle(w) ==
  \/ DefineThreshold(w) \/ RequestAuthorization(w) \/ Approve(w) \/ Reject(w)
  \/ Continue(w)

Next == \E w \in Workers : Handle(w) \/ Die(w)

Spec == Init /\ [][Next]_vars

----------------------------------------------------------------------------
(* A grant rests on enough votes of distinct people other than the         *)
(* requester, however votes, grants and rejections overlap: the count that *)
(* approve acts on is taken before its own vote, and it may be stale.      *)
QuorumBehindGrant ==
  \A a \in Authorizations :
    auth[a].status = "AUTHORIZED" =>
      /\ Cardinality(votes[a]) >= auth[a].need
      /\ auth[a].by \notin votes[a]

(* Authorisations behave as the abstract vote: in particular each one is   *)
(* decided once, also when a grant and a rejection race.                   *)
Voting == INSTANCE VoteQuorum
QuorumSpec == Voting!Spec

(* While requests on it come one after another and none dies, enough votes *)
(* mean that the authorisation is decided.  Two approvers at once break    *)
(* this: each may count only its own vote.                                 *)
VotesDecide ==
  Quiet => \A a \in Authorizations :
             auth[a].status = "PENDING" => Cardinality(votes[a]) < auth[a].need
----------------------------------------------------------------------------
(* The inductive invariant.  Votes are never taken back, and the table     *)
(* refuses a vote that is already there, so the count that a request acts  *)
(* on is at most one more than there are.                                  *)
Backed(a) == Cardinality(votes[a]) >= auth[a].need

TablesSound ==
  \A a \in Authorizations :
    /\ IsFiniteSet(votes[a])
    /\ auth[a].status = "none" => votes[a] = {}
    /\ auth[a].status # "none" => auth[a].by \in Actors /\ auth[a].need \in Amounts
    /\ auth[a].by \notin votes[a]
    /\ auth[a].status = "AUTHORIZED" => Backed(a)

(* What remains true of the rows and counts that requests carry.           *)
Carried(j) ==
  j.at \in {"count", "vote", "decide"} =>
    /\ auth[j.id].status # "none"
    /\ j.row.need = auth[j.id].need
    /\ j.at = "vote" => j.count <= Cardinality(votes[j.id]) + 1
    /\ j.at = "decide" => j.row.status \in {"AUTHORIZED", "REJECTED"}
    /\ j.at = "decide" /\ j.row.status = "AUTHORIZED" => Backed(j.id)

ReadsSound == \A w \in Workers : Carried(job[w])

IInv == TypeOK /\ TablesSound /\ ReadsSound

(* What one request at a time may rely on: its count is exact, and what    *)
(* has enough votes is decided, or about to be.                            *)
SerialSound ==
  /\ \A w \in Workers : At(w, "vote") => job[w].count = Cardinality(votes[job[w].id]) + 1
  /\ \A a \in Authorizations :
       \/ auth[a].status = "PENDING" => Cardinality(votes[a]) < auth[a].need
       \/ \E w \in Workers : At(w, "decide") /\ job[w].id = a
=============================================================================
