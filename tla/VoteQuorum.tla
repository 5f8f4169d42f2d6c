------------------------------- MODULE VoteQuorum -----------------------------
(* What Engine 46 promises about authorisations, without requests: votes   *)
(* of distinct people other than the requester accumulate, and the one     *)
(* decision is a grant by enough of them or a rejection.                   *)
EXTENDS Naturals, FiniteSets

CONSTANTS Actors, Authorizations
VARIABLES auth, votes

Init == \A a \in Authorizations : auth[a].status = "none" /\ votes[a] = {}

Open(a) ==
  /\ auth[a].status = "none"
  /\ auth' = [auth EXCEPT ![a] = auth'[a]]
  /\ auth'[a].status = "PENDING"
  /\ auth'[a].by \in Actors
  /\ auth'[a].need \in Nat \ {0}
  /\ UNCHANGED votes

Vote(a, u) ==
  /\ auth[a].status # "none"
  /\ u \notin votes[a] \cup {auth[a].by}
  /\ votes' = [votes EXCEPT ![a] = @ \cup {u}]
  /\ UNCHANGED auth

Grant(a) ==
  /\ auth[a].status = "PENDING"
  /\ Cardinality(votes[a]) >= auth[a].need
  /\ auth' = [auth EXCEPT ![a].status = "AUTHORIZED"]
  /\ UNCHANGED votes

Refuse(a) ==
  /\ auth[a].status = "PENDING"
  /\ auth' = [auth EXCEPT ![a].status = "REJECTED"]
  /\ UNCHANGED votes

Next ==
  \E a \in Authorizations :
    Open(a) \/ Grant(a) \/ Refuse(a) \/ \E u \in Actors : Vote(a, u)

Spec == Init /\ [][Next]_<<auth, votes>>
=============================================================================
