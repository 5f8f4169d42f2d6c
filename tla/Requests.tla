------------------------------ MODULE Requests ------------------------------
(***************************************************************************)
(* How the engines of the repository run.  An engine keeps nothing in      *)
(* memory: a request reads documents through TrustPersistence, decides,    *)
(* and writes documents back.  Outside transaction() each call commits by  *)
(* itself, so anything may happen between two calls of one request, and    *)
(* what the request read may be stale when it writes.  A worker is one     *)
(* request in one server process; job[w] is where it is and what it has in *)
(* its local variables.  Modules that EXTEND this one give each engine's   *)
(* calls.                                                                  *)
(***************************************************************************)
EXTENDS Naturals, FiniteSets

CONSTANT Workers   \* requests in flight at once

VARIABLE job       \* job[w].at: the next call of the request; the rest: its memory

Idle == [at |-> "idle"]

At(w, label) == job[w].at = label

Carry(w, j) == job' = [job EXCEPT ![w] = j]

(* The first read of a request, which starts it.                           *)
Receive(w, j) == At(w, "idle") /\ Carry(w, j)

(* The request returns or throws: nothing of it is left.  An engine writes *)
(* nothing on its error paths, so a refusal, a failed store call and the   *)
(* death of the process look the same from outside.                        *)
Return(w) == Carry(w, Idle)

(* The process of a request dies between two of its calls.                 *)
Crash(w) == ~At(w, "idle") /\ Return(w)

Quiet == \A w \in Workers : At(w, "idle")

(* A request that makes one of these calls remembers what the call needs;  *)
(* other engines' requests may be anywhere else.                           *)
Carrying(calls, memories) ==
  /\ job = [w \in Workers |-> job[w]]
  /\ \A w \in Workers : job[w].at \in calls => job[w] \in memories
=============================================================================
