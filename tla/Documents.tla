----------------------------- MODULE Documents -----------------------------
(***************************************************************************)
(* The database as the engines see it through TrustPersistence: one table  *)
(* per collection, rows appended and replaced, each call a transaction of  *)
(* its own.  A request first reads and checks, then makes the writes it    *)
(* decided on, one after another; what they contain was read before the    *)
(* first of them.  An engine module says which reads start which writes,   *)
(* and what the constraints and triggers of its tables admit.              *)
(***************************************************************************)
EXTENDS Requests, Sequences

CONSTANTS
  MaxRows,   \* bound: MaxRows[c] rows are ever appended to collection c
  Mortals    \* the requests whose process may die

VARIABLE db        \* db[c][x]: row x of collection c, numbered as they were appended

vars == <<db, job>>

(* Requests come one after another; none of them dies; and both.           *)
InTurn == \A v, w \in Workers : v = w
Deathless == Mortals = {}
Reliable == InTurn /\ Deathless

Collections == DOMAIN MaxRows
Ids(c) == DOMAIN db[c]
Room(c) == Len(db[c]) < MaxRows[c]
InStatus(c, x, statuses) == db[c][x].status \in statuses

Empty ==
  /\ db = [c \in Collections |-> <<>>]
  /\ job = [w \in Workers |-> Idle]

(* The two writes: append, and replace with a row read before.             *)
New(c, row) == [op |-> "append", c |-> c, row |-> row]
Put(c, x, row) == [op |-> "replace", c |-> c, id |-> x, row |-> row]
Set(c, x, status) == Put(c, x, [db[c][x] EXCEPT !.status = status])

(* The rows that were found, in the order they are listed.                 *)
Listing(found) ==
  {q \in [1..Cardinality(found) -> found] : \A m, n \in DOMAIN q : m < n => q[m] < q[n]}

(* A request whose reads are one call, and which then writes todo.         *)
Ask(w, todo) == Receive(w, [at |-> "write", todo |-> todo]) /\ UNCHANGED db

(* The first read of a request that makes more reads, and a later one.     *)
Look(w, j) == Receive(w, j) /\ UNCHANGED db
Then(w, j) == Carry(w, j) /\ UNCHANGED db
Decide(w, todo) == Then(w, [at |-> "write", todo |-> todo])
GiveUp(w) == Return(w) /\ UNCHANGED db

(* The next write of a request.  A write that the tables do not admit      *)
(* throws, and the rest of the request is lost.                            *)
Written(h) ==
  IF h.op = "append"
  THEN [db EXCEPT ![h.c] = Append(@, h.row)]
  ELSE [db EXCEPT ![h.c][h.id] = h.row]

Due(w) == Head(job[w].todo)

Commit(w, admitted) ==
  /\ At(w, "write")
  /\ LET h == Due(w)
         rest == Tail(job[w].todo)
     IN \/ /\ h.op = "append" => Room(h.c)
           /\ admitted
           /\ db' = Written(h)
           /\ IF rest = <<>> THEN Return(w) ELSE Carry(w, [at |-> "write", todo |-> rest])
        \/ /\ ~admitted \/ (h.op = "append" /\ ~Room(h.c))
           /\ GiveUp(w)

Die(w) == Crash(w) /\ UNCHANGED db

----------------------------------------------------------------------------
(* For inductive invariants.  Tables hold rows of their types; a write is  *)
(* of such a row, and replaces one there is; a request that writes has     *)
(* still something to write.                                               *)
TablesTyped(types) == DOMAIN db = Collections /\ \A c \in Collections : db[c] \in Seq(types[c])

WriteTyped(h, types) ==
  /\ h.c \in Collections /\ h.row \in types[h.c]
  /\ h.op \in {"append", "replace"}
  /\ h.op = "replace" => h.id \in Ids(h.c)

Listed(todo) == todo # <<>> /\ todo \in Seq({todo[n] : n \in DOMAIN todo})
=============================================================================
