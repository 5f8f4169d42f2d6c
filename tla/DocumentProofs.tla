---------------------------- MODULE DocumentProofs ----------------------------
(***************************************************************************)
(* What the proofs about engines that keep documents have in common: the   *)
(* lists of writes that requests go through, and where a write lands in    *)
(* tables of any kind.                                                     *)
(***************************************************************************)
EXTENDS Naturals, Sequences, FiniteSets, FiniteSetTheorems, SequenceTheorems, TLAPS

----------------------------------------------------------------------------
(* Lists of writes.                                                        *)
ListedTodo(t) == t # <<>> /\ t \in Seq({t[n] : n \in DOMAIN t})

LEMMA TodoOfOne ==
  ASSUME NEW h
  PROVE  /\ ListedTodo(<<h>>) /\ DOMAIN <<h>> = {1} /\ <<h>>[1] = h
         /\ Head(<<h>>) = h /\ Len(<<h>>) = 1 /\ Tail(<<h>>) = <<>>
<1>1. <<h>> \in Seq({h}) /\ <<h>> # <<>> /\ DOMAIN <<h>> = {1} /\ <<h>>[1] = h
  OBVIOUS
<1>2. {<<h>>[n] : n \in DOMAIN <<h>>} = {h}
  BY <1>1
<1>3. ListedTodo(<<h>>)
  BY <1>1, <1>2 DEF ListedTodo
<1> QED BY <1>1, <1>3

LEMMA AppendOne ==
  ASSUME NEW e, NEW d PROVE Append(<<e>>, d) = <<e, d>>
<1> DEFINE u == Append(<<e>>, d)
<1>1. <<e>> \in Seq({e, d}) /\ d \in {e, d} /\ Len(<<e>>) = 1
  OBVIOUS
<1>2. u \in Seq({e, d}) /\ Len(u) = 2 /\ u[1] = e /\ u[2] = d
  BY <1>1, AppendProperties
<1> HIDE DEF u
<1>3. u = <<e, d>>
  BY <1>2
<1> QED BY <1>3 DEF u

LEMMA TodoHead ==
  ASSUME NEW t, ListedTodo(t)
  PROVE  /\ DOMAIN t = 1..Len(t) /\ Len(t) \in Nat \ {0} /\ 1 \in DOMAIN t /\ Head(t) = t[1]
         /\ Len(t) = 1 => Tail(t) = <<>>
<1>1. PICK S : t \in Seq(S) /\ t # <<>>
  BY DEF ListedTodo
<1>2. DOMAIN t = 1..Len(t) /\ Len(t) \in Nat \ {0}
  BY <1>1, LenProperties, EmptySeq
<1>3. Len(t) = 1 => Tail(t) = <<>>
  <2>1. Tail(t) \in Seq(S) /\ Len(Tail(t)) = Len(t) - 1
    BY <1>1, HeadTailProperties
  <2>2. Tail(t) # <<>> => Len(Tail(t)) \in Nat \ {0}
    BY <2>1, EmptySeq
  <2> QED BY <2>1, <2>2
<1> QED BY <1>1, <1>2, <1>3

LEMMA TodoTail ==
  ASSUME NEW t, ListedTodo(t), Tail(t) # <<>>
  PROVE  /\ ListedTodo(Tail(t)) /\ Len(Tail(t)) = Len(t) - 1
         /\ \A n \in DOMAIN Tail(t) : n \in Nat \ {0} /\ n + 1 \in DOMAIN t /\ Tail(t)[n] = t[n + 1]
<1> DEFINE u == Tail(t)
           R == {u[n] : n \in DOMAIN u}
<1>1. PICK S : t \in Seq(S) /\ t # <<>>
  BY DEF ListedTodo
<1>2. /\ u \in Seq(S) /\ Len(u) = Len(t) - 1 /\ \A n \in 1..Len(u) : u[n] = t[n + 1]
  BY <1>1, HeadTailProperties
<1>3. /\ DOMAIN t = 1..Len(t) /\ Len(t) \in Nat
      /\ u \in [1..Len(u) -> S] /\ DOMAIN u = 1..Len(u) /\ Len(u) \in Nat
  BY <1>1, <1>2, LenProperties
<1>4. \A n \in DOMAIN u : n \in Nat \ {0} /\ n + 1 \in DOMAIN t /\ u[n] = t[n + 1]
  BY <1>2, <1>3
<1>5. u \in Seq(R)
  <2>1. u = [n \in 1..Len(u) |-> u[n]]
    BY <1>3
  <2>2. \A n \in 1..Len(u) : u[n] \in R
    BY <1>3
  <2> HIDE DEF R
  <2>3. u \in [1..Len(u) -> R]
    BY <2>1, <2>2
  <2>4. u \in UNION {[1..n -> R] : n \in Nat}
    BY <1>3, <2>3
  <2>5. Seq(R) = UNION {[1..n -> R] : n \in Nat}
    BY SeqDef
  <2> QED BY <2>4, <2>5
<1> QED BY <1>2, <1>4, <1>5 DEF ListedTodo

LEMMA TodoOfTwo ==
  ASSUME NEW h, NEW g
  PROVE  /\ ListedTodo(<<h, g>>) /\ DOMAIN <<h, g>> = {1, 2} /\ <<h, g>>[1] = h /\ <<h, g>>[2] = g
         /\ Head(<<h, g>>) = h /\ Len(<<h, g>>) = 2 /\ Tail(<<h, g>>) = <<g>> /\ <<h>> \o <<g>> = <<h, g>>
<1>1. <<h, g>> \in Seq({h, g}) /\ <<h, g>> # <<>> /\ DOMAIN <<h, g>> = {1, 2}
  OBVIOUS
<1>2. {<<h, g>>[n] : n \in DOMAIN <<h, g>>} = {h, g}
  BY <1>1
<1>3. ListedTodo(<<h, g>>)
  BY <1>1, <1>2 DEF ListedTodo
<1>4. Tail(<<h, g>>) = <<g>>
  OBVIOUS
<1>5. <<h>> \o <<g>> = <<h, g>>
  <2>1. <<h>> \in Seq({h, g}) /\ <<g>> \in Seq({h, g}) /\ Len(<<h>>) = 1 /\ Len(<<g>>) = 1
    OBVIOUS
  <2>2. /\ <<h>> \o <<g>> \in Seq({h, g}) /\ Len(<<h>> \o <<g>>) = 2
        /\ \A i \in 1..2 : (<<h>> \o <<g>>)[i] = IF i <= 1 THEN <<h>>[i] ELSE <<g>>[i - 1]
    BY <2>1, ConcatProperties
  <2>3. \A i \in 1..2 : (<<h>> \o <<g>>)[i] = <<h, g>>[i]
    <3>1. (<<h>> \o <<g>>)[1] = h /\ (<<h>> \o <<g>>)[2] = g
      BY <2>2
    <3> QED BY <3>1
  <2> QED BY <1>1, <2>2, <2>3, SeqEqual
<1> QED BY <1>1, <1>3, <1>4, <1>5

(* A list of writes with one more at its end.                              *)
TodoOf(u, n, f, g) ==
  /\ ListedTodo(u) /\ DOMAIN u = 1..(n + 1) /\ Len(u) = n + 1 /\ u[n + 1] = g
  /\ \A i \in 1..n : u[i] = f[i]

LEMMA TodoAppended ==
  ASSUME NEW n \in Nat, NEW S, NEW f \in [1..n -> S], NEW g
  PROVE  TodoOf(f \o <<g>>, n, f, g)
<1> DEFINE T == S \cup {g}
           u == f \o <<g>>
           R == {u[i] : i \in DOMAIN u}
<1>1. f \in Seq(T) /\ Len(f) = n
  <2>1. f \in Seq(S) /\ Len(f) = n
    BY SeqDef, LenProperties
  <2> QED BY <2>1
<1>2. <<g>> \in Seq(T) /\ Len(<<g>>) = 1 /\ <<g>>[1] = g
  OBVIOUS
<1> HIDE DEF T
<1>3. /\ u \in Seq(T) /\ Len(u) = n + 1
      /\ \A i \in 1..(n + 1) : u[i] = IF i <= n THEN f[i] ELSE <<g>>[i - n]
  BY <1>1, <1>2, ConcatProperties
<1>4. u[n + 1] = g /\ \A i \in 1..n : u[i] = f[i]
  BY <1>2, <1>3
<1>5. DOMAIN u = 1..(n + 1) /\ u # <<>>
  BY <1>3, LenProperties, EmptySeq
<1>6. u \in Seq(R)
  <2>1. u = [i \in 1..(n + 1) |-> u[i]]
    BY <1>3, <1>5, LenProperties
  <2>2. \A i \in 1..(n + 1) : u[i] \in R
    BY <1>5
  <2> HIDE DEF R, u
  <2>3. u \in [1..(n + 1) -> R]
    BY <2>1, <2>2
  <2>4. u \in UNION {[1..k -> R] : k \in Nat}
    BY <2>3
  <2>5. Seq(R) = UNION {[1..k -> R] : k \in Nat}
    BY SeqDef
  <2> QED BY <2>4, <2>5
<1> QED BY <1>3, <1>4, <1>5, <1>6 DEF ListedTodo, TodoOf

----------------------------------------------------------------------------
(* One write to tables that hold rows of their types: where its row lands. *)
Place(D, h) == IF h.op = "append" THEN Len(D[h.c]) + 1 ELSE h.id

Lands(D, E, h) ==
  /\ \A c \in DOMAIN D \ {h.c} : E[c] = D[c]
  /\ DOMAIN E[h.c] = DOMAIN D[h.c] \cup {Place(D, h)}
  /\ E[h.c][Place(D, h)] = h.row
  /\ \A y \in DOMAIN D[h.c] \ {Place(D, h)} : E[h.c][y] = D[h.c][y]
  /\ h.op = "append" => Len(E[h.c]) = Len(D[h.c]) + 1
  /\ h.op # "append" => Len(E[h.c]) = Len(D[h.c])

(* What is in the tables after it, row by row.                             *)
Keeps(D, E, h) ==
  \A c \in DOMAIN D : \A x \in DOMAIN D[c] :
    /\ x \in DOMAIN E[c]
    /\ E[c][x] = D[c][x] \/ (h.op = "replace" /\ h.c = c /\ h.id = x /\ E[c][x] = h.row)

Adds(D, E, h) ==
  \A c \in DOMAIN D : \A x \in DOMAIN E[c] :
    \/ x \in DOMAIN D[c]
    \/ h.op = "append" /\ h.c = c /\ x = Len(D[c]) + 1 /\ E[c][x] = h.row

Tabled(D, C, T) == DOMAIN D = C /\ \A c \in C : D[c] \in Seq(T[c])

(* A write that fits the tables, and the tables after it.                  *)
Fitting(D, C, T, h) ==
  /\ Tabled(D, C, T)
  /\ h.c \in C /\ h.row \in T[h.c] /\ h.op \in {"append", "replace"}
  /\ h.op = "replace" => h.id \in DOMAIN D[h.c]

Holding(D, h) ==
  IF h.op = "append" THEN [D EXCEPT ![h.c] = Append(@, h.row)]
  ELSE [D EXCEPT ![h.c][h.id] = h.row]

LEMMA Landing ==
  ASSUME NEW C, NEW T, NEW D, NEW h, Fitting(D, C, T, h)
  PROVE  /\ Tabled(Holding(D, h), C, T) /\ Lands(D, Holding(D, h), h)
         /\ Keeps(D, Holding(D, h), h) /\ Adds(D, Holding(D, h), h)
         /\ \A c \in C : Len(D[c]) \in Nat /\ DOMAIN D[c] = 1..Len(D[c])
<1> DEFINE E == Holding(D, h)
<1> USE DEF Fitting, Holding
<1>1. \A c \in C : Len(D[c]) \in Nat /\ DOMAIN D[c] = 1..Len(D[c])
  BY DEF Tabled
<1>2. D[h.c] \in Seq(T[h.c])
  BY DEF Tabled
<1>3. Tabled(E, C, T) /\ Lands(D, E, h)
  <2>1. CASE h.op = "append"
    <3>1. DOMAIN E = C /\ E[h.c] = Append(D[h.c], h.row) /\ \A c \in C \ {h.c} : E[c] = D[c]
      BY <2>1 DEF Tabled
    <3>2. /\ E[h.c] \in Seq(T[h.c]) /\ Len(E[h.c]) = Len(D[h.c]) + 1
          /\ DOMAIN E[h.c] = 1..(Len(D[h.c]) + 1)
          /\ E[h.c][Len(D[h.c]) + 1] = h.row
          /\ \A y \in 1..Len(D[h.c]) : E[h.c][y] = D[h.c][y]
      <4> DEFINE s == D[h.c]
                 S == T[h.c]
      <4>1. s \in Seq(S) /\ h.row \in S /\ E[h.c] = Append(s, h.row) /\ Len(s) \in Nat
        BY <1>1, <1>2, <3>1
      <4> HIDE DEF s, S
      <4>2. /\ Append(s, h.row) \in Seq(S) /\ Len(Append(s, h.row)) = Len(s) + 1
            /\ Append(s, h.row)[Len(s) + 1] = h.row
            /\ \A y \in 1..Len(s) : Append(s, h.row)[y] = s[y]
        BY <4>1, AppendProperties
      <4> QED BY <4>1, <4>2, LenProperties DEF s, S
    <3> HIDE DEF E
    <3>3. Lands(D, E, h)
      <4>1. Place(D, h) = Len(D[h.c]) + 1 /\ DOMAIN D = C
        BY <2>1 DEF Place, Tabled
      <4>2. DOMAIN E[h.c] = DOMAIN D[h.c] \cup {Len(D[h.c]) + 1} /\ Len(D[h.c]) + 1 \notin DOMAIN D[h.c]
        BY <1>1, <3>2
      <4> QED BY <1>1, <2>1, <3>1, <3>2, <4>1, <4>2 DEF Lands
    <3> QED BY <1>1, <2>1, <3>1, <3>2, <3>3 DEF Tabled
  <2>2. CASE h.op # "append"
    <3>1. DOMAIN E = C /\ E[h.c] = [D[h.c] EXCEPT ![h.id] = h.row] /\ \A c \in C \ {h.c} : E[c] = D[c]
      BY <2>2 DEF Tabled
    <3>2. /\ E[h.c] \in Seq(T[h.c]) /\ Len(E[h.c]) = Len(D[h.c])
          /\ DOMAIN E[h.c] = DOMAIN D[h.c] /\ E[h.c][h.id] = h.row
          /\ \A y \in DOMAIN D[h.c] \ {h.id} : E[h.c][y] = D[h.c][y]
      BY <1>2, <2>2, <3>1
    <3> HIDE DEF E
    <3>3. Lands(D, E, h)
      <4>1. Place(D, h) = h.id /\ DOMAIN D = C /\ h.id \in DOMAIN D[h.c]
        BY <2>2 DEF Place, Tabled
      <4> QED BY <2>2, <3>1, <3>2, <4>1 DEF Lands
    <3> QED BY <1>1, <2>2, <3>1, <3>2, <3>3 DEF Tabled
  <2> QED BY <2>1, <2>2
<1>4. Keeps(D, E, h) /\ Adds(D, E, h)
  <2> HIDE DEF E
  <2> QED BY <1>1, <1>3 DEF Keeps, Adds, Lands, Place, Tabled
<1> QED BY <1>1, <1>3, <1>4

----------------------------------------------------------------------------
(* A request moves to its next call, the others stay where they are.       *)
LEMMA CarryMoves ==
  ASSUME NEW W, NEW J, J = [w \in W |-> J[w]], NEW w \in W, NEW j, NEW K, K = [J EXCEPT ![w] = j]
  PROVE  /\ K = [v \in W |-> K[v]] /\ K[w] = j
         /\ \A v \in W \ {w} : K[v] = J[v]
  OBVIOUS

LEMMA CarryStays ==
  ASSUME NEW W, NEW J, J = [w \in W |-> J[w]], NEW w \in W PROVE J = [J EXCEPT ![w] = J[w]]
  OBVIOUS

----------------------------------------------------------------------------
(* Rows that are found, by their numbers.                                  *)
(* A set of row numbers is finite.                                         *)
LEMMA RowsFinite ==
  ASSUME NEW n \in Nat, NEW S, S \subseteq 1..n PROVE IsFiniteSet(S) /\ Cardinality(S) \in Nat
<1>1. IsFiniteSet(1..n) /\ S \in SUBSET (1..n)
  BY FS_Interval
<1> QED BY <1>1, FS_Subset, FS_CardinalityType

(* A set of row numbers with at most one of them.                          *)
LEMMA AtMostOne ==
  ASSUME NEW n \in Nat, NEW S, S \subseteq 1..n
  PROVE  Cardinality(S) <= 1 <=> \A x, y \in S : x = y
<1>1. IsFiniteSet(S)
  <2>1. IsFiniteSet(1..n) /\ S \in SUBSET (1..n)
    BY FS_Interval
  <2> QED BY <2>1, FS_Subset
<1>2. ASSUME Cardinality(S) <= 1, NEW x \in S, NEW y \in S, x # y PROVE FALSE
  <2>1. IsFiniteSet({x}) /\ Cardinality({x}) = 1
    BY FS_Singleton
  <2>2. IsFiniteSet({x} \cup {y}) /\ Cardinality({x} \cup {y}) = 1 + 1
    BY <1>2, <2>1, FS_AddElement
  <2>3. ({x} \cup {y}) \in SUBSET S
    OBVIOUS
  <2>4. Cardinality({x} \cup {y}) <= Cardinality(S) /\ Cardinality(S) \in Nat
    BY <1>1, <2>3, FS_Subset, FS_CardinalityType
  <2> QED BY <1>2, <2>2, <2>4
<1>3. ASSUME \A x, y \in S : x = y PROVE Cardinality(S) <= 1
  <2>1. CASE S = {}
    BY <2>1, FS_EmptySet
  <2>2. CASE S # {}
    <3>1. PICK x \in S : TRUE
      BY <2>2
    <3>2. S = {x}
      BY <1>3
    <3>3. Cardinality({x}) = 1
      BY FS_Singleton
    <3> QED BY <3>2, <3>3
  <2> QED BY <2>1, <2>2
<1> QED BY <1>2, <1>3

(* The only row that is found is the one that is listed.                   *)
LEMMA ListedAll ==
  ASSUME NEW n \in Nat, NEW S, S \subseteq 1..n, \A x, y \in S : x = y,
         NEW q \in [1..Cardinality(S) -> S]
  PROVE  /\ Cardinality(S) \in Nat
         /\ \A x \in S : \E i \in 1..Cardinality(S) : q[i] = x
<1>1. IsFiniteSet(S)
  <2>1. IsFiniteSet(1..n) /\ S \in SUBSET (1..n)
    BY FS_Interval
  <2> QED BY <2>1, FS_Subset
<1>2. Cardinality(S) \in Nat
  BY <1>1, FS_CardinalityType
<1>3. ASSUME NEW x \in S PROVE \E i \in 1..Cardinality(S) : q[i] = x
  <2>1. S = {x}
    BY <1>3
  <2>2. Cardinality(S) = 1
    BY <2>1, FS_Singleton
  <2> QED BY <2>1, <2>2
<1> QED BY <1>2, <1>3

(* A set and a part of it, or all but one element of it.                   *)
LEMMA PartSmaller ==
  ASSUME NEW T, IsFiniteSet(T), NEW S, S \subseteq T
  PROVE  /\ IsFiniteSet(S) /\ Cardinality(S) \in Nat /\ Cardinality(T) \in Nat
         /\ Cardinality(S) <= Cardinality(T)
         /\ \A n \in T \ S : Cardinality(S) + 1 <= Cardinality(T)
<1>1. \A R : R \subseteq T => IsFiniteSet(R) /\ Cardinality(R) \in Nat /\ Cardinality(R) <= Cardinality(T)
  BY FS_Subset, FS_CardinalityType
<1>2. ASSUME NEW n \in T \ S PROVE Cardinality(S) + 1 <= Cardinality(T)
  <2>1. Cardinality(S \cup {n}) = Cardinality(S) + 1
    BY <1>1, FS_AddElement
  <2>2. S \cup {n} \subseteq T
    OBVIOUS
  <2> DEFINE m == Cardinality(S \cup {n})
  <2>3. m = Cardinality(S) + 1 /\ m <= Cardinality(T)
    BY <1>1, <2>1, <2>2
  <2> HIDE DEF m
  <2> QED BY <2>3
<1> QED BY <1>1, <1>2, FS_CardinalityType

(* Something owed is paid, or more is owed when more is due: what is due   *)
(* is still covered by what is paid and owed.                              *)
LEMMA Covered ==
  ASSUME NEW D, NEW P, NEW O, NEW E, NEW Q, NEW R, NEW w,
         IsFiniteSet(D), IsFiniteSet(Q), IsFiniteSet(O), IsFiniteSet(R), P \subseteq Q,
         O \ {w} \subseteq R, w \in O => Q \ P # {},
         Cardinality(D) <= Cardinality(P) + Cardinality(O),
         E \subseteq D \/ ((\E n : E \subseteq D \cup {n}) /\ w \notin O /\ w \in R)
  PROVE  Cardinality(E) <= Cardinality(Q) + Cardinality(R)
<1> DEFINE d == Cardinality(D)
           p == Cardinality(P)
           o == Cardinality(O)
           e == Cardinality(E)
           q == Cardinality(Q)
           r == Cardinality(R)
<1>1. /\ p \in Nat /\ q \in Nat /\ p <= q /\ (w \in O => p + 1 <= q)
  BY PartSmaller
<1>2. /\ o \in Nat /\ r \in Nat /\ (w \notin O => o <= r) /\ (w \notin O /\ w \in R => o + 1 <= r)
      /\ (w \in O => o <= r + 1)
  <2>1. CASE w \notin O
    <3>1. O \subseteq R
      BY <2>1
    <3> QED BY <2>1, <3>1, PartSmaller
  <2>2. CASE w \in O
    <3>1. Cardinality(O \ {w}) = o - 1 /\ o \in Nat /\ r \in Nat
      BY <2>2, FS_RemoveElement, FS_CardinalityType
    <3>2. Cardinality(O \ {w}) <= r
      BY PartSmaller
    <3> DEFINE m == Cardinality(O \ {w})
    <3>3. m = o - 1 /\ m <= r /\ o \in Nat /\ r \in Nat
      BY <3>1, <3>2
    <3> HIDE DEF m, o, r
    <3>4. o <= r + 1
      BY <3>3
    <3> QED BY <2>2, <3>3, <3>4
  <2> QED BY <2>1, <2>2
<1>3. e \in Nat /\ d \in Nat /\ (E \subseteq D => e <= d) /\ ((w \notin O /\ w \in R) \/ e <= d) /\ e <= d + 1
  <2>1. CASE E \subseteq D
    BY <2>1, PartSmaller
  <2>2. ASSUME NEW n, E \subseteq D \cup {n}, w \notin O /\ w \in R PROVE e \in Nat /\ d \in Nat /\ e <= d + 1
    <3>1. IsFiniteSet(D \cup {n}) /\ d \in Nat /\ Cardinality(D \cup {n}) \in Nat /\ Cardinality(D \cup {n}) <= d + 1
      <4>1. CASE n \in D
        <5>1. D \cup {n} = D
          BY <4>1
        <5>2. d \in Nat
          BY FS_CardinalityType
        <5>3. d <= d + 1
          <6> HIDE DEF d
          <6> QED BY <5>2
        <5> QED BY <5>1, <5>2, <5>3
      <4>2. CASE n \notin D
        <5>1. IsFiniteSet(D \cup {n}) /\ Cardinality(D \cup {n}) = d + 1 /\ d \in Nat
          BY <4>2, FS_AddElement, FS_CardinalityType
        <5>2. d + 1 \in Nat /\ d + 1 <= d + 1
          <6> HIDE DEF d
          <6> QED BY <5>1
        <5> QED BY <5>1, <5>2
      <4> QED BY <4>1, <4>2
    <3>2. e \in Nat /\ e <= Cardinality(D \cup {n})
      BY <2>2, <3>1, PartSmaller
    <3> DEFINE m == Cardinality(D \cup {n})
    <3>3. m \in Nat /\ m <= d + 1 /\ e \in Nat /\ e <= m /\ d \in Nat
      BY <3>1, <3>2
    <3> HIDE DEF m, e, d
    <3> QED BY <3>3
  <2>3. CASE ~(E \subseteq D)
    <3>1. e \in Nat /\ d \in Nat /\ e <= d + 1 /\ w \notin O /\ w \in R
      BY <2>2, <2>3
    <3> QED BY <2>3, <3>1
  <2>4. e \in Nat /\ d \in Nat /\ e <= d => e <= d + 1
    <3> HIDE DEF e, d
    <3> QED OBVIOUS
  <2> QED BY <2>1, <2>3, <2>4
<1>4. d <= p + o
  OBVIOUS
<1> HIDE DEF d, p, o, e, q, r
<1>5. e <= q + r
  BY <1>1, <1>2, <1>3, <1>4
<1> QED BY <1>5 DEF e, q, r
=============================================================================
