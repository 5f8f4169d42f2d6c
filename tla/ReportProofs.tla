---------------------------- MODULE ReportProofs ----------------------------
(***************************************************************************)
(* The reports on work in flight that Platform plays, proved of any nodes, *)
(* times, capacities and signals.  What a report tells is rounded more     *)
(* than once on the way, and keeps the order of what it is computed from;  *)
(* and it tells of one snapshot, from which work has moved since at no     *)
(* earlier time.                                                           *)
(***************************************************************************)
EXTENDS Platform, FiniteSetTheorems, TLAPS

----------------------------------------------------------------------------
(* What rounding preserves.                                                *)
LEMMA DivBounds ==
  ASSUME NEW a \in Int, NEW b \in Nat \ {0}
  PROVE  a \div b \in Int /\ b * (a \div b) <= a /\ a < b * (a \div b) + b
  OBVIOUS

LEMMA TimesGrows ==
  ASSUME NEW x \in Nat, NEW y \in Int, NEW z \in Int, y <= z PROVE x * y <= x * z
  OBVIOUS

(* Quotients compare as the products they come from.                       *)
LEMMA QuotientGrows ==
  ASSUME NEW b \in Nat \ {0}, NEW q \in Int, NEW r \in Int, b * q < b * r + b PROVE q <= r
<1> SUFFICES ASSUME q >= r + 1 PROVE FALSE
  OBVIOUS
<1>1. b * q >= b * (r + 1)
  BY TimesGrows
<1>2. b * (r + 1) = b * r + b
  OBVIOUS
<1>3. b * q \in Int /\ b * r \in Int
  OBVIOUS
<1> QED BY <1>1, <1>2, <1>3

LEMMA RoundBounds ==
  ASSUME NEW s, NEW a \in Int, NEW b \in Nat \ {0}
  PROVE  LET q == Reports(s)!Round(a, b)
         IN q \in Int /\ (2 * b) * q <= 2 * a + b /\ 2 * a + b < (2 * b) * q + 2 * b
<1>1. 2 * a + b \in Int /\ 2 * b \in Nat \ {0}
  OBVIOUS
<1> QED BY <1>1, DivBounds DEF Reports!Round

(* A quotient that is rounded grows with its dividend, and, if that is not *)
(* negative, as its divisor shrinks.                                       *)
LEMMA RoundGrows ==
  ASSUME NEW s, NEW a \in Int, NEW b \in Nat \ {0}, NEW c \in Int, NEW d \in Nat \ {0},
         a <= c, d <= b, 0 <= a \/ d = b
  PROVE  Reports(s)!Round(a, b) <= Reports(s)!Round(c, d)
<1> DEFINE q == Reports(s)!Round(a, b)
           r == Reports(s)!Round(c, d)
<1>1. /\ q \in Int /\ (2 * b) * q <= 2 * a + b /\ 2 * a + b < (2 * b) * q + 2 * b
      /\ r \in Int /\ (2 * d) * r <= 2 * c + d /\ 2 * c + d < (2 * d) * r + 2 * d
  BY RoundBounds
<1> HIDE DEF q, r
<1>2. CASE d = b
  <2>1. (2 * b) * q < (2 * b) * r + 2 * b
    <3>1. (2 * b) * q \in Int /\ (2 * b) * r \in Int
      BY <1>1
    <3> QED BY <1>1, <1>2, <3>1
  <2>2. 2 * b \in Nat \ {0}
    OBVIOUS
  <2>3. q <= r
    BY <1>1, <2>1, <2>2, QuotientGrows
  <2> QED BY <2>3 DEF q, r
<1>3. CASE 0 <= a
  <2>1. 2 * d \in Nat \ {0}
    OBVIOUS
  <2>2. CASE q <= 0
    <3>1. (2 * d) * 0 < (2 * d) * r + 2 * d
      BY <1>1, <1>3
    <3>2. 0 <= r
      BY <1>1, <2>1, <3>1, QuotientGrows
    <3> QED BY <1>1, <2>2, <3>2 DEF q, r
  <2>3. CASE q >= 1
    <3> DEFINE k == 2 * q - 1
    <3>1. k \in Nat
      BY <1>1, <2>3
    <3>2. k * d <= k * b
      BY <3>1, TimesGrows
    <3>3. k * b = (2 * b) * q - b /\ k * d = (2 * d) * q - d
      BY <1>1
    <3>4. (2 * b) * q \in Int /\ (2 * d) * q \in Int /\ (2 * d) * r \in Int
      BY <1>1
    <3> HIDE DEF k
    <3>5. (2 * d) * q < (2 * d) * r + 2 * d
      BY <1>1, <3>2, <3>3, <3>4
    <3>6. q <= r
      BY <1>1, <2>1, <3>5, QuotientGrows
    <3> QED BY <3>6 DEF q, r
  <2> QED BY <1>1, <2>2, <2>3
<1> QED BY <1>2, <1>3

LEMMA ClampGrows ==
  ASSUME NEW s, NEW a \in Int, NEW b \in Nat \ {0}, NEW c \in Int, NEW d \in Nat \ {0},
         a <= c, d <= b, 0 <= a \/ d = b
  PROVE  Reports(s)!Clamp(a, b) <= Reports(s)!Clamp(c, d)
<1>1. /\ Reports(s)!Round(a, b) \in Int /\ Reports(s)!Round(c, d) \in Int
      /\ Reports(s)!Round(a, b) <= Reports(s)!Round(c, d)
  BY RoundBounds, RoundGrows
<1> QED BY <1>1 DEF Reports!Clamp

LEMMA ClampBounds ==
  ASSUME NEW s, NEW a \in Int, NEW b \in Nat \ {0} PROVE Reports(s)!Clamp(a, b) \in 0..100
<1>1. Reports(s)!Round(a, b) \in Int
  BY RoundBounds
<1> QED BY <1>1 DEF Reports!Clamp

(* What is summed over the nodes.                                          *)
LEMMA ReportsCardinality ==
  ASSUME NEW s, NEW S PROVE Reports(s)!Cardinality(S) = Cardinality(S)
  BY DEF Reports!Cardinality, Cardinality

LEMMA ReportsNodes ==
  ASSUME NEW s \in ReportScenes
  PROVE  IsFiniteSet(Cast[s].nodes) /\ Cast[s].nodes # {} /\ Cardinality(Cast[s].nodes) \in Nat \ {0}
<1>1. IsFiniteSet(Cast[s].nodes) /\ Cast[s].nodes # {}
  BY PlatformAssumption DEF Reports!ReportsAssumption, Reports!IsFiniteSet, IsFiniteSet
<1> QED BY <1>1, FS_CardinalityType, FS_EmptySet

UnitsOf(N, f) == UNION {{n} \X (1..f[n]) : n \in N}

LEMMA UnitsFinite ==
  ASSUME NEW N, IsFiniteSet(N), NEW f \in [N -> Nat]
  PROVE  IsFiniteSet(UnitsOf(N, f)) /\ Cardinality(UnitsOf(N, f)) \in Nat
<1> DEFINE P == {{n} \X (1..f[n]) : n \in N}
<1>1. IsFiniteSet(P)
  <2> DEFINE g == [n \in N |-> {n} \X (1..f[n])]
  <2>1. g \in Surjection(N, P)
    BY DEF Surjection
  <2> QED BY <2>1, FS_Surjection
<1>2. \A S \in P : IsFiniteSet(S)
  <2> SUFFICES ASSUME NEW n \in N PROVE IsFiniteSet({n} \X (1..f[n]))
    OBVIOUS
  <2>1. 1 \in Int /\ f[n] \in Int
    OBVIOUS
  <2>2. IsFiniteSet({n}) /\ IsFiniteSet(1..f[n])
    BY <2>1, FS_Singleton, FS_Interval
  <2> QED BY <2>2, FS_Product
<1> HIDE DEF P
<1>3. IsFiniteSet(UNION P)
  BY <1>1, <1>2, FS_UNION
<1>4. Cardinality(UNION P) \in Nat
  BY <1>3, FS_CardinalityType
<1> QED BY <1>3, <1>4 DEF P, UnitsOf

LEMMA TotalGrows ==
  ASSUME NEW s \in ReportScenes, NEW f \in [Cast[s].nodes -> Nat], NEW g \in [Cast[s].nodes -> Nat],
         \A n \in Cast[s].nodes : f[n] <= g[n]
  PROVE  /\ Reports(s)!Total(f) \in Nat /\ Reports(s)!Total(g) \in Nat
         /\ Reports(s)!Total(f) <= Reports(s)!Total(g)
<1> DEFINE N == Cast[s].nodes
<1>1. IsFiniteSet(UnitsOf(N, g)) /\ Cardinality(UnitsOf(N, f)) \in Nat /\ Cardinality(UnitsOf(N, g)) \in Nat
  BY ReportsNodes, UnitsFinite
<1>2. UnitsOf(N, f) \subseteq UnitsOf(N, g)
  BY DEF UnitsOf
<1>3. Cardinality(UnitsOf(N, f)) <= Cardinality(UnitsOf(N, g))
  BY <1>1, <1>2, FS_Subset
<1>4. Reports(s)!Total(f) = Cardinality(UnitsOf(N, f)) /\ Reports(s)!Total(g) = Cardinality(UnitsOf(N, g))
  BY ReportsCardinality DEF Reports!Total, UnitsOf
<1> QED BY <1>1, <1>3, <1>4

LEMMA TotalOfOne ==
  ASSUME NEW s \in ReportScenes, NEW f \in [Cast[s].nodes -> Nat], NEW n \in Cast[s].nodes
  PROVE  f[n] <= Reports(s)!Total(f)
<1> DEFINE N == Cast[s].nodes
           U == {n} \X (1..f[n])
<1>1. IsFiniteSet(UnitsOf(N, f))
  BY ReportsNodes, UnitsFinite
<1>2. U \subseteq UnitsOf(N, f)
  BY DEF UnitsOf
<1>3. Cardinality(U) = f[n]
  <2>1. IsFiniteSet({n}) /\ Cardinality({n}) = 1
    BY FS_Singleton
  <2>2. IsFiniteSet(1..f[n]) /\ Cardinality(1..f[n]) = f[n]
    BY FS_Interval
  <2>3. Cardinality(U) = Cardinality({n}) * Cardinality(1..f[n])
    BY <2>1, <2>2, FS_Product
  <2> HIDE DEF U
  <2> QED BY <2>1, <2>2, <2>3
<1> HIDE DEF U
<1>4. Cardinality(U) <= Cardinality(UnitsOf(N, f))
  BY <1>1, <1>2, FS_Subset
<1>5. Reports(s)!Total(f) = Cardinality(UnitsOf(N, f))
  BY ReportsCardinality DEF Reports!Total, UnitsOf
<1> QED BY <1>3, <1>4, <1>5

(* What is known of a snapshot.                                            *)
ReportsSeen(s, x) ==
  /\ x.at \in Cast[s].times /\ x.nodes \in [Cast[s].nodes -> Reports(s)!WorkflowNode]
  /\ x.missing \in [Cast[s].nodes -> Cast[s].counts]
  /\ x.load \in [duration : [Cast[s].nodes -> Cast[s].hours], capacity : Cast[s].hours, queued : BOOLEAN]

LEMMA ReportsNumbers ==
  ASSUME NEW s \in ReportScenes
  PROVE  /\ Cast[s].times \subseteq Nat /\ 0 \in Cast[s].times /\ Cast[s].due \in Nat
         /\ Cast[s].stalledAfter \in Nat /\ Cast[s].percents \subseteq 0..100 /\ 0 \in Cast[s].percents
         /\ Cast[s].counts \subseteq Nat /\ Cast[s].hours \subseteq Nat /\ Cast[s].scores \subseteq 0..100
         /\ \A row \in Reports(s)!WorkflowNode : row.progress \in 0..100 /\ row.updatedAt \in Nat
<1>1. /\ Cast[s].times \subseteq Nat /\ 0 \in Cast[s].times /\ Cast[s].due \in Nat
      /\ Cast[s].stalledAfter \in Nat /\ Cast[s].percents \subseteq 0..100 /\ 0 \in Cast[s].percents
      /\ Cast[s].counts \subseteq Nat /\ Cast[s].hours \subseteq Nat /\ Cast[s].scores \subseteq 0..100
  BY PlatformAssumption DEF Reports!ReportsAssumption
<1>2. \A row \in Reports(s)!WorkflowNode : row.progress \in 0..100 /\ row.updatedAt \in Nat
  BY <1>1 DEF Reports!WorkflowNode
<1> QED BY <1>1, <1>2

LEMMA ReportsCounted ==
  ASSUME NEW s \in ReportScenes, NEW x, ReportsSeen(s, x)
  PROVE  /\ IsFiniteSet(Reports(s)!Blocked(x)) /\ Cardinality(Reports(s)!Blocked(x)) \in Nat
         /\ IsFiniteSet(Reports(s)!Stalled(x)) /\ Cardinality(Reports(s)!Stalled(x)) \in Nat
         /\ Reports(s)!ProgressScore(x) \in 0..100 /\ Reports(s)!HealthScore(x) \in 0..100
<1>1. Reports(s)!Blocked(x) \subseteq Cast[s].nodes /\ Reports(s)!Stalled(x) \subseteq Cast[s].nodes
  BY DEF Reports!Blocked, Reports!Stalled
<1>2. /\ IsFiniteSet(Reports(s)!Blocked(x)) /\ Cardinality(Reports(s)!Blocked(x)) \in Nat
      /\ IsFiniteSet(Reports(s)!Stalled(x)) /\ Cardinality(Reports(s)!Stalled(x)) \in Nat
  BY <1>1, ReportsNodes, FS_Subset, FS_CardinalityType
<1>3. Reports(s)!ProgressScore(x) \in 0..100
  <2> DEFINE f == [n \in Cast[s].nodes |-> x.nodes[n].progress]
  <2>1. f \in [Cast[s].nodes -> Nat]
    <3>1. x.nodes \in [Cast[s].nodes -> Reports(s)!WorkflowNode]
      BY DEF ReportsSeen
    <3>2. \A n \in Cast[s].nodes : x.nodes[n].progress \in 0..100
      BY <3>1, ReportsNumbers
    <3> QED BY <3>2
  <2>2. Reports(s)!ProgressScore(x) = Reports(s)!Clamp(Reports(s)!Total(f), Cardinality(Cast[s].nodes))
    BY ReportsCardinality DEF Reports!ProgressScore
  <2> HIDE DEF f
  <2>3. Reports(s)!Total(f) \in Nat
    BY <2>1, TotalGrows
  <2> QED BY <2>2, <2>3, ReportsNodes, ClampBounds
<1>4. Reports(s)!HealthScore(x) \in 0..100
  <2> DEFINE a == Reports(s)!ProgressScore(x) - 10 * Cardinality(Reports(s)!Blocked(x))
                    - 5 * Cardinality(Reports(s)!Stalled(x))
  <2>1. a \in Int
    BY <1>2, <1>3
  <2>2. Reports(s)!HealthScore(x) = Reports(s)!Clamp(a, 1)
    BY ReportsCardinality DEF Reports!HealthScore
  <2> HIDE DEF a
  <2> QED BY <2>1, <2>2, ClampBounds
<1> QED BY <1>2, <1>3, <1>4

(* The health of two snapshots compares as what it is computed from.       *)
LEMMA ReportsHealth ==
  ASSUME NEW s \in ReportScenes, NEW x, NEW y, ReportsSeen(s, x), ReportsSeen(s, y),
         Reports(s)!ProgressScore(x) <= Reports(s)!ProgressScore(y),
         Reports(s)!Blocked(y) \subseteq Reports(s)!Blocked(x),
         Reports(s)!Stalled(y) \subseteq Reports(s)!Stalled(x)
  PROVE  Reports(s)!HealthScore(x) <= Reports(s)!HealthScore(y)
<1> DEFINE h(z) == Reports(s)!ProgressScore(z) - 10 * Cardinality(Reports(s)!Blocked(z))
                     - 5 * Cardinality(Reports(s)!Stalled(z))
           a == h(x)
           b == h(y)
<1>1. /\ Cardinality(Reports(s)!Blocked(y)) <= Cardinality(Reports(s)!Blocked(x))
      /\ Cardinality(Reports(s)!Stalled(y)) <= Cardinality(Reports(s)!Stalled(x))
  BY ReportsCounted, FS_Subset
<1>2. a \in Int /\ b \in Int /\ a <= b
  BY <1>1, ReportsCounted
<1>3. /\ Reports(s)!HealthScore(x) = Reports(s)!Clamp(a, 1)
      /\ Reports(s)!HealthScore(y) = Reports(s)!Clamp(b, 1)
  BY ReportsCardinality DEF Reports!HealthScore
<1> HIDE DEF a, b
<1> QED BY <1>2, <1>3, ClampGrows

LEMMA ReportsProgress ==
  ASSUME NEW s \in ReportScenes, NEW x, NEW y, ReportsSeen(s, x), ReportsSeen(s, y),
         \A n \in Cast[s].nodes : x.nodes[n].progress <= y.nodes[n].progress
  PROVE  Reports(s)!ProgressScore(x) <= Reports(s)!ProgressScore(y)
<1> DEFINE f == [n \in Cast[s].nodes |-> x.nodes[n].progress]
           g == [n \in Cast[s].nodes |-> y.nodes[n].progress]
<1>1. /\ f \in [Cast[s].nodes -> Nat] /\ g \in [Cast[s].nodes -> Nat]
      /\ \A n \in Cast[s].nodes : f[n] <= g[n]
  <2>1. f \in [Cast[s].nodes -> Nat]
    <3>1. x.nodes \in [Cast[s].nodes -> Reports(s)!WorkflowNode]
      BY DEF ReportsSeen
    <3>2. \A n \in Cast[s].nodes : x.nodes[n].progress \in 0..100
      BY <3>1, ReportsNumbers
    <3> QED BY <3>2
  <2>2. g \in [Cast[s].nodes -> Nat]
    <3>1. y.nodes \in [Cast[s].nodes -> Reports(s)!WorkflowNode]
      BY DEF ReportsSeen
    <3>2. \A n \in Cast[s].nodes : y.nodes[n].progress \in 0..100
      BY <3>1, ReportsNumbers
    <3> QED BY <3>2
  <2>3. \A n \in Cast[s].nodes : f[n] <= g[n]
    OBVIOUS
  <2> QED BY <2>1, <2>2, <2>3
<1>2. /\ Reports(s)!ProgressScore(x) = Reports(s)!Clamp(Reports(s)!Total(f), Cardinality(Cast[s].nodes))
      /\ Reports(s)!ProgressScore(y) = Reports(s)!Clamp(Reports(s)!Total(g), Cardinality(Cast[s].nodes))
  BY ReportsCardinality DEF Reports!ProgressScore
<1> HIDE DEF f, g
<1>3. /\ Reports(s)!Total(f) \in Nat /\ Reports(s)!Total(g) \in Nat
      /\ Reports(s)!Total(f) <= Reports(s)!Total(g)
  BY <1>1, TotalGrows
<1> QED BY <1>2, <1>3, ReportsNodes, ClampGrows

(* The danger of being late: less time and less progress, more danger.     *)
LEMMA ReportsHours ==
  ASSUME NEW s \in ReportScenes, NEW t \in Nat, NEW u \in Nat, t <= u
  PROVE  /\ Reports(s)!HoursRemaining(t) \in Int /\ Reports(s)!HoursRemaining(u) \in Int
         /\ Reports(s)!HoursRemaining(u) <= Reports(s)!HoursRemaining(t)
         /\ t >= Cast[s].due => Reports(s)!HoursRemaining(t) <= 0
  BY ReportsNumbers DEF Reports!HoursRemaining, Reports!Round

LEMMA ReportsDanger ==
  ASSUME NEW s \in ReportScenes, NEW t \in Nat, NEW u \in Nat, t <= u,
         NEW v \in Reports(s)!WorkflowNode, NEW w \in Reports(s)!WorkflowNode,
         Reports(s)!Open(v) <=> Reports(s)!Open(w),
         w.progress <= v.progress, ~Reports(s)!Open(v) => w = v
  PROVE  /\ Reports(s)!BreachProbability(v, t) \in 0..100 /\ Reports(s)!BreachProbability(w, u) \in 0..100
         /\ Reports(s)!BreachProbability(v, t) <= Reports(s)!BreachProbability(w, u)
         /\ Reports(s)!Breached(v, t) => Reports(s)!Breached(w, u)
<1> DEFINE h == Reports(s)!HoursRemaining(t)
           k == Reports(s)!HoursRemaining(u)
           a == (100 - v.progress) * 72
           c == (100 - w.progress) * 72
           b == Reports(s)!Atleast1(h)
           d == Reports(s)!Atleast1(k)
<1>1. h \in Int /\ k \in Int /\ k <= h
  BY ReportsHours
<1>2. v.progress \in 0..100 /\ w.progress \in 0..100
  BY ReportsNumbers
<1> HIDE DEF h, k
<1>3. a \in Int /\ c \in Int /\ 0 <= a /\ a <= c
  BY <1>2
<1>4. b \in Nat \ {0} /\ d \in Nat \ {0} /\ d <= b
  BY <1>1 DEF Reports!Atleast1
<1> HIDE DEF a, b, c, d
<1>5. /\ Reports(s)!Clamp(a, b) \in 0..100 /\ Reports(s)!Clamp(c, d) \in 0..100
      /\ Reports(s)!Clamp(a, b) <= Reports(s)!Clamp(c, d)
  BY <1>3, <1>4, ClampBounds, ClampGrows
<1>6. CASE ~Reports(s)!Open(v)
  <2>1. w = v
    BY <1>6
  <2>2. Reports(s)!BreachProbability(v, t) = IF Reports(s)!CompletedLate(v) THEN 100 ELSE 0
    BY <1>6 DEF Reports!BreachProbability
  <2>3. Reports(s)!BreachProbability(v, u) = IF Reports(s)!CompletedLate(v) THEN 100 ELSE 0
    BY <1>6 DEF Reports!BreachProbability
  <2> QED BY <1>6, <2>1, <2>2, <2>3 DEF Reports!Breached
<1>7. CASE Reports(s)!Open(v)
  <2>1. Reports(s)!Open(w)
    BY <1>7
  <2>2. Reports(s)!BreachProbability(v, t) = IF h <= 0 THEN 100 ELSE Reports(s)!Clamp(a, b)
    BY <1>7 DEF Reports!BreachProbability, a, b, h
  <2>3. Reports(s)!BreachProbability(w, u) = IF k <= 0 THEN 100 ELSE Reports(s)!Clamp(c, d)
    BY <2>1 DEF Reports!BreachProbability, c, d, k
  <2>4. Reports(s)!Breached(v, t) => Reports(s)!Breached(w, u)
    BY <1>1, <1>7, <2>1 DEF Reports!Breached, Reports!CompletedLate, h, k
  <2> QED BY <1>1, <1>5, <2>2, <2>3, <2>4
<1> QED BY <1>6, <1>7

(* What a report tells of the snapshot it was computed from.               *)
LEMMA ReportTells ==
  ASSUME NEW s \in ReportScenes, NEW x
  PROVE  LET r == Reports(s)!Report(x)
         IN /\ r.at = x.at /\ r.nodes = x.nodes /\ r.missing = x.missing /\ r.load = x.load
            /\ r.progressScore = Reports(s)!ProgressScore(x) /\ r.healthScore = Reports(s)!HealthScore(x)
            /\ r.overloaded = Reports(s)!Overloaded(x) /\ r.bottleneck = Reports(s)!Bottleneck(x)
            /\ \A n \in Cast[s].nodes :
                 LET p == Reports(s)!BreachProbability(x.nodes[n], x.at)
                 IN /\ r.sla[n].breachProbability = p
                    /\ r.sla[n].breached = Reports(s)!Breached(x.nodes[n], x.at)
                    /\ r.sla[n].lateCompletionRisk = Reports(s)!LateCompletionRisk(p)
                    /\ r.severity[n] = Reports(s)!Severity(x.missing[n])
                    /\ r.recipient[n] = Reports(s)!Recipient(Reports(s)!Severity(x.missing[n]))
  BY DEF Reports!Report

ReportSnapshot(r) == [at |-> r.at, nodes |-> r.nodes, missing |-> r.missing, load |-> r.load]

LEMMA ReportsInit ==
  ASSUME NEW s \in ReportScenes, Reports(s)!Init PROVE Reports(s)!IInv
<1>1. 0 \in Cast[s].times /\ 0 \in Cast[s].percents
  BY ReportsNumbers
<1> QED BY <1>1 DEF Reports!IInv, Reports!Init, Reports!WorkflowNode, Reports!WorkflowNodeState

LEMMA ReportsPreserve ==
  ASSUME NEW s \in ReportScenes, Reports(s)!IInv,
         Reports(s)!Progress \/ Reports(s)!Burden \/ Reports(s)!Judgement \/ UNCHANGED work
  PROVE  Reports(s)!IInv'
<1> DEFINE x == ReportSnapshot(report)
<1>1. /\ clock \in Cast[s].times /\ node \in [Cast[s].nodes -> Reports(s)!WorkflowNode]
      /\ missing \in [Cast[s].nodes -> Cast[s].counts]
      /\ load \in [duration : [Cast[s].nodes -> Cast[s].hours], capacity : Cast[s].hours, queued : BOOLEAN]
      /\ signals \in [Reports(s)!Signals -> Cast[s].scores]
      /\ \A n \in Cast[s].nodes : node[n].updatedAt <= clock
  BY DEF Reports!IInv
<1>2. report # Reports(s)!NoReport => Reports(s)!Told(x)
  BY DEF Reports!IInv, ReportSnapshot
<1>3. health # Reports(s)!NoHealth =>
        /\ health.signals \in [Reports(s)!Signals -> Cast[s].scores]
        /\ health.score = Reports(s)!Score(health.signals)
  BY DEF Reports!IInv
<1>4. /\ clock \in Nat /\ \A n \in Cast[s].nodes : node[n].updatedAt \in Nat
      /\ report # Reports(s)!NoReport => x.at \in Nat
  BY <1>1, <1>2, ReportsNumbers DEF Reports!Told
<1>5. ASSUME clock' \in Cast[s].times, node' \in [Cast[s].nodes -> Reports(s)!WorkflowNode],
             missing' \in [Cast[s].nodes -> Cast[s].counts], signals' \in [Reports(s)!Signals -> Cast[s].scores],
             UNCHANGED <<load, report, health>>, clock' >= clock,
             \A n \in Cast[s].nodes : node'[n] = node[n] \/ node'[n].updatedAt = clock
      PROVE  Reports(s)!IInv'
  <2>1. clock' \in Nat
    BY <1>5, ReportsNumbers
  <2>2. \A n \in Cast[s].nodes : node'[n].updatedAt <= clock'
    BY <1>1, <1>4, <1>5, <2>1
  <2>3. report # Reports(s)!NoReport => Reports(s)!Told(x)'
    <3> SUFFICES ASSUME report # Reports(s)!NoReport PROVE Reports(s)!Told(x)'
      OBVIOUS
    <3>1. x' = x
      BY <1>5
    <3>2. /\ report = Reports(s)!Report(x) /\ x.at \in Cast[s].times
          /\ x.nodes \in [Cast[s].nodes -> Reports(s)!WorkflowNode]
          /\ x.missing \in [Cast[s].nodes -> Cast[s].counts]
          /\ x.load \in [duration : [Cast[s].nodes -> Cast[s].hours], capacity : Cast[s].hours, queued : BOOLEAN]
          /\ x.at <= clock /\ \A n \in Cast[s].nodes : node[n] = x.nodes[n] \/ node[n].updatedAt >= x.at
      BY <1>2 DEF Reports!Told
    <3>3. x.at \in Nat /\ clock \in Nat /\ clock' \in Nat
      BY <1>4, <2>1
    <3> HIDE DEF x
    <3>4. x.at <= clock' /\ \A n \in Cast[s].nodes : node'[n] = x.nodes[n] \/ node'[n].updatedAt >= x.at
      BY <1>5, <3>2, <3>3
    <3> QED BY <1>5, <3>1, <3>2, <3>4 DEF Reports!Told, Reports!WorkflowNode
  <2> QED BY <1>1, <1>3, <1>5, <2>2, <2>3 DEF Reports!IInv, ReportSnapshot, Reports!WorkflowNode
<1>6. ASSUME UNCHANGED work PROVE Reports(s)!IInv'
  BY <1>1, <1>4, <1>5, <1>6 DEF work
<1>7. ASSUME Reports(s)!Tick PROVE Reports(s)!IInv'
  <2>1. clock' \in Nat /\ clock' > clock
    BY <1>7, ReportsNumbers DEF Reports!Tick
  <2> QED BY <1>1, <1>4, <1>5, <1>7, <2>1 DEF Reports!Tick
<1>8. ASSUME NEW n \in Cast[s].nodes, Reports(s)!Move(n) PROVE Reports(s)!IInv'
  <2>1. /\ node' \in [Cast[s].nodes -> Reports(s)!WorkflowNode] 
        /\ UNCHANGED <<clock, missing, load, signals, report, health>>
        /\ \A m \in Cast[s].nodes : node'[m] = node[m] \/ node'[m].updatedAt = clock
    BY <1>1, <1>8 DEF Reports!Move
  <2> QED BY <1>1, <1>4, <1>5, <2>1
<1>9. ASSUME NEW n \in Cast[s].nodes, Reports(s)!Lose(n) PROVE Reports(s)!IInv'
  <2>1. missing' \in [Cast[s].nodes -> Cast[s].counts] /\ UNCHANGED <<clock, node, load, signals, report, health>>
    BY <1>1, <1>9 DEF Reports!Lose
  <2> QED BY <1>1, <1>4, <1>5, <2>1
<1>10. ASSUME NEW t \in Reports(s)!Signals, Reports(s)!Signal(t) PROVE Reports(s)!IInv'
  <2>1. signals' \in [Reports(s)!Signals -> Cast[s].scores] /\ UNCHANGED <<clock, node, missing, load, report, health>>
    BY <1>1, <1>10 DEF Reports!Signal
  <2> QED BY <1>1, <1>4, <1>5, <2>1
<1>11. ASSUME Reports(s)!Analyze PROVE Reports(s)!IInv'
  <2> DEFINE y == Reports(s)!Snapshot
  <2>1. report' = Reports(s)!Report(y) /\ UNCHANGED <<clock, node, missing, load, signals, health>>
    BY <1>11 DEF Reports!Analyze
  <2>2. y = [at |-> clock, nodes |-> node, missing |-> missing, load |-> load]
    BY DEF Reports!Snapshot
  <2> HIDE DEF y
  <2>3. ReportSnapshot(report') = y
    BY <2>1, <2>2, ReportTells DEF ReportSnapshot
  <2>4. clock <= clock /\ \A n \in Cast[s].nodes : node[n] = node[n]
    BY <1>4
  <2>5. Reports(s)!Told(ReportSnapshot(report))'
    <3>1. /\ y.at = clock /\ y.nodes = node /\ y.missing = missing /\ y.load = load
      BY <2>2
    <3>2. /\ report' = Reports(s)!Report(y)
          /\ y.at \in Cast[s].times /\ y.nodes \in [Cast[s].nodes -> Reports(s)!WorkflowNode]
          /\ y.missing \in [Cast[s].nodes -> Cast[s].counts]
          /\ y.load \in [duration : [Cast[s].nodes -> Cast[s].hours], capacity : Cast[s].hours, queued : BOOLEAN]
          /\ y.at <= clock' /\ \A n \in Cast[s].nodes : node'[n] = y.nodes[n] \/ node'[n].updatedAt >= y.at
      BY <1>1, <2>1, <2>4, <3>1
    <3>3. ReportSnapshot(report)' = y
      BY <2>3 DEF ReportSnapshot
    <3> QED BY <3>2, <3>3 DEF Reports!Told, Reports!WorkflowNode
  <2> QED BY <1>1, <1>3, <2>1, <2>5 DEF Reports!IInv, ReportSnapshot, Reports!WorkflowNode
<1>12. ASSUME Reports(s)!Compute PROVE Reports(s)!IInv'
  <2>1. /\ health'.signals = signals /\ health'.score = Reports(s)!Score(signals)
        /\ UNCHANGED <<clock, node, missing, load, signals, report>>
    BY <1>12 DEF Reports!Compute
  <2>2. report # Reports(s)!NoReport => Reports(s)!Told(x)'
    BY <1>2, <2>1 DEF Reports!Told, ReportSnapshot, Reports!WorkflowNode
  <2> QED BY <1>1, <2>1, <2>2 DEF Reports!IInv, ReportSnapshot, Reports!WorkflowNode
<1> QED BY <1>6, <1>7, <1>8, <1>9, <1>10, <1>11, <1>12
        DEF Reports!Progress, Reports!Burden, Reports!Judgement

(* Whatever is late has a probability of breach of 100, the highest risk.  *)
LEMMA ReportsLate ==
  ASSUME NEW s \in ReportScenes, NEW row, NEW t \in Nat,
         IF row.state = "COMPLETED" THEN row.updatedAt > Cast[s].due ELSE t >= Cast[s].due
  PROVE  Reports(s)!Breached(row, t) /\ Reports(s)!BreachProbability(row, t) = 100
<1>1. CASE row.state = "COMPLETED"
  BY <1>1 DEF Reports!Breached, Reports!BreachProbability, Reports!CompletedLate, Reports!Open
<1>2. CASE row.state # "COMPLETED"
  <2>1. Reports(s)!Open(row) /\ Reports(s)!HoursRemaining(t) <= 0
    BY <1>2, ReportsHours DEF Reports!Open
  <2> QED BY <2>1 DEF Reports!Breached, Reports!BreachProbability
<1> QED BY <1>1, <1>2

(* An owner is overloaded by one node, or used beyond what he can do, only *)
(* if all that is assigned to him is more than he can do.                  *)
LEMMA ReportsAlarm ==
  ASSUME NEW s \in ReportScenes, NEW x, ReportsSeen(s, x),
         Reports(s)!Overloaded(x) \/ (Reports(s)!Bottleneck(x) /\ ~x.load.queued)
  PROVE  Reports(s)!Assigned(x) > x.load.capacity
<1> DEFINE a == Reports(s)!Assigned(x)
           c == x.load.capacity
<1>1. x.load.duration \in [Cast[s].nodes -> Nat] /\ c \in Nat
  BY ReportsNumbers DEF ReportsSeen
<1>2. a \in Nat
  BY <1>1, TotalGrows DEF Reports!Assigned
<1>3. CASE Reports(s)!Overloaded(x)
  <2>1. PICK n \in Cast[s].nodes : x.load.duration[n] > c
    BY <1>3 DEF Reports!Overloaded
  <2>2. x.load.duration[n] <= a /\ x.load.duration[n] \in Nat
    BY <1>1, TotalOfOne DEF Reports!Assigned
  <2> QED BY <1>1, <1>2, <2>1, <2>2
<1>4. CASE Reports(s)!Bottleneck(x) /\ ~x.load.queued
  <2>1. Reports(s)!Utilization(x) > 100
    BY <1>4 DEF Reports!Bottleneck
  <2>2. Reports(s)!Utilization(x) = IF c > 0 THEN Reports(s)!Round(100 * a, c) ELSE IF a > 0 THEN 100 ELSE 0
    BY <1>1 DEF Reports!Utilization
  <2> HIDE DEF a, c
  <2>3. c \in Nat \ {0} /\ Reports(s)!Round(100 * a, c) > 100
    BY <1>1, <1>2, <2>1, <2>2
  <2>4. CASE a <= c
    <3>1. Reports(s)!Round(100 * a, c) <= Reports(s)!Round(100 * c, c)
      <4>1. 100 * a \in Int /\ 100 * c \in Int /\ 100 * a <= 100 * c /\ c <= c
        BY <1>2, <2>3, <2>4
      <4> QED BY <2>3, <4>1, RoundGrows
    <3>2. Reports(s)!Round(100 * c, c) <= 100
      <4> DEFINE q == Reports(s)!Round(100 * c, c)
      <4>1. q \in Int /\ (2 * c) * q <= 2 * (100 * c) + c
        BY <2>3, RoundBounds
      <4> HIDE DEF q
      <4>2. (2 * c) * q < (2 * c) * 100 + 2 * c
        <5>1. (2 * c) * q \in Int
          BY <2>3, <4>1
        <5> QED BY <2>3, <4>1, <5>1
      <4>3. 2 * c \in Nat \ {0}
        BY <2>3
      <4>4. q <= 100
        BY <4>1, <4>2, <4>3, QuotientGrows
      <4> QED BY <4>4 DEF q
    <3>3. Reports(s)!Round(100 * a, c) \in Int /\ Reports(s)!Round(100 * c, c) \in Int
      <4>1. 100 * a \in Int /\ 100 * c \in Int
        BY <1>2, <2>3
      <4> QED BY <2>3, <4>1, RoundBounds
    <3> QED BY <2>3, <3>1, <3>2, <3>3
  <2>5. CASE a > c
    BY <2>5 DEF a, c
  <2> QED BY <1>2, <2>3, <2>4, <2>5
<1> QED BY <1>3, <1>4 DEF Reports!Bottleneck

LEMMA ReportsSeverity ==
  ASSUME NEW s \in ReportScenes, NEW j \in Nat, NEW k \in Nat, j <= k
  PROVE  /\ Reports(s)!Severity(j) \in 0..100 /\ Reports(s)!Severity(k) \in 0..100
         /\ Reports(s)!Severity(j) <= Reports(s)!Severity(k)
<1>1. 15 * j \in Int /\ 15 * k \in Int /\ 15 * j <= 15 * k
  OBVIOUS
<1> QED BY <1>1, ClampBounds, ClampGrows DEF Reports!Severity

(* The health score: better signals, a better score.                       *)
LEMMA ReportsScore ==
  ASSUME NEW s \in ReportScenes,
         NEW t \in [Reports(s)!Signals -> Cast[s].scores], NEW u \in [Reports(s)!Signals -> Cast[s].scores]
  PROVE  /\ Reports(s)!Score(t) \in 0..100
         /\ (\A g \in Reports(s)!Signals : Reports(s)!Worth(u, g) >= Reports(s)!Worth(t, g))
              => Reports(s)!Score(u) >= Reports(s)!Score(t)
         /\ (\A g \in Reports(s)!Signals : Reports(s)!Worth(t, g) = 100) => Reports(s)!Score(t) = 100
<1> DEFINE W(z, g) == Reports(s)!Worth(z, g)
           A(z) == 4 * (W(z, "milestoneCompletion") + W(z, "dodCompliance"))
                     + 3 * (W(z, "evidenceQuality") + W(z, "validationStatus"))
                     + 2 * (W(z, "approvalVelocity") + W(z, "settlementReadiness") + W(z, "executionRisk"))
           a == A(t)
           b == A(u)
<1>1. Reports(s)!Score(t) = Reports(s)!Clamp(a, 20) /\ Reports(s)!Score(u) = Reports(s)!Clamp(b, 20)
  BY DEF Reports!Score
<1>2. \A g \in Reports(s)!Signals : t[g] \in 0..100 /\ u[g] \in 0..100
  BY ReportsNumbers
<1>3. \A g \in Reports(s)!Signals : W(t, g) \in 0..100 /\ W(u, g) \in 0..100
  BY <1>2 DEF Reports!Worth
<1>4. Reports(s)!Signals = {"milestoneCompletion", "dodCompliance", "evidenceQuality", "validationStatus",
                            "approvalVelocity", "settlementReadiness", "executionRisk"}
  BY DEF Reports!Signals
<1> HIDE DEF W
<1>5. a \in Int /\ b \in Int
  <2>1. \A g \in Reports(s)!Signals : W(t, g) \in Int /\ W(u, g) \in Int
    BY <1>3
  <2>2. /\ W(t, "milestoneCompletion") \in Int
        /\ W(t, "dodCompliance") \in Int
        /\ W(t, "evidenceQuality") \in Int
        /\ W(t, "validationStatus") \in Int
        /\ W(t, "approvalVelocity") \in Int
        /\ W(t, "settlementReadiness") \in Int
        /\ W(t, "executionRisk") \in Int
    BY <2>1, <1>4
  <2>3. /\ W(u, "milestoneCompletion") \in Int
        /\ W(u, "dodCompliance") \in Int
        /\ W(u, "evidenceQuality") \in Int
        /\ W(u, "validationStatus") \in Int
        /\ W(u, "approvalVelocity") \in Int
        /\ W(u, "settlementReadiness") \in Int
        /\ W(u, "executionRisk") \in Int
    BY <2>1, <1>4
  <2> QED BY <2>2, <2>3
<1>6. (\A g \in Reports(s)!Signals : W(u, g) >= W(t, g)) => a <= b
  <2> SUFFICES ASSUME \A g \in Reports(s)!Signals : W(u, g) >= W(t, g) PROVE a <= b
    OBVIOUS
  <2>1. \A g \in Reports(s)!Signals : W(t, g) \in Int /\ W(u, g) \in Int /\ W(t, g) <= W(u, g)
    BY <1>3
  <2>2. /\ W(t, "milestoneCompletion") \in Int /\ W(u, "milestoneCompletion") \in Int /\ W(t, "milestoneCompletion") <= W(u, "milestoneCompletion")
        /\ W(t, "dodCompliance") \in Int /\ W(u, "dodCompliance") \in Int /\ W(t, "dodCompliance") <= W(u, "dodCompliance")
        /\ W(t, "evidenceQuality") \in Int /\ W(u, "evidenceQuality") \in Int /\ W(t, "evidenceQuality") <= W(u, "evidenceQuality")
        /\ W(t, "validationStatus") \in Int /\ W(u, "validationStatus") \in Int /\ W(t, "validationStatus") <= W(u, "validationStatus")
        /\ W(t, "approvalVelocity") \in Int /\ W(u, "approvalVelocity") \in Int /\ W(t, "approvalVelocity") <= W(u, "approvalVelocity")
        /\ W(t, "settlementReadiness") \in Int /\ W(u, "settlementReadiness") \in Int /\ W(t, "settlementReadiness") <= W(u, "settlementReadiness")
        /\ W(t, "executionRisk") \in Int /\ W(u, "executionRisk") \in Int /\ W(t, "executionRisk") <= W(u, "executionRisk")
    BY <2>1, <1>4
  <2> QED BY <2>2
<1>7. (\A g \in Reports(s)!Signals : W(t, g) = 100) => a = 2000
  BY <1>4
<1> HIDE DEF a, b
<1>8. Reports(s)!Clamp(a, 20) \in 0..100 /\ Reports(s)!Clamp(b, 20) \in 0..100
  BY <1>5, ClampBounds
<1>9. a <= b => Reports(s)!Clamp(a, 20) <= Reports(s)!Clamp(b, 20)
  BY <1>5, ClampGrows
<1>10. Reports(s)!Clamp(2000, 20) = 100
  BY DEF Reports!Clamp, Reports!Round
<1> QED BY <1>1, <1>6, <1>7, <1>8, <1>9, <1>10 DEF W

(* What a report tells is within its scales, and its alarms are true.      *)
LEMMA ReportsPromises ==
  ASSUME NEW s \in ReportScenes, Reports(s)!IInv
  PROVE  Reports(s)!TypeOK /\ Reports(s)!LateIsReported /\ Reports(s)!AlarmsAreTrue
<1> DEFINE x == ReportSnapshot(report)
<1>1. ASSUME report # Reports(s)!NoReport
      PROVE  report = Reports(s)!Report(x) /\ ReportsSeen(s, x)
  BY <1>1 DEF Reports!IInv, Reports!Told, ReportSnapshot, ReportsSeen
<1>2. x.at = report.at /\ x.nodes = report.nodes /\ x.missing = report.missing /\ x.load = report.load
  BY DEF ReportSnapshot
<1> HIDE DEF x
<1>3. Reports(s)!LateIsReported
  <2> SUFFICES ASSUME report # Reports(s)!NoReport, NEW n \in Cast[s].nodes,
                      IF x.nodes[n].state = "COMPLETED" THEN x.nodes[n].updatedAt > Cast[s].due
                      ELSE x.at >= Cast[s].due
               PROVE  report.sla[n].breached /\ report.sla[n].lateCompletionRisk = "HIGH"
    BY <1>2 DEF Reports!LateIsReported
  <2>1. x.at \in Nat
    BY <1>1, ReportsNumbers DEF ReportsSeen
  <2>2. Reports(s)!Breached(x.nodes[n], x.at) /\ Reports(s)!BreachProbability(x.nodes[n], x.at) = 100
    BY <2>1, ReportsLate
  <2>3. Reports(s)!LateCompletionRisk(100) = "HIGH"
    BY DEF Reports!LateCompletionRisk
  <2> QED BY <1>1, <2>2, <2>3, ReportTells
<1>4. Reports(s)!AlarmsAreTrue
  <2> SUFFICES ASSUME report # Reports(s)!NoReport,
                      report.overloaded \/ (report.bottleneck /\ ~report.load.queued)
               PROVE  Reports(s)!Assigned(report) > report.load.capacity
    BY DEF Reports!AlarmsAreTrue
  <2>1. Reports(s)!Overloaded(x) \/ (Reports(s)!Bottleneck(x) /\ ~x.load.queued)
    BY <1>1, <1>2, ReportTells
  <2>2. Reports(s)!Assigned(x) = Reports(s)!Assigned(report)
    BY <1>2 DEF Reports!Assigned
  <2> QED BY <1>1, <1>2, <2>1, <2>2, ReportsAlarm
<1>5. Reports(s)!TypeOK
  <2>1. report # Reports(s)!NoReport =>
          /\ {report.progressScore, report.healthScore} \subseteq 0..100
          /\ \A n \in Cast[s].nodes : {report.sla[n].breachProbability, report.severity[n]} \subseteq 0..100
    <3> SUFFICES ASSUME report # Reports(s)!NoReport
                 PROVE  /\ report.progressScore \in 0..100 /\ report.healthScore \in 0..100
                        /\ \A n \in Cast[s].nodes :
                             report.sla[n].breachProbability \in 0..100 /\ report.severity[n] \in 0..100
      OBVIOUS
    <3>1. report.progressScore \in 0..100 /\ report.healthScore \in 0..100
      BY <1>1, ReportTells, ReportsCounted
    <3>2. ASSUME NEW n \in Cast[s].nodes
          PROVE  report.sla[n].breachProbability \in 0..100 /\ report.severity[n] \in 0..100
      <4>1. x.at \in Nat /\ x.nodes[n] \in Reports(s)!WorkflowNode /\ x.missing[n] \in Nat
        BY <1>1, ReportsNumbers DEF ReportsSeen
      <4>2. x.at <= x.at /\ x.missing[n] <= x.missing[n] /\ x.nodes[n].progress <= x.nodes[n].progress
        BY <4>1, ReportsNumbers
      <4>3. Reports(s)!BreachProbability(x.nodes[n], x.at) \in 0..100
        BY <4>1, <4>2, ReportsDanger
      <4>4. Reports(s)!Severity(x.missing[n]) \in 0..100
        BY <4>1, <4>2, ReportsSeverity
      <4> QED BY <1>1, <4>3, <4>4, ReportTells
    <3> QED BY <3>1, <3>2
  <2>2. health # Reports(s)!NoHealth => health.score \in 0..100
    BY ReportsScore DEF Reports!IInv
  <2> QED BY <2>1, <2>2 DEF Reports!TypeOK, Reports!IInv
<1> QED BY <1>3, <1>4, <1>5

(* Of two snapshots in a row the later shows a node as the earlier did, or *)
(* moved since.                                                            *)
ReportsFollow(s, x, y) ==
  /\ ReportsSeen(s, x) /\ ReportsSeen(s, y) /\ x.at <= y.at
  /\ \A n \in Cast[s].nodes :
       y.nodes[n] = x.nodes[n] \/ (x.at <= y.nodes[n].updatedAt /\ y.nodes[n].updatedAt <= y.at)

LEMMA ReportsInARow ==
  ASSUME NEW s \in ReportScenes, Reports(s)!IInv, report # Reports(s)!NoReport,
         Reports(s)!Progress \/ Reports(s)!Burden \/ Reports(s)!Judgement \/ UNCHANGED work
  PROVE  \E x, y : /\ ReportsFollow(s, x, y)
                   /\ report = Reports(s)!Report(x) /\ report' = Reports(s)!Report(y)
<1> DEFINE x == ReportSnapshot(report)
           y == Reports(s)!Snapshot
<1>1. Reports(s)!Told(x)
  BY DEF Reports!IInv, ReportSnapshot
<1>2. /\ ReportsSeen(s, x) /\ report = Reports(s)!Report(x) /\ x.at <= clock
      /\ \A n \in Cast[s].nodes : node[n] = x.nodes[n] \/ x.at <= node[n].updatedAt
  <2>1. \A n \in Cast[s].nodes : node[n].updatedAt \in Nat
    BY ReportsNumbers DEF Reports!IInv
  <2>2. x.at \in Nat
    BY <1>1, ReportsNumbers DEF Reports!Told
  <2> HIDE DEF x
  <2> QED BY <1>1, <2>1, <2>2 DEF Reports!Told, ReportsSeen
<1>3. /\ y.at = clock /\ y.nodes = node /\ ReportsSeen(s, y)
      /\ \A n \in Cast[s].nodes : node[n].updatedAt <= clock
  BY DEF Reports!IInv, Reports!Snapshot, ReportsSeen
<1>4. x.at <= x.at
  BY <1>2, ReportsNumbers DEF ReportsSeen
<1> HIDE DEF x, y
<1>5. ReportsFollow(s, x, x) /\ ReportsFollow(s, x, y)
  BY <1>2, <1>3, <1>4 DEF ReportsFollow
<1>6. report' = report \/ report' = Reports(s)!Report(y)
  BY DEF Reports!Progress, Reports!Burden, Reports!Judgement, Reports!Tick, Reports!Move, Reports!Lose,
     Reports!Signal, Reports!Analyze, Reports!Compute, work, y
<1> QED BY <1>2, <1>5, <1>6

LEMMA ReportsWaiting ==
  ASSUME NEW s \in ReportScenes, NEW x, NEW y, ReportsFollow(s, x, y), y.nodes = x.nodes
  PROVE  /\ Reports(s)!HealthScore(y) <= Reports(s)!HealthScore(x)
         /\ \A n \in Cast[s].nodes :
              /\ Reports(s)!BreachProbability(x.nodes[n], x.at) <= Reports(s)!BreachProbability(y.nodes[n], y.at)
              /\ Reports(s)!Breached(x.nodes[n], x.at) => Reports(s)!Breached(y.nodes[n], y.at)
<1>1. /\ ReportsSeen(s, x) /\ ReportsSeen(s, y) /\ x.at <= y.at
      /\ x.at \in Nat /\ y.at \in Nat /\ Cast[s].stalledAfter \in Nat
  BY ReportsNumbers DEF ReportsFollow, ReportsSeen
<1>2. \A n \in Cast[s].nodes :
        x.nodes[n] \in Reports(s)!WorkflowNode /\ x.nodes[n].progress \in Nat /\ x.nodes[n].updatedAt \in Nat
  <2>1. \A n \in Cast[s].nodes : x.nodes[n] \in Reports(s)!WorkflowNode
    BY <1>1 DEF ReportsSeen
  <2> QED BY <2>1, ReportsNumbers
<1>3. Reports(s)!ProgressScore(y) <= Reports(s)!ProgressScore(x)
  <2>1. \A n \in Cast[s].nodes : y.nodes[n].progress <= x.nodes[n].progress
    BY <1>2
  <2> QED BY <1>1, <2>1, ReportsProgress
<1>4. Reports(s)!Blocked(x) \subseteq Reports(s)!Blocked(y)
  BY DEF Reports!Blocked
<1>5. Reports(s)!Stalled(x) \subseteq Reports(s)!Stalled(y)
  <2> SUFFICES ASSUME NEW n \in Cast[s].nodes, x.nodes[n].state = "IN_PROGRESS",
                      x.at - x.nodes[n].updatedAt > Cast[s].stalledAfter
               PROVE  y.nodes[n].state = "IN_PROGRESS" /\ y.at - y.nodes[n].updatedAt > Cast[s].stalledAfter
    BY DEF Reports!Stalled
  <2>1. x.nodes[n].updatedAt \in Nat /\ y.nodes[n] = x.nodes[n]
    BY <1>2
  <2> QED BY <1>1, <2>1
<1>6. Reports(s)!HealthScore(y) <= Reports(s)!HealthScore(x)
  BY <1>1, <1>3, <1>4, <1>5, ReportsHealth
<1>7. ASSUME NEW n \in Cast[s].nodes
      PROVE  /\ Reports(s)!BreachProbability(x.nodes[n], x.at) <= Reports(s)!BreachProbability(y.nodes[n], y.at)
             /\ Reports(s)!Breached(x.nodes[n], x.at) => Reports(s)!Breached(y.nodes[n], y.at)
  <2>1. y.nodes[n] = x.nodes[n] /\ x.nodes[n].progress <= x.nodes[n].progress
    BY <1>2
  <2> QED BY <1>1, <1>2, <2>1, ReportsDanger
<1> QED BY <1>6, <1>7

(* A node that moved at the time of the earlier of two snapshots of one    *)
(* time is not stalled, and is done late only if it was late already.      *)
LEMMA ReportsProgressed ==
  ASSUME NEW s \in ReportScenes, NEW x, NEW y, ReportsFollow(s, x, y), y.at = x.at,
         \A n \in Cast[s].nodes :
           /\ y.nodes[n].progress >= x.nodes[n].progress
           /\ Reports(s)!Hindered(y.nodes[n]) => Reports(s)!Hindered(x.nodes[n])
           /\ x.nodes[n].state = "COMPLETED" => y.nodes[n] = x.nodes[n]
  PROVE  /\ Reports(s)!HealthScore(x) <= Reports(s)!HealthScore(y)
         /\ \A n \in Cast[s].nodes :
              Reports(s)!BreachProbability(y.nodes[n], y.at) <= Reports(s)!BreachProbability(x.nodes[n], x.at)
<1>1. /\ ReportsSeen(s, x) /\ ReportsSeen(s, y) /\ x.at \in Nat /\ y.at \in Nat
      /\ Cast[s].stalledAfter \in Nat /\ Cast[s].due \in Nat
      /\ \A n \in Cast[s].nodes :
           y.nodes[n] = x.nodes[n] \/ (x.at <= y.nodes[n].updatedAt /\ y.nodes[n].updatedAt <= y.at)
  BY ReportsNumbers DEF ReportsFollow, ReportsSeen
<1>2. \A n \in Cast[s].nodes : x.nodes[n] \in Reports(s)!WorkflowNode /\ y.nodes[n] \in Reports(s)!WorkflowNode
  BY <1>1 DEF ReportsSeen
<1>3. \A n \in Cast[s].nodes :
        /\ x.nodes[n].progress \in Nat /\ x.nodes[n].updatedAt \in Nat
        /\ y.nodes[n].progress \in Nat /\ y.nodes[n].updatedAt \in Nat
  BY <1>2, ReportsNumbers
<1>4. Reports(s)!ProgressScore(x) <= Reports(s)!ProgressScore(y)
  <2>1. \A n \in Cast[s].nodes : x.nodes[n].progress <= y.nodes[n].progress
    BY <1>3
  <2> QED BY <1>1, <2>1, ReportsProgress
<1>5. Reports(s)!Blocked(y) \subseteq Reports(s)!Blocked(x)
  BY DEF Reports!Blocked
<1>6. Reports(s)!Stalled(y) \subseteq Reports(s)!Stalled(x)
  <2> SUFFICES ASSUME NEW n \in Cast[s].nodes, y.nodes[n].state = "IN_PROGRESS",
                      y.at - y.nodes[n].updatedAt > Cast[s].stalledAfter
               PROVE  x.nodes[n].state = "IN_PROGRESS" /\ x.at - x.nodes[n].updatedAt > Cast[s].stalledAfter
    BY DEF Reports!Stalled
  <2>1. y.nodes[n].updatedAt \in Nat
    BY <1>3
  <2>2. y.nodes[n].updatedAt < x.at
    BY <1>1, <2>1
  <2>3. y.nodes[n] = x.nodes[n]
    BY <1>1, <2>1, <2>2
  <2> QED BY <2>3
<1>7. Reports(s)!HealthScore(x) <= Reports(s)!HealthScore(y)
  BY <1>1, <1>4, <1>5, <1>6, ReportsHealth
<1>8. ASSUME NEW n \in Cast[s].nodes
      PROVE  Reports(s)!BreachProbability(y.nodes[n], y.at) <= Reports(s)!BreachProbability(x.nodes[n], x.at)
  <2> DEFINE v == y.nodes[n]
             w == x.nodes[n]
  <2>1. /\ v \in Reports(s)!WorkflowNode /\ w \in Reports(s)!WorkflowNode /\ w.progress <= v.progress
        /\ w.progress <= w.progress /\ y.at <= x.at /\ x.at <= x.at
        /\ ~Reports(s)!Open(w) => v = w
    BY <1>1, <1>2, <1>3 DEF Reports!Open
  <2>2. Reports(s)!BreachProbability(w, x.at) \in 0..100
    BY <1>1, <2>1, ReportsDanger
  <2>3. CASE Reports(s)!Open(v) <=> Reports(s)!Open(w)
    BY <1>1, <2>1, <2>3, ReportsDanger
  <2>4. CASE ~Reports(s)!Open(v) /\ Reports(s)!Open(w)
    <3>1. Reports(s)!BreachProbability(v, y.at) = IF Reports(s)!CompletedLate(v) THEN 100 ELSE 0
      BY <2>4 DEF Reports!BreachProbability
    <3>2. CASE Reports(s)!CompletedLate(v)
      <4>1. v # w
        BY <2>4
      <4>2. v.updatedAt <= x.at /\ v.updatedAt > Cast[s].due /\ v.updatedAt \in Nat
        BY <1>1, <1>3, <3>2, <4>1 DEF Reports!CompletedLate
      <4>3. x.at >= Cast[s].due /\ w.state # "COMPLETED"
        BY <1>1, <2>4, <4>2 DEF Reports!Open
      <4>4. Reports(s)!BreachProbability(w, x.at) = 100
        BY <1>1, <4>3, ReportsLate
      <4> QED BY <3>1, <3>2, <4>4
    <3> QED BY <2>2, <3>1, <3>2
  <2> QED BY <2>1, <2>3, <2>4
<1> QED BY <1>7, <1>8

(* Of two reports in a row, and of two scores.                             *)
LEMMA ReportsCompare ==
  ASSUME NEW s \in ReportScenes, Reports(s)!IInv,
         Reports(s)!Progress \/ Reports(s)!Burden \/ Reports(s)!Judgement \/ UNCHANGED work
  PROVE  /\ Reports(s)!WaitingNeverHelps /\ Reports(s)!ProgressHelps
         /\ Reports(s)!GraverGoesHigher /\ Reports(s)!BetterScoresHigher
<1>1. ASSUME report # Reports(s)!NoReport
      PROVE  /\ Reports(s)!WaitingNeverHelps /\ Reports(s)!ProgressHelps /\ Reports(s)!GraverGoesHigher
  <2>1. PICK x, y : /\ ReportsFollow(s, x, y)
                    /\ report = Reports(s)!Report(x) /\ report' = Reports(s)!Report(y)
    BY <1>1, ReportsInARow
  <2>2. Reports(s)!WaitingNeverHelps
    <3> SUFFICES ASSUME report'.nodes = report.nodes
                 PROVE  /\ report'.healthScore <= report.healthScore
                        /\ \A n \in Cast[s].nodes :
                             /\ report'.sla[n].breachProbability >= report.sla[n].breachProbability
                             /\ report.sla[n].breached => report'.sla[n].breached
      BY DEF Reports!WaitingNeverHelps
    <3>1. y.nodes = x.nodes
      BY <2>1, ReportTells
    <3>2. /\ Reports(s)!HealthScore(y) <= Reports(s)!HealthScore(x)
          /\ \A n \in Cast[s].nodes :
               /\ Reports(s)!BreachProbability(x.nodes[n], x.at) <= Reports(s)!BreachProbability(y.nodes[n], y.at)
               /\ Reports(s)!Breached(x.nodes[n], x.at) => Reports(s)!Breached(y.nodes[n], y.at)
      BY <2>1, <3>1, ReportsWaiting
    <3> QED BY <2>1, <3>2, ReportTells
  <2>3. Reports(s)!ProgressHelps
    <3> SUFFICES ASSUME report'.at = report.at,
                        \A n \in Cast[s].nodes :
                          /\ report'.nodes[n].progress >= report.nodes[n].progress
                          /\ Reports(s)!Hindered(report'.nodes[n]) => Reports(s)!Hindered(report.nodes[n])
                          /\ report.nodes[n].state = "COMPLETED" => report'.nodes[n] = report.nodes[n]
                 PROVE  /\ report'.healthScore >= report.healthScore
                        /\ \A n \in Cast[s].nodes :
                             report'.sla[n].breachProbability <= report.sla[n].breachProbability
      BY DEF Reports!ProgressHelps
    <3>1. report.at = x.at /\ report'.at = y.at /\ report.nodes = x.nodes /\ report'.nodes = y.nodes
      BY <2>1, ReportTells
    <3>2. /\ Reports(s)!HealthScore(x) <= Reports(s)!HealthScore(y)
          /\ \A n \in Cast[s].nodes :
               Reports(s)!BreachProbability(y.nodes[n], y.at) <= Reports(s)!BreachProbability(x.nodes[n], x.at)
      BY <2>1, <3>1, ReportsProgressed
    <3> QED BY <2>1, <3>2, ReportTells
  <2>4. Reports(s)!GraverGoesHigher
    <3> SUFFICES ASSUME NEW n \in Cast[s].nodes, report'.missing[n] >= report.missing[n]
                 PROVE  Reports(s)!Height(report'.recipient[n]) >= Reports(s)!Height(report.recipient[n])
      BY DEF Reports!GraverGoesHigher
    <3> DEFINE j == x.missing[n]
               k == y.missing[n]
    <3>1. j = report.missing[n] /\ k = report'.missing[n]
      BY <2>1, ReportTells
    <3>2. j \in Nat /\ k \in Nat
      BY <2>1, ReportsNumbers DEF ReportsFollow, ReportsSeen
    <3> HIDE DEF j, k
    <3>3. /\ Reports(s)!Severity(j) \in 0..100 /\ Reports(s)!Severity(k) \in 0..100
          /\ Reports(s)!Severity(j) <= Reports(s)!Severity(k)
      BY <3>1, <3>2, ReportsSeverity
    <3>4. Reports(s)!Height(Reports(s)!Recipient(Reports(s)!Severity(k)))
            >= Reports(s)!Height(Reports(s)!Recipient(Reports(s)!Severity(j)))
      BY <3>3 DEF Reports!Height, Reports!Recipient
    <3> QED BY <2>1, <3>4, ReportTells DEF j, k
  <2> QED BY <2>2, <2>3, <2>4
<1>2. ASSUME report = Reports(s)!NoReport
      PROVE  /\ Reports(s)!WaitingNeverHelps /\ Reports(s)!ProgressHelps /\ Reports(s)!GraverGoesHigher
  BY <1>2 DEF Reports!WaitingNeverHelps, Reports!ProgressHelps, Reports!GraverGoesHigher
<1>3. Reports(s)!BetterScoresHigher
  <2> SUFFICES ASSUME health # Reports(s)!NoHealth
               PROVE  /\ (\A g \in Reports(s)!Signals :
                            Reports(s)!Worth(health'.signals, g) >= Reports(s)!Worth(health.signals, g))
                           => health'.score >= health.score
                      /\ (\A g \in Reports(s)!Signals : Reports(s)!Worth(health'.signals, g) = 100)
                           => health'.score = 100
    BY DEF Reports!BetterScoresHigher
  <2>1. /\ health.signals \in [Reports(s)!Signals -> Cast[s].scores]
        /\ health.score = Reports(s)!Score(health.signals)
        /\ signals \in [Reports(s)!Signals -> Cast[s].scores]
    BY DEF Reports!IInv
  <2>2. health' = health \/ (health'.signals = signals /\ health'.score = Reports(s)!Score(signals))
    BY DEF Reports!Progress, Reports!Burden, Reports!Judgement, Reports!Tick, Reports!Move, Reports!Lose,
       Reports!Signal, Reports!Analyze, Reports!Compute, work
  <2>3. /\ health'.signals \in [Reports(s)!Signals -> Cast[s].scores]
        /\ health'.score = Reports(s)!Score(health'.signals)
    BY <2>1, <2>2
  <2> QED BY <2>1, <2>3, ReportsScore
<1> QED BY <1>1, <1>2, <1>3
=============================================================================
