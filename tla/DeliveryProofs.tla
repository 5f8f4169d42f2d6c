---------------------------- MODULE DeliveryProofs ----------------------------
(***************************************************************************)
(* What Delivery promises, proved of any cast: any number of requests that *)
(* race, come in turn or die, of rows, milestones, people and amounts.     *)
(* Each engine has an inductive invariant of its own (IInv in its module), *)
(* which says of every request that what it is about to write is true      *)
(* still, and a second one (SerialInv) for requests that come in turn.     *)
(***************************************************************************)
EXTENDS Delivery, DocumentProofs, TLAPS

----------------------------------------------------------------------------
(* What shares add up to, counted by units: with n more, at most n more.   *)
LEMMA UnitsGrow ==
  ASSUME NEW U, IsFiniteSet(U), NEW x, NEW n \in Nat, NEW V, V \subseteq U \cup ({x} \X (1..n))
  PROVE  IsFiniteSet(V) /\ Cardinality(V) \in Nat /\ Cardinality(U) \in Nat
         /\ Cardinality(V) <= Cardinality(U) + n
<1> DEFINE P == {x} \X (1..n)
<1>1. IsFiniteSet({x}) /\ Cardinality({x}) = 1 /\ IsFiniteSet(1..n) /\ Cardinality(1..n) = n
  <2>1. IsFiniteSet(1..n) /\ Cardinality(1..n) = IF 1 > n THEN 0 ELSE n - 1 + 1
    BY FS_Interval
  <2>2. Cardinality(1..n) = n
    <3>1. CASE n = 0
      BY <2>1, <3>1
    <3>2. CASE n # 0
      <4>1. ~(1 > n) /\ n - 1 + 1 = n
        BY <3>2
      <4> QED BY <2>1, <4>1
    <3> QED BY <3>1, <3>2
  <2> QED BY <2>1, <2>2, FS_Singleton
<1>2. IsFiniteSet(P) /\ Cardinality(P) = 1 * n
  BY <1>1, FS_Product
<1> HIDE DEF P
<1>3. Cardinality(P) = n
  BY <1>2
<1>4. /\ IsFiniteSet(U \cup P)
      /\ Cardinality(U \cup P) = Cardinality(U) + Cardinality(P) - Cardinality(U \cap P)
  BY <1>2, FS_Union
<1>5. Cardinality(U) \in Nat /\ Cardinality(U \cap P) \in Nat
  BY FS_Intersection, FS_CardinalityType
<1>6. V \in SUBSET (U \cup P)
  BY DEF P
<1>7. IsFiniteSet(V) /\ Cardinality(V) <= Cardinality(U \cup P)
  BY <1>4, <1>6, FS_Subset
<1>8. Cardinality(V) \in Nat
  BY <1>7, FS_CardinalityType
<1> QED BY <1>3, <1>4, <1>5, <1>7, <1>8

Units(S, W) == UNION {{x} \X (1..W[x]) : x \in S}

LEMMA UnitsFinite ==
  ASSUME NEW n \in Nat, NEW m \in Nat, NEW S, S \subseteq 1..n, NEW W, \A x \in S : W[x] \in 0..m
  PROVE  IsFiniteSet(Units(S, W)) /\ Cardinality(Units(S, W)) \in Nat
<1>1. IsFiniteSet(1..n) /\ IsFiniteSet(1..m)
  BY FS_Interval
<1>2. IsFiniteSet((1..n) \X (1..m))
  BY <1>1, FS_Product
<1>3. Units(S, W) \in SUBSET ((1..n) \X (1..m))
  BY DEF Units
<1> QED BY <1>2, <1>3, FS_Subset, FS_CardinalityType

LEMMA UnitsSame ==
  ASSUME NEW S, NEW V, NEW W, \A x \in S : W[x] = V[x] PROVE Units(S, W) = Units(S, V)
<1>1. \A x \in S : {x} \X (1..W[x]) = {x} \X (1..V[x])
  OBVIOUS
<1>2. {{x} \X (1..W[x]) : x \in S} = {{x} \X (1..V[x]) : x \in S}
  BY <1>1
<1> QED BY <1>2 DEF Units

----------------------------------------------------------------------------
(* Engines 26 to 30.                                                       *)

LEMMA ReadyCardinality ==
  ASSUME NEW s, NEW S PROVE Ready(s)!Cardinality(S) = Cardinality(S)
  BY DEF Ready!Cardinality, Cardinality

(* What may be written keeps what was, and takes nothing back.             *)
LEMMA ReadyWritten ==
  ASSUME NEW s \in ReadinessScenes, Ready(s)!IInv, NEW h, Ready(s)!WriteSound(h),
         Ready(s)!Admits(h), db' = Ready(s)!Written(h)
  PROVE  /\ Ready(s)!TablesTyped(Ready(s)!RowType)' /\ Ready(s)!BaselineOnce'
         /\ Ready(s)!Ids("baselineVariances")' # {} => 1 \in Ready(s)!Ids("performanceBaselines")'
         /\ Ready(s)!EligibilityKept
         /\ \A g : Ready(s)!WriteSound(g) => Ready(s)!WriteSound(g)'
         /\ \A x \in Ready(s)!Ids("successMetrics") : x \in Ready(s)!Ids("successMetrics")'
<1> DEFINE T == Ready(s)!RowType
           C == Ready(s)!Collections
<1>1. /\ Fitting(db, C, T, h) /\ db' = Holding(db, h)
      /\ C = {"acceptanceCriteria", "successMetrics", "dependencies", "paymentTriggerRules",
              "performanceBaselines", "baselineVariances"}
  BY DeliveryAssumption DEF Ready!IInv, Ready!TablesTyped, Ready!WriteSound, Ready!WriteTyped, Ready!Ids,
     Ready!Written, Tabled, Fitting, Holding, Ready!ReadinessAssumption, Ready!RowType, Ready!Collections
<1>2. /\ Tabled(db', C, T) /\ Lands(db, db', h) /\ Keeps(db, db', h) /\ Adds(db, db', h)
      /\ \A c \in C : Len(db[c]) \in Nat /\ DOMAIN db[c] = 1..Len(db[c])
  <2> HIDE DEF T, C
  <2> QED BY <1>1, Landing
<1>3. Ready(s)!TablesTyped(Ready(s)!RowType)'
  BY <1>2 DEF Tabled, Ready!TablesTyped
<1> USE DEF Ready!WriteSound, Ready!WriteTyped, Ready!Ids, Ready!InStatus
<1>4. /\ Ready(s)!BaselineOnce'
      /\ Ready(s)!Ids("baselineVariances")' # {} => 1 \in Ready(s)!Ids("performanceBaselines")'
  <2> DEFINE B == "performanceBaselines"
             V == "baselineVariances"
  <2>1. /\ Len(db[B]) \in Nat /\ Len(db[B]) <= 1 /\ DOMAIN db[B] = 1..Len(db[B])
        /\ B \in C /\ V \in C
        /\ \A v \in DOMAIN db[V] : 1 \in DOMAIN db[B] /\ db[V][v].cost + db[B][1].budget \in 0..2
    BY <1>1, <1>2 DEF Ready!IInv, Ready!BaselineOnce
  <2>2. CASE h.c = B
    <3>1. h.op = "append" /\ Len(db[B]) = 0
      BY <1>1, <2>2 DEF Ready!Admits, Ready!OneBaseline, Fitting
    <3>2. Len(db'[B]) = 1 /\ db'[V] = db[V] /\ DOMAIN db[V] = {}
      BY <1>1, <1>2, <2>1, <2>2, <3>1 DEF Lands, Fitting, Tabled
    <3>3. Ready(s)!BaselineOnce'
      <4>1. Len(db'.performanceBaselines) <= 1
        <5> DEFINE n == Len(db'.performanceBaselines)
        <5>1. n = 1
          BY <3>2
        <5> HIDE DEF n
        <5>2. n <= 1
          BY <5>1
        <5> QED BY <5>2 DEF n
      <4>2. DOMAIN db'.baselineVariances = {}
        BY <3>2
      <4> QED BY <4>1, <4>2 DEF Ready!BaselineOnce
    <3>4. Ready(s)!Ids("baselineVariances")' = {}
      BY <3>2
    <3> QED BY <3>3, <3>4
  <2>3. CASE h.c # B
    <3>1. db'[B] = db[B]
      BY <1>1, <1>2, <2>1, <2>3 DEF Lands, Fitting, Tabled
    <3>2. ASSUME NEW v \in DOMAIN db'[V]
          PROVE  1 \in DOMAIN db[B] /\ db'[V][v].cost + db[B][1].budget \in 0..2
      <4>1. h.op = "replace" => h.c # V
        <5>1. Ready(s)!WriteSound(h)
          OBVIOUS
        <5> QED BY <5>1
      <4>2. CASE v \in DOMAIN db[V]
        <5>1. db'[V][v] = db[V][v]
          BY <1>1, <1>2, <2>1, <4>1, <4>2 DEF Keeps, Fitting, Tabled
        <5> QED BY <2>1, <4>2, <5>1
      <4>3. CASE v \notin DOMAIN db[V]
        BY <1>1, <1>2, <2>1, <4>3 DEF Adds, Fitting, Tabled
      <4> QED BY <4>2, <4>3
    <3> QED BY <2>1, <3>1, <3>2 DEF Ready!BaselineOnce
  <2> QED BY <2>2, <2>3
(* The rows that requests have read change only so far.                    *)
<1>5. /\ \A c \in C : \A x \in DOMAIN db[c] : x \in DOMAIN db'[c]
      /\ \A x \in DOMAIN db.successMetrics :
           db'.successMetrics[x].weight = db.successMetrics[x].weight
      /\ \A x \in DOMAIN db.paymentTriggerRules :
           LET new == db'.paymentTriggerRules[x]
               old == db.paymentTriggerRules[x]
           IN /\ new.dod = old.dod /\ new.criteria = old.criteria
              /\ old.status = "ACTIVE" => new.status = "ACTIVE"
      /\ \A x \in DOMAIN db.acceptanceCriteria :
           db.acceptanceCriteria[x].status = "CONFIRMED" => db'.acceptanceCriteria[x].status = "CONFIRMED"
      /\ \A x \in DOMAIN db.performanceBaselines :
           db'.performanceBaselines[x] = db.performanceBaselines[x]
  <2> HIDE DEF T
  <2>1. \A c \in C : \A x \in DOMAIN db[c] :
          /\ x \in DOMAIN db'[c]
          /\ db'[c][x] = db[c][x] \/ (h.op = "replace" /\ h.c = c /\ h.id = x /\ db'[c][x] = h.row)
    <3> HIDE DEF C
    <3>1. DOMAIN db = C
      BY <1>1 DEF Fitting, Tabled
    <3> QED BY <1>2, <3>1 DEF Keeps
  <2>2. {"successMetrics", "paymentTriggerRules", "acceptanceCriteria", "performanceBaselines"} \subseteq C
    BY <1>1
  <2>3. ASSUME NEW x \in DOMAIN db.successMetrics
        PROVE  db'.successMetrics[x].weight = db.successMetrics[x].weight
    BY <1>1, <2>1, <2>2 DEF Fitting
  <2>4. ASSUME NEW x \in DOMAIN db.paymentTriggerRules
        PROVE  LET new == db'.paymentTriggerRules[x]
                   old == db.paymentTriggerRules[x]
               IN /\ new.dod = old.dod /\ new.criteria = old.criteria
                  /\ old.status = "ACTIVE" => new.status = "ACTIVE"
    BY <1>1, <2>1, <2>2 DEF Fitting
  <2>5. ASSUME NEW x \in DOMAIN db.acceptanceCriteria
        PROVE  db.acceptanceCriteria[x].status = "CONFIRMED" => db'.acceptanceCriteria[x].status = "CONFIRMED"
    BY <1>1, <2>1, <2>2 DEF Fitting
  <2>6. ASSUME NEW x \in DOMAIN db.performanceBaselines
        PROVE  db'.performanceBaselines[x] = db.performanceBaselines[x]
    BY <1>1, <2>1, <2>2 DEF Fitting
  <2> QED BY <2>1, <2>3, <2>4, <2>5, <2>6
<1>6. ASSUME NEW g, Ready(s)!WriteSound(g) PROVE Ready(s)!WriteSound(g)'
  <2>1. /\ g.c \in C
        /\ g.op = "replace" => g.id \in DOMAIN db[g.c] /\ g.id \in DOMAIN db'[g.c]
    BY <1>5, <1>6
  <2>2. Ready(s)!WriteTyped(g, Ready(s)!RowType)'
    BY <1>6, <2>1
  <2>3. g.op = "replace" /\ g.c = "successMetrics" => g.row.weight = db'.successMetrics[g.id].weight
    BY <1>5, <1>6, <2>1
  <2>4. g.op = "replace" /\ g.c = "paymentTriggerRules" =>
          /\ g.row.dod = db'.paymentTriggerRules[g.id].dod
          /\ g.row.criteria = db'.paymentTriggerRules[g.id].criteria
    BY <1>5, <1>6, <2>1
  <2>5. g.op = "append" /\ g.c = "baselineVariances" =>
          /\ 1 \in Ready(s)!Ids("performanceBaselines")'
          /\ db'.performanceBaselines[1] = db.performanceBaselines[1]
    BY <1>1, <1>5, <1>6
  <2> QED BY <1>6, <2>2, <2>3, <2>4, <2>5
<1>7. Ready(s)!EligibilityKept
  <2> SUFFICES ASSUME NEW x \in Ready(s)!Ids("paymentTriggerRules"),
                      Ready(s)!Pays(x), ~Ready(s)!Pays(x)'
               PROVE  Cardinality(Ready(s)!Blockers') > Cardinality(Ready(s)!Blockers)
    BY ReadyCardinality DEF Ready!EligibilityKept
  <2>1. Cardinality(Ready(s)!Blockers) = 0
    BY ReadyCardinality DEF Ready!Pays, Ready!Eligible
  <2>2. Ready(s)!CriteriaMet \subseteq Ready(s)!CriteriaMet'
    BY <1>1, <1>5 DEF Ready!CriteriaMet
  <2>3. Cardinality(Ready(s)!Blockers') # 0
    BY <1>1, <1>5, <2>2, ReadyCardinality DEF Ready!Pays, Ready!Eligible
  <2>4. IsFiniteSet(Ready(s)!Blockers')
    <3>1. Len(db'.dependencies) \in Nat /\ DOMAIN db'.dependencies = 1..Len(db'.dependencies)
      BY <1>1, <1>2, LenProperties DEF Tabled
    <3>2. IsFiniteSet(1..Len(db'.dependencies))
      BY <3>1, FS_Interval
    <3>3. Ready(s)!Blockers' \subseteq DOMAIN db'.dependencies
      BY DEF Ready!Blockers
    <3> QED BY <3>1, <3>2, <3>3, FS_Subset
  <2>5. Cardinality(Ready(s)!Blockers') \in Nat
    BY <2>4, FS_CardinalityType
  <2> QED BY <2>1, <2>3, <2>5
<1> QED BY <1>1, <1>2, <1>3, <1>4, <1>5, <1>6, <1>7

(* A request starts or goes on with a job that is sound, and one that has  *)
(* its turn with one that is fresh.                                        *)
ReadyInTurn(s) == Ready(s)!InTurn /\ Ready(s)!SerialInv

ReadyMoves(s, w) ==
  \E j : /\ job' = [job EXCEPT ![w] = j] /\ UNCHANGED db
         /\ Ready(s)!JobSound(j)
         /\ ReadyInTurn(s) => Ready(s)!Fresh(j)

LEMMA ReadyAsks ==
  ASSUME NEW s \in ReadinessScenes, NEW w, NEW h,
         Ready(s)!Ask(w, <<h>>) \/ Ready(s)!Decide(w, <<h>>), Ready(s)!WriteSound(h),
         ReadyInTurn(s) /\ h.op = "replace" /\ h.c = "successMetrics" =>
           Ready(s)!InStatus("successMetrics", h.id, {"DRAFT"}) /\ Ready(s)!Weighs(h.id)
  PROVE  ReadyMoves(s, w)
<1> DEFINE j == [at |-> "write", todo |-> <<h>>]
<1>1. job' = [job EXCEPT ![w] = j] /\ UNCHANGED db
  BY DEF Ready!Ask, Ready!Decide, Ready!Then, Ready!Receive, Ready!Carry
<1>2. j.at = "write" /\ j.todo = <<h>>
  OBVIOUS
<1> HIDE DEF j
<1>3. Ready(s)!JobSound(j)
  BY <1>2, TodoOfOne DEF Ready!JobSound, Ready!Listed, ListedTodo
<1>4. ReadyInTurn(s) => Ready(s)!Fresh(j)
  BY <1>2, TodoOfOne DEF Ready!Fresh
<1> QED BY <1>1, <1>3, <1>4 DEF ReadyMoves

LEMMA ReadyGivesUp ==
  ASSUME NEW s \in ReadinessScenes, NEW w, Ready(s)!GiveUp(w) PROVE ReadyMoves(s, w)
<1> DEFINE j == Ready(s)!Idle
<1>1. j.at = "idle" /\ job' = [job EXCEPT ![w] = j] /\ UNCHANGED db
  BY DEF Ready!GiveUp, Ready!Return, Ready!Carry, Ready!Idle
<1> HIDE DEF j
<1>2. Ready(s)!JobSound(j) /\ Ready(s)!Fresh(j)
  BY <1>1 DEF Ready!JobSound, Ready!Fresh
<1> QED BY <1>1, <1>2 DEF ReadyMoves

LEMMA ReadyHandles ==
  ASSUME NEW s \in ReadinessScenes, Ready(s)!IInv, NEW w \in Cast[s].workers, Ready(s)!Handle(w)
  PROVE  /\ ReadyMoves(s, w)
<1> USE DEF Ready!Room, Ready!InStatus, Ready!Ids, Ready!New, Ready!Put, Ready!Set,
            Ready!WriteSound, Ready!WriteTyped
<1>1. /\ DOMAIN db = {"acceptanceCriteria", "successMetrics", "dependencies",
                      "paymentTriggerRules", "performanceBaselines", "baselineVariances"}
      /\ Ready(s)!Collections = DOMAIN db
      /\ \A c \in DOMAIN db : DOMAIN db[c] \subseteq Nat /\ DOMAIN db[c] = 1..Len(db[c]) /\ Len(db[c]) \in Nat
      /\ \A c \in DOMAIN db : \A x \in DOMAIN db[c] : db[c][x] \in Ready(s)!RowType[c]
  BY DeliveryAssumption DEF Ready!IInv, Ready!TablesTyped, Ready!ReadinessAssumption, Ready!RowType
<1>2. CASE Ready(s)!DefineCriterion(w)
  <2> DEFINE h == Ready(s)!New("acceptanceCriteria", [status |-> "DRAFT"])
  <2>1. Ready(s)!Ask(w, <<h>>)
    BY <1>2 DEF Ready!DefineCriterion
  <2>2. Ready(s)!WriteSound(h)
    BY <1>1 DEF Ready!RowType, Ready!AcceptanceCriterion
  <2> QED BY <2>1, <2>2, ReadyAsks
<1>3. CASE Ready(s)!ConfirmCriterion(w)
  <2>1. PICK x \in DOMAIN db["acceptanceCriteria"] :
          Ready(s)!Ask(w, <<Ready(s)!PutCriterion(x, "CONFIRMED")>>)
    BY <1>3 DEF Ready!ConfirmCriterion
  <2>2. Ready(s)!WriteSound(Ready(s)!PutCriterion(x, "CONFIRMED"))
    BY <1>1 DEF Ready!PutCriterion, Ready!RowType, Ready!AcceptanceCriterion
  <2> QED BY <2>1, <2>2, ReadyAsks DEF Ready!PutCriterion
<1>4. CASE Ready(s)!DefineMetric(w)
  <2>1. PICK p \in 1..Cast[s].weight :
          Ready(s)!Ask(w, <<Ready(s)!New("successMetrics", [status |-> "DRAFT", weight |-> p])>>)
    BY <1>4 DEF Ready!DefineMetric
  <2>2. Ready(s)!WriteSound(Ready(s)!New("successMetrics", [status |-> "DRAFT", weight |-> p]))
    BY <1>1 DEF Ready!RowType, Ready!SuccessMetric
  <2> QED BY <2>1, <2>2, ReadyAsks
<1>5. CASE Ready(s)!ConfirmMetric(w)
  <2>1. PICK x \in DOMAIN db["successMetrics"] :
          /\ Ready(s)!InStatus("successMetrics", x, {"DRAFT"})
          /\ Ready(s)!Look(w, [at |-> "weigh", id |-> x])
    BY <1>5 DEF Ready!ConfirmMetric
  <2> DEFINE j == [at |-> "weigh", id |-> x]
  <2>2. j.at = "weigh" /\ j.id = x /\ job' = [job EXCEPT ![w] = j] /\ UNCHANGED db
    BY <2>1 DEF Ready!Look, Ready!Receive, Ready!Carry
  <2> HIDE DEF j
  <2>3. Ready(s)!JobSound(j) /\ Ready(s)!Fresh(j)
    BY <2>1, <2>2 DEF Ready!JobSound, Ready!Fresh
  <2> QED BY <2>2, <2>3 DEF ReadyMoves
<1>6. CASE Ready(s)!Weigh(w)
  <2> DEFINE x == job[w].id
  <2>1. Ready(s)!JobSound(job[w]) /\ job[w].at = "weigh"
    BY <1>6 DEF Ready!IInv, Ready!Weigh, Ready!At
  <2>2. CASE Ready(s)!Weighs(x) /\ Ready(s)!Decide(w, <<Ready(s)!PutMetric(x, "CONFIRMED")>>)
    <3>1. x \in DOMAIN db["successMetrics"]
      BY <2>1 DEF Ready!JobSound
    <3>2. Ready(s)!WriteSound(Ready(s)!PutMetric(x, "CONFIRMED"))
      BY <1>1, <3>1 DEF Ready!PutMetric, Ready!RowType, Ready!SuccessMetric
    <3>3. ReadyInTurn(s) => Ready(s)!InStatus("successMetrics", x, {"DRAFT"})
      BY <2>1 DEF ReadyInTurn, Ready!SerialInv, Ready!Fresh
    <3> QED BY <2>2, <3>2, <3>3, ReadyAsks DEF Ready!PutMetric
  <2>3. CASE Ready(s)!GiveUp(w)
    BY <2>3, ReadyGivesUp
  <2> QED BY <1>6, <2>2, <2>3 DEF Ready!Weigh
<1>7. CASE Ready(s)!Register(w)
  <2>1. PICK b \in BOOLEAN :
          Ready(s)!Ask(w, <<Ready(s)!New("dependencies", [status |-> "OPEN", blocking |-> b])>>)
    BY <1>7 DEF Ready!Register
  <2>2. Ready(s)!WriteSound(Ready(s)!New("dependencies", [status |-> "OPEN", blocking |-> b]))
    BY <1>1 DEF Ready!RowType, Ready!Dependency
  <2> QED BY <2>1, <2>2, ReadyAsks
<1>8. CASE Ready(s)!ResolveDependency(w)
  <2>1. PICK x \in DOMAIN db["dependencies"] :
          Ready(s)!Ask(w, <<Ready(s)!PutDependency(x, "RESOLVED")>>)
    BY <1>8 DEF Ready!ResolveDependency
  <2>2. Ready(s)!WriteSound(Ready(s)!PutDependency(x, "RESOLVED"))
    BY <1>1 DEF Ready!PutDependency, Ready!RowType, Ready!Dependency
  <2> QED BY <2>1, <2>2, ReadyAsks DEF Ready!PutDependency
<1>9. CASE Ready(s)!DefineRule(w)
  <2>1. PICK d \in BOOLEAN, cs \in SUBSET DOMAIN db["acceptanceCriteria"] :
          Ready(s)!Ask(w, <<Ready(s)!New("paymentTriggerRules",
                              [status |-> "DRAFT", dod |-> d, criteria |-> cs])>>)
    BY <1>9 DEF Ready!DefineRule
  <2>2. cs \in SUBSET Nat
    BY <1>1
  <2>3. Ready(s)!WriteSound(Ready(s)!New("paymentTriggerRules",
                              [status |-> "DRAFT", dod |-> d, criteria |-> cs]))
    BY <1>1, <2>2 DEF Ready!RowType, Ready!PaymentTriggerRule
  <2> QED BY <2>1, <2>3, ReadyAsks
<1>10. CASE Ready(s)!ActivateRule(w)
  <2>1. PICK x \in DOMAIN db["paymentTriggerRules"] :
          Ready(s)!Ask(w, <<Ready(s)!PutRule(x, "ACTIVE")>>)
    BY <1>10 DEF Ready!ActivateRule
  <2>2. Ready(s)!WriteSound(Ready(s)!PutRule(x, "ACTIVE"))
    BY <1>1 DEF Ready!PutRule, Ready!RowType, Ready!PaymentTriggerRule
  <2> QED BY <2>1, <2>2, ReadyAsks DEF Ready!PutRule
<1>11. CASE Ready(s)!Baseline(w)
  <2>1. PICK b \in 1..2 : Ready(s)!Ask(w, <<Ready(s)!NewBaseline([budget |-> b])>>)
    BY <1>11 DEF Ready!Baseline
  <2>2. [budget |-> b] \in Ready(s)!PerformanceBaseline
    BY DEF Ready!PerformanceBaseline
  <2>3. Ready(s)!WriteSound(Ready(s)!NewBaseline([budget |-> b]))
    BY <1>1, <2>2 DEF Ready!NewBaseline, Ready!RowType
  <2> QED BY <2>1, <2>3, ReadyAsks DEF Ready!NewBaseline
<1>12. CASE Ready(s)!RecordVariance(w)
  <2> DEFINE h(x, c) == Ready(s)!NewVariance([baseline |-> x, cost |-> c - db.performanceBaselines[x].budget])
  <2>1. PICK x \in DOMAIN db["performanceBaselines"], c \in 0..2 : Ready(s)!Ask(w, <<h(x, c)>>)
    BY <1>12 DEF Ready!RecordVariance
  <2>2. x = 1
    <3> DEFINE n == Len(db["performanceBaselines"])
    <3>1. n <= 1 /\ n \in Nat /\ x \in 1..n
      BY <1>1, <2>1 DEF Ready!IInv, Ready!BaselineOnce
    <3> HIDE DEF n
    <3> QED BY <3>1
  <2>3. db["performanceBaselines"][x].budget \in Nat
    BY <1>1, <2>1 DEF Ready!RowType, Ready!PerformanceBaseline
  <2>4. Ready(s)!WriteSound(h(x, c))
    <3> DEFINE b == db["performanceBaselines"][x].budget
    <3>1. c - b \in Int /\ (c - b) + b \in 0..2 /\ x \in Nat
      BY <2>2, <2>3
    <3> HIDE DEF b
    <3>2. [baseline |-> x, cost |-> c - b] \in Ready(s)!BaselineVariance
      BY <3>1 DEF Ready!BaselineVariance
    <3> QED BY <1>1, <2>1, <2>2, <3>1, <3>2 DEF b, Ready!NewVariance, Ready!RowType
  <2> QED BY <2>1, <2>4, ReadyAsks DEF Ready!NewVariance
<1> QED BY <1>2, <1>3, <1>4, <1>5, <1>6, <1>7, <1>8, <1>9, <1>10, <1>11, <1>12 DEF Ready!Handle

(* A write of a request, and where it goes on from there.                  *)
ReadyWrites(s, w) ==
  \E h, j : /\ Ready(s)!WriteSound(h) /\ Ready(s)!Admits(h) /\ db' = Ready(s)!Written(h)
            /\ job' = [job EXCEPT ![w] = j] /\ Ready(s)!JobSound(j)
            /\ ReadyInTurn(s) =>
                 /\ j = Ready(s)!Idle
                 /\ h.op = "replace" /\ h.c = "successMetrics" =>
                      Ready(s)!InStatus("successMetrics", h.id, {"DRAFT"}) /\ Ready(s)!Weighs(h.id)

LEMMA ReadyCommits ==
  ASSUME NEW s \in ReadinessScenes, Ready(s)!IInv, NEW w \in Cast[s].workers,
         Ready(s)!Commit(w, Ready(s)!Admits(Ready(s)!Due(w)))
  PROVE  ReadyMoves(s, w) \/ ReadyWrites(s, w)
<1> DEFINE t == job[w].todo
           h == Ready(s)!Due(w)
<1>1. /\ job[w].at = "write" /\ ListedTodo(t) /\ h = Head(t)
      /\ \A n \in DOMAIN t : Ready(s)!WriteSound(t[n])
  BY DEF Ready!IInv, Ready!JobSound, Ready!Commit, Ready!At, Ready!Due, Ready!Listed, ListedTodo
<1>2. CASE Ready(s)!GiveUp(w)
  BY <1>2, ReadyGivesUp
<1>3. CASE /\ Ready(s)!Admits(h) /\ db' = Ready(s)!Written(h)
           /\ IF Tail(t) = <<>> THEN Ready(s)!Return(w)
              ELSE Ready(s)!Carry(w, [at |-> "write", todo |-> Tail(t)])
  <2> DEFINE j == IF Tail(t) = <<>> THEN Ready(s)!Idle ELSE [at |-> "write", todo |-> Tail(t)]
  <2>1. /\ job' = [job EXCEPT ![w] = j]
        /\ Tail(t) = <<>> => j = Ready(s)!Idle
        /\ Tail(t) # <<>> => j.at = "write" /\ j.todo = Tail(t)
    BY <1>3 DEF Ready!Return, Ready!Carry
  <2>2. Ready(s)!WriteSound(h)
    BY <1>1, TodoHead
  <2> HIDE DEF j, h
  <2>3. Ready(s)!JobSound(j)
    <3>1. CASE Tail(t) = <<>>
      BY <2>1, <3>1 DEF Ready!JobSound, Ready!Idle
    <3>2. CASE Tail(t) # <<>>
      <4> DEFINE u == Tail(t)
      <4>1. /\ ListedTodo(u) /\ \A n \in DOMAIN u : Ready(s)!WriteSound(u[n])
        BY <1>1, <3>2, TodoTail
      <4>2. j.at = "write" /\ j.todo = u
        BY <2>1, <3>2
      <4> HIDE DEF u
      <4> QED BY <4>1, <4>2 DEF Ready!JobSound, Ready!Listed, ListedTodo
    <3> QED BY <3>1, <3>2
  <2>4. ASSUME ReadyInTurn(s)
        PROVE  /\ j = Ready(s)!Idle
               /\ h.op = "replace" /\ h.c = "successMetrics" =>
                    Ready(s)!InStatus("successMetrics", h.id, {"DRAFT"}) /\ Ready(s)!Weighs(h.id)
    <3>1. Ready(s)!Fresh(job[w])
      BY <2>4 DEF ReadyInTurn, Ready!SerialInv
    <3>2. Len(t) = 1 /\ Tail(t) = <<>>
      BY <1>1, <3>1, TodoHead DEF Ready!Fresh
    <3> QED BY <1>1, <2>1, <3>1, <3>2 DEF Ready!Fresh
  <2> QED BY <1>3, <2>1, <2>2, <2>3, <2>4 DEF ReadyWrites
<1> QED BY <1>2, <1>3 DEF Ready!Commit, Ready!Due

LEMMA ReadyTakes ==
  ASSUME NEW s \in ReadinessScenes, Ready(s)!IInv, [Ready(s)!Next]_<<db, job>>
  PROVE  \E w \in Cast[s].workers : ReadyMoves(s, w) \/ ReadyWrites(s, w)
<1>1. CASE Ready(s)!Proceed
  BY <1>1, ReadyHandles, ReadyCommits DEF Ready!Proceed
<1>2. ASSUME NEW w \in Cast[s].mortals, Ready(s)!Die(w) PROVE w \in Cast[s].workers /\ ReadyMoves(s, w)
  <2>1. w \in Cast[s].workers /\ Ready(s)!GiveUp(w)
    BY <1>2, DeliveryAssumption DEF Ready!ReadinessAssumption, Ready!Die, Ready!Crash, Ready!GiveUp
  <2> QED BY <2>1, ReadyGivesUp
<1>3. CASE UNCHANGED <<db, job>>
  <2>1. PICK w \in Cast[s].workers : TRUE
    BY DeliveryAssumption DEF Ready!ReadinessAssumption
  <2>2. job' = [job EXCEPT ![w] = job[w]] /\ Ready(s)!JobSound(job[w])
    BY <1>3, CarryStays DEF Ready!IInv
  <2>3. ReadyMoves(s, w)
    BY <1>3, <2>2 DEF ReadyMoves, ReadyInTurn, Ready!SerialInv
  <2> QED BY <2>3
<1> QED BY <1>1, <1>2, <1>3 DEF Ready!Next

LEMMA ReadyInit ==
  ASSUME NEW s \in ReadinessScenes, Ready(s)!Empty PROVE Ready(s)!IInv /\ Ready(s)!SerialInv
<1>1. /\ db = [c \in Ready(s)!Collections |-> <<>>]
      /\ job = [w \in Cast[s].workers |-> Ready(s)!Idle]
      /\ Ready(s)!Collections = DOMAIN Ready(s)!RowType /\ Cast[s].weight \in Nat
  BY DeliveryAssumption DEF Ready!Empty, Ready!ReadinessAssumption
<1>2. /\ DOMAIN db = Ready(s)!Collections /\ \A c \in Ready(s)!Collections : db[c] = <<>>
      /\ db["performanceBaselines"] = <<>> /\ db["baselineVariances"] = <<>> /\ db["successMetrics"] = <<>>
  BY <1>1 DEF Ready!RowType
<1>3. Ready(s)!TablesTyped(Ready(s)!RowType)
  <2>1. \A T : <<>> \in Seq(T)
    OBVIOUS
  <2> QED BY <1>2, <2>1 DEF Ready!TablesTyped
<1>4. Ready(s)!BaselineOnce /\ Ready(s)!Ids("baselineVariances") = {}
  BY <1>2 DEF Ready!BaselineOnce, Ready!Ids
<1>5. \A w \in Cast[s].workers : Ready(s)!JobSound(job[w]) /\ Ready(s)!Fresh(job[w])
  <2> SUFFICES ASSUME NEW w \in Cast[s].workers PROVE Ready(s)!JobSound(job[w]) /\ Ready(s)!Fresh(job[w])
    OBVIOUS
  <2>1. job[w].at = "idle"
    BY <1>1 DEF Ready!Idle
  <2> QED BY <2>1 DEF Ready!JobSound, Ready!Fresh
<1>6. Ready(s)!WeightBounded
  <2>1. Ready(s)!Confirmed = {}
    BY <1>2 DEF Ready!Confirmed, Ready!Ids
  <2>2. Ready(s)!ConfirmedWeight = Cardinality({})
    BY <2>1, ReadyCardinality DEF Ready!ConfirmedWeight
  <2> QED BY <1>1, <2>2, FS_EmptySet DEF Ready!WeightBounded
<1>7. job = [w \in Cast[s].workers |-> job[w]]
  BY <1>1
<1> QED BY <1>3, <1>4, <1>5, <1>6, <1>7 DEF Ready!IInv, Ready!SerialInv

LEMMA ReadyPreserves ==
  ASSUME NEW s \in ReadinessScenes, Ready(s)!IInv, [Ready(s)!Next]_<<db, job>>
  PROVE  Ready(s)!IInv' /\ Ready(s)!EligibilityKept
<1>1. PICK w \in Cast[s].workers : ReadyMoves(s, w) \/ ReadyWrites(s, w)
  BY ReadyTakes
<1>2. job = [v \in Cast[s].workers |-> job[v]] /\ \A v \in Cast[s].workers : Ready(s)!JobSound(job[v])
  BY DEF Ready!IInv
<1>3. CASE ReadyMoves(s, w)
  <2>1. PICK j : job' = [job EXCEPT ![w] = j] /\ UNCHANGED db /\ Ready(s)!JobSound(j)
    BY <1>3 DEF ReadyMoves
  <2>2. job' = [v \in Cast[s].workers |-> job'[v]] /\ \A v \in Cast[s].workers : Ready(s)!JobSound(job'[v])
    BY <1>2, <2>1, CarryMoves
  <2>3. \A i : Ready(s)!JobSound(i) => Ready(s)!JobSound(i)'
    BY <2>1 DEF Ready!JobSound, Ready!WriteSound, Ready!WriteTyped, Ready!Ids
  <2>4. Ready(s)!IInv'
    BY <2>1, <2>2, <2>3 DEF Ready!IInv, Ready!TablesTyped, Ready!BaselineOnce, Ready!Ids
  <2>5. Ready(s)!EligibilityKept
    BY <2>1 DEF Ready!EligibilityKept, Ready!Pays, Ready!Eligible, Ready!CriteriaMet, Ready!Blockers,
       Ready!InStatus, Ready!Ids
  <2> QED BY <2>4, <2>5
<1>4. CASE ReadyWrites(s, w)
  <2>1. PICK h, j : /\ Ready(s)!WriteSound(h) /\ Ready(s)!Admits(h) /\ db' = Ready(s)!Written(h)
                    /\ job' = [job EXCEPT ![w] = j] /\ Ready(s)!JobSound(j)
    BY <1>4 DEF ReadyWrites
  <2>2. job' = [v \in Cast[s].workers |-> job'[v]] /\ \A v \in Cast[s].workers : Ready(s)!JobSound(job'[v])
    BY <1>2, <2>1, CarryMoves
  <2>3. /\ Ready(s)!TablesTyped(Ready(s)!RowType)' /\ Ready(s)!BaselineOnce'
        /\ Ready(s)!Ids("baselineVariances")' # {} => 1 \in Ready(s)!Ids("performanceBaselines")'
        /\ Ready(s)!EligibilityKept
        /\ \A g : Ready(s)!WriteSound(g) => Ready(s)!WriteSound(g)'
        /\ \A x \in Ready(s)!Ids("successMetrics") : x \in Ready(s)!Ids("successMetrics")'
    BY <2>1, ReadyWritten
  <2>4. \A i : Ready(s)!JobSound(i) => Ready(s)!JobSound(i)'
    BY <2>3 DEF Ready!JobSound
  <2> QED BY <2>2, <2>3, <2>4 DEF Ready!IInv
<1> QED BY <1>1, <1>3, <1>4

(* One request after another: no confirmation goes beyond the whole.       *)
LEMMA ReadySerial ==
  ASSUME NEW s \in ReadinessScenes, Ready(s)!IInv, Ready(s)!SerialInv, [Ready(s)!Next]_<<db, job>>
  PROVE  Ready(s)!SerialInv'
<1> SUFFICES ASSUME Ready(s)!InTurn
             PROVE  Ready(s)!WeightBounded' /\ \A v \in Cast[s].workers : Ready(s)!Fresh(job[v])'
  BY DEF Ready!SerialInv, Ready!InTurn
<1>1. ReadyInTurn(s) /\ Ready(s)!WeightBounded
  BY DEF ReadyInTurn, Ready!SerialInv
<1>2. PICK w \in Cast[s].workers : ReadyMoves(s, w) \/ ReadyWrites(s, w)
  BY ReadyTakes
<1>3. job = [v \in Cast[s].workers |-> job[v]] /\ \A v \in Cast[s].workers : v = w
  BY <1>2 DEF Ready!IInv, Ready!InTurn
<1>4. CASE ReadyMoves(s, w)
  <2>1. PICK j : job' = [job EXCEPT ![w] = j] /\ UNCHANGED db /\ Ready(s)!Fresh(j)
    BY <1>1, <1>4 DEF ReadyMoves
  <2>2. \A v \in Cast[s].workers : job'[v] = j
    BY <1>3, <2>1, CarryMoves
  <2>3. Ready(s)!Fresh(j)' /\ Ready(s)!WeightBounded'
    BY <1>1, <2>1 DEF Ready!Fresh, Ready!InStatus, Ready!Weighs, Ready!ConfirmedWeight, Ready!Confirmed,
       Ready!Weight, Ready!Ids, Ready!WeightBounded
  <2> QED BY <2>2, <2>3
<1>5. CASE ReadyWrites(s, w)
  <2>1. PICK h : /\ Ready(s)!WriteSound(h) /\ Ready(s)!Admits(h) /\ db' = Ready(s)!Written(h)
                 /\ job' = [job EXCEPT ![w] = Ready(s)!Idle]
                 /\ h.op = "replace" /\ h.c = "successMetrics" =>
                      Ready(s)!InStatus("successMetrics", h.id, {"DRAFT"}) /\ Ready(s)!Weighs(h.id)
    BY <1>1, <1>5 DEF ReadyWrites
  <2>2. \A v \in Cast[s].workers : job'[v] = Ready(s)!Idle
    BY <1>3, <2>1, CarryMoves
  <2>3. Ready(s)!Fresh(Ready(s)!Idle)'
    BY DEF Ready!Fresh, Ready!Idle
  <2> DEFINE M == db["successMetrics"]
             T == Ready(s)!RowType
             C == Ready(s)!Collections
             K(D) == {y \in DOMAIN D : D[y].status \in {"CONFIRMED"}}
             W(D) == [x \in DOMAIN D |-> D[x].weight]
  <2>4. /\ Fitting(db, C, T, h) /\ db' = Holding(db, h)
        /\ "successMetrics" \in C /\ T["successMetrics"] = Ready(s)!SuccessMetric
    BY <2>1, DeliveryAssumption DEF Ready!IInv, Ready!TablesTyped, Ready!WriteSound, Ready!WriteTyped, Ready!Ids,
       Ready!Written, Tabled, Fitting, Holding, Ready!ReadinessAssumption, Ready!RowType, Ready!Collections
  <2>5. /\ Tabled(db', C, T) /\ Lands(db, db', h) /\ Keeps(db, db', h) /\ Adds(db, db', h)
        /\ \A c \in C : Len(db[c]) \in Nat /\ DOMAIN db[c] = 1..Len(db[c])
    <3> HIDE DEF T, C
    <3> QED BY <2>4, Landing
  <2>6. /\ Ready(s)!ConfirmedWeight = Cardinality(Units(K(M), W(M)))
        /\ Ready(s)!ConfirmedWeight' = Cardinality(Units(K(M'), W(M')))
    BY ReadyCardinality DEF Ready!ConfirmedWeight, Ready!Confirmed, Ready!Weight, Ready!InStatus, Ready!Ids, Units
  <2>7. /\ IsFiniteSet(Units(K(M), W(M))) /\ Cardinality(Units(K(M), W(M))) \in Nat
        /\ \A x \in DOMAIN M : M[x].weight \in 1..Cast[s].weight
        /\ Cast[s].weight \in Nat
    <3>1. M \in Seq(Ready(s)!SuccessMetric) /\ DOMAIN M = 1..Len(M) /\ Len(M) \in Nat /\ Cast[s].weight \in Nat
      BY <2>4, <2>5, DeliveryAssumption DEF Tabled, Fitting, Ready!ReadinessAssumption
    <3> HIDE DEF M
    <3>2. \A x \in DOMAIN M : M[x] \in Ready(s)!SuccessMetric
      BY <3>1
    <3>3. \A x \in DOMAIN M : M[x].weight \in 1..Cast[s].weight
      BY <3>2 DEF Ready!SuccessMetric
    <3>4. K(M) \subseteq 1..Len(M) /\ \A x \in K(M) : W(M)[x] \in 0..Cast[s].weight
      BY <3>1, <3>3
    <3> HIDE DEF K, W
    <3> QED BY <3>1, <3>3, <3>4, UnitsFinite
  <2>8. CASE h.op = "replace" /\ h.c = "successMetrics"
    <3> DEFINE n == M[h.id].weight
    <3>1. n \in Nat /\ Units(K(M'), W(M')) \subseteq Units(K(M), W(M)) \cup ({h.id} \X (1..n))
      <4>1. h.id \in DOMAIN M /\ n \in Nat /\ h.row.weight = n
        BY <2>1, <2>7, <2>8 DEF Ready!WriteSound, Ready!WriteTyped, Ready!Ids
      <4>2. \A y \in DOMAIN M' : y \in DOMAIN M /\ (M'[y] = M[y] \/ (y = h.id /\ M'[y].weight = n))
        BY <2>4, <2>5, <2>8, <4>1 DEF Keeps, Adds, Tabled, Fitting
      <4> HIDE DEF n, M
      <4> QED BY <4>1, <4>2 DEF Units
    <3>2. Cardinality(Units(K(M), W(M))) + n <= Cast[s].weight
      BY <2>1, <2>6, <2>8 DEF Ready!Weighs, Ready!Weight
    <3> DEFINE A == Units(K(M), W(M))
               B == Units(K(M'), W(M'))
               m == Cast[s].weight
    <3>3. IsFiniteSet(A) /\ B \subseteq A \cup ({h.id} \X (1..n)) /\ m \in Nat /\ n \in Nat
      BY <2>7, <3>1
    <3>4. Cardinality(A) + n <= m /\ Ready(s)!ConfirmedWeight' = Cardinality(B)
      BY <2>6, <3>2
    <3>5. Ready(s)!ConfirmedWeight' <= m
      <4> HIDE DEF A, B, m, n
      <4>1. Cardinality(B) <= Cardinality(A) + n /\ Cardinality(B) \in Nat /\ Cardinality(A) \in Nat
        BY <3>3, UnitsGrow
      <4>2. Cardinality(B) <= m
        BY <3>3, <3>4, <4>1
      <4> DEFINE c == Cardinality(B)
      <4>3. c <= m /\ c \in Nat /\ Ready(s)!ConfirmedWeight' = c
        BY <3>4, <4>1, <4>2
      <4> HIDE DEF c
      <4> QED BY <4>3
    <3> QED BY <2>2, <2>3, <3>5 DEF Ready!WeightBounded
  <2>9. CASE ~(h.op = "replace" /\ h.c = "successMetrics")
    <3>1. Units(K(M'), W(M')) = Units(K(M), W(M))
      <4>1. \A y \in DOMAIN M : y \in DOMAIN M' /\ M'[y] = M[y]
        BY <2>4, <2>5, <2>9 DEF Keeps, Tabled, Fitting
      <4>2. \A y \in DOMAIN M' : y \in DOMAIN M \/ M'[y].status = "DRAFT"
        BY <2>1, <2>4, <2>5, <2>9 DEF Adds, Tabled, Fitting, Ready!WriteSound
      <4> HIDE DEF M
      <4>3. {y \in DOMAIN M' : M'[y].status \in {"CONFIRMED"}} = {y \in DOMAIN M : M[y].status \in {"CONFIRMED"}}
        BY <4>1, <4>2
      <4>4. \A y \in DOMAIN M : W(M')[y] = W(M)[y]
        BY <4>1
      <4> DEFINE S == {y \in DOMAIN M : M[y].status \in {"CONFIRMED"}}
      <4>5. K(M) = S /\ K(M') = S /\ \A y \in S : W(M')[y] = W(M)[y]
        BY <4>3, <4>4
      <4> HIDE DEF S, K, W
      <4> QED BY <4>5, UnitsSame
    <3> QED BY <1>1, <2>2, <2>3, <2>6, <3>1 DEF Ready!WeightBounded
  <2> QED BY <2>2, <2>3, <2>8, <2>9
<1> QED BY <1>2, <1>4, <1>5

----------------------------------------------------------------------------
(* Engines 31 to 35.                                                       *)
LEMMA WorkCardinality ==
  ASSUME NEW s, NEW S PROVE Work(s)!Cardinality(S) = Cardinality(S)
  BY DEF Work!Cardinality, Cardinality

LEMMA WorkTables ==
  ASSUME NEW s \in WorkScenes, Work(s)!TablesTyped(Work(s)!RowType)
  PROVE  /\ DOMAIN db = {"executionWorkspaces", "workItems", "progressRecords", "evidenceRequirements",
                         "evidencePackages", "validationTests", "qualityPlans", "defects",
                         "qualityGateResults"}
         /\ Work(s)!Collections = DOMAIN db
         /\ \A c \in DOMAIN db : /\ DOMAIN db[c] = 1..Len(db[c]) /\ Len(db[c]) \in Nat
                                 /\ \A x \in DOMAIN db[c] : db[c][x] \in Work(s)!RowType[c]
<1>1. DOMAIN db = Work(s)!Collections /\ Work(s)!Collections = DOMAIN Work(s)!RowType
  BY DeliveryAssumption DEF Work!TablesTyped, Work!WorkAssumption
<1>2. \A c \in DOMAIN db : db[c] \in Seq(Work(s)!RowType[c])
  BY <1>1 DEF Work!TablesTyped
<1> QED BY <1>1, <1>2 DEF Work!RowType

LEMMA WorkLands ==
  ASSUME NEW s \in WorkScenes, Work(s)!TablesTyped(Work(s)!RowType),
         NEW h, Work(s)!WriteTyped(h, Work(s)!RowType), db' = Work(s)!Written(h)
  PROVE  /\ Work(s)!TablesTyped(Work(s)!RowType)'
         /\ Lands(db, db', h) /\ Keeps(db, db', h) /\ Adds(db, db', h)
<1> DEFINE T == Work(s)!RowType
           C == Work(s)!Collections
<1>1. Fitting(db, C, T, h) /\ db' = Holding(db, h)
  BY DEF Work!TablesTyped, Work!WriteTyped, Work!Ids, Work!Written, Tabled, Fitting, Holding
<1>2. Tabled(db', C, T) /\ Lands(db, db', h) /\ Keeps(db, db', h) /\ Adds(db, db', h)
  <2> HIDE DEF T, C
  <2> QED BY <1>1, Landing
<1> QED BY <1>2 DEF Tabled, Work!TablesTyped

(* What may be written keeps what was, and takes nothing back.             *)
LEMMA WorkWritten ==
  ASSUME NEW s \in WorkScenes, Work(s)!IInv, NEW h, Work(s)!WriteSound(h),
         Work(s)!Admits(h), db' = Work(s)!Written(h)
  PROVE  /\ Work(s)!TablesTyped(Work(s)!RowType)' /\ Work(s)!TablesSound'
         /\ Work(s)!FinalStays
         /\ \A g : Work(s)!WriteSound(g) => Work(s)!WriteSound(g)'
<1> USE DEF Work!Ids, Work!InStatus
<1>1. Work(s)!WriteTyped(h, Work(s)!RowType) /\ Work(s)!TablesTyped(Work(s)!RowType) /\ Work(s)!TablesSound
  BY DEF Work!WriteSound, Work!IInv
<1>2. /\ DOMAIN db = {"executionWorkspaces", "workItems", "progressRecords", "evidenceRequirements",
                      "evidencePackages", "validationTests", "qualityPlans", "defects",
                      "qualityGateResults"}
      /\ \A c \in DOMAIN db : /\ DOMAIN db[c] = 1..Len(db[c]) /\ Len(db[c]) \in Nat
      /\ Work(s)!Collections = DOMAIN db
  BY <1>1, WorkTables
<1>3. /\ Work(s)!TablesTyped(Work(s)!RowType)'
      /\ Lands(db, db', h) /\ Keeps(db, db', h) /\ Adds(db, db', h)
  BY <1>1, WorkLands
(* The rows that were there, and those that were not.                      *)
<1>4. /\ \A c \in DOMAIN db : \A x \in DOMAIN db[c] : x \in DOMAIN db'[c]
      /\ \A x \in DOMAIN db["executionWorkspaces"] :
           LET old == db["executionWorkspaces"][x]
               now == db'["executionWorkspaces"][x]
           IN now.milestone = old.milestone /\ (old.status = "SUBMITTED" => now = old)
      /\ \A x \in DOMAIN db["workItems"] :
           LET old == db["workItems"][x]
               now == db'["workItems"][x]
           IN now.space = old.space /\ (old.status \in {"SUBMITTED", "CANCELLED"} => now = old)
      /\ \A x \in DOMAIN db["progressRecords"] : db'["progressRecords"][x] = db["progressRecords"][x]
  BY <1>1, <1>2, <1>3 DEF Keeps, Work!WriteSound, Work!Admits, Work!Terminal
<1>5. Work(s)!OneWorkspacePerMilestone'
  <2> SUFFICES ASSUME NEW x \in DOMAIN db'["executionWorkspaces"], NEW y \in DOMAIN db'["executionWorkspaces"],
                      db'["executionWorkspaces"][x].milestone = db'["executionWorkspaces"][y].milestone
               PROVE  x = y
    BY DEF Work!OneWorkspacePerMilestone
  <2>1. \A z \in DOMAIN db'["executionWorkspaces"] :
          \/ z \in DOMAIN db["executionWorkspaces"]
          \/ /\ h.op = "append" /\ h.c = "executionWorkspaces" /\ z = Len(db["executionWorkspaces"]) + 1
             /\ db'["executionWorkspaces"][z] = h.row
    BY <1>2, <1>3 DEF Adds
  <2>2. h.op = "append" /\ h.c = "executionWorkspaces" =>
          \A z \in DOMAIN db["executionWorkspaces"] : db["executionWorkspaces"][z].milestone # h.row.milestone
    BY DEF Work!Admits, Work!MilestoneFree
  <2> QED BY <1>1, <1>4, <2>1, <2>2 DEF Work!TablesSound, Work!OneWorkspacePerMilestone
<1>6. Work(s)!CustodyComplete'
  <2> SUFFICES ASSUME NEW x \in DOMAIN db'["evidencePackages"]
               PROVE  LET pkg == db'["evidencePackages"][x]
                      IN pkg.custody = IF pkg.status = "SUBMITTED" THEN <<"SUBMITTED">>
                                       ELSE <<"SUBMITTED", pkg.status>>
    BY DEF Work!CustodyComplete
  <2>1. \/ x \in DOMAIN db["evidencePackages"] /\ db'["evidencePackages"][x] = db["evidencePackages"][x]
        \/ h.c = "evidencePackages" /\ db'["evidencePackages"][x] = h.row
    BY <1>2, <1>3 DEF Adds, Keeps
  <2>2. CASE x \in DOMAIN db["evidencePackages"] /\ db'["evidencePackages"][x] = db["evidencePackages"][x]
    BY <1>1, <2>2 DEF Work!TablesSound, Work!CustodyComplete
  <2>3. CASE h.c = "evidencePackages" /\ db'["evidencePackages"][x] = h.row
    BY <1>1, <2>3 DEF Work!WriteSound, Work!WriteTyped
  <2> QED BY <2>1, <2>2, <2>3
<1>7. Work(s)!ResolvedHasCause'
  <2> SUFFICES ASSUME NEW x \in DOMAIN db'["defects"], db'["defects"][x].status \in {"RESOLVED", "CLOSED"}
               PROVE  db'["defects"][x].cause
    BY DEF Work!ResolvedHasCause
  <2>1. \/ x \in DOMAIN db["defects"] /\ db'["defects"][x] = db["defects"][x]
        \/ h.c = "defects" /\ db'["defects"][x] = h.row
    BY <1>2, <1>3 DEF Adds, Keeps
  <2>2. CASE x \in DOMAIN db["defects"] /\ db'["defects"][x] = db["defects"][x]
    BY <1>1, <2>2 DEF Work!TablesSound, Work!ResolvedHasCause
  <2>3. CASE h.c = "defects" /\ db'["defects"][x] = h.row
    BY <1>1, <2>3 DEF Work!WriteSound, Work!WriteTyped
  <2> QED BY <2>1, <2>2, <2>3
<1>8. Work(s)!EarnedAfterAccepted'
  <2> DEFINE P == "progressRecords"
  <2> SUFFICES ASSUME NEW x \in DOMAIN db'[P], db'[P][x].stage = Work(s)!FinanciallyEarned
               PROVE  \E y \in 1..(x - 1) : db'[P][y].item = db'[P][x].item /\ db'[P][y].stage = Work(s)!Accepted
    BY DEF Work!EarnedAfterAccepted
  <2>1. P \in DOMAIN db /\ DOMAIN db[P] = 1..Len(db[P]) /\ Len(db[P]) \in Nat
    BY <1>2
  <2>2. CASE x \in DOMAIN db[P]
    <3>1. PICK y \in 1..(x - 1) : db[P][y].item = db[P][x].item /\ db[P][y].stage = Work(s)!Accepted
      BY <1>1, <1>4, <2>2 DEF Work!TablesSound, Work!EarnedAfterAccepted
    <3>2. y \in DOMAIN db[P]
      BY <2>1, <2>2, <3>1
    <3> QED BY <1>4, <2>2, <3>1, <3>2
  <2>3. CASE x \notin DOMAIN db[P]
    <3>1. h.op = "append" /\ h.c = P /\ x = Len(db[P]) + 1 /\ db'[P][x] = h.row
      BY <1>3, <2>1, <2>3 DEF Adds
    <3>2. PICK y \in DOMAIN db[P] : db[P][y].item = h.row.item /\ db[P][y].stage = Work(s)!Accepted
      BY <3>1 DEF Work!WriteSound, Work!OfItem
    <3>3. y \in 1..(x - 1)
      BY <2>1, <3>1, <3>2
    <3> QED BY <1>4, <3>1, <3>2, <3>3
  <2> QED BY <2>2, <2>3
<1>9. Work(s)!FinalStays
  BY <1>4 DEF Work!FinalStays
<1>10. ASSUME NEW g, Work(s)!WriteSound(g) PROVE Work(s)!WriteSound(g)'
  <2>1. /\ Work(s)!WriteTyped(g, Work(s)!RowType)
        /\ g.op = "replace" => g.id \in DOMAIN db[g.c] /\ g.id \in DOMAIN db'[g.c]
    BY <1>2, <1>4, <1>10 DEF Work!WriteSound, Work!WriteTyped
  <2>2. Work(s)!WriteTyped(g, Work(s)!RowType)'
    BY <2>1 DEF Work!WriteTyped
  <2>3. g.op = "replace" =>
          /\ g.c = "executionWorkspaces" => g.row.milestone = db'["executionWorkspaces"][g.id].milestone
          /\ g.c = "workItems" => g.row.space = db'["workItems"][g.id].space
    BY <1>4, <1>10, <2>1 DEF Work!WriteSound
  <2>4. g.op = "append" /\ g.c = "progressRecords" /\ g.row.stage = Work(s)!FinanciallyEarned =>
          \E y \in Work(s)!OfItem(g.row.item)' : db'["progressRecords"][y].stage = Work(s)!Accepted
    BY <1>2, <1>4, <1>10 DEF Work!WriteSound, Work!OfItem
  <2> QED BY <1>10, <2>2, <2>3, <2>4 DEF Work!WriteSound
<1> QED BY <1>3, <1>5, <1>6, <1>7, <1>8, <1>9, <1>10 DEF Work!TablesSound

(* A request starts or goes on with a job that is sound, and one that has  *)
(* its turn with one that is fresh.                                        *)
WorkInTurn(s) == Work(s)!InTurn /\ Work(s)!SerialInv

WorkMoves(s, w) ==
  \E j : /\ job' = [job EXCEPT ![w] = j] /\ UNCHANGED db
         /\ Work(s)!JobSound(j)
         /\ WorkInTurn(s) => Work(s)!Fresh(j)

LEMMA WorkAsks ==
  ASSUME NEW s \in WorkScenes, NEW w, NEW h,
         Work(s)!Ask(w, <<h>>) \/ Work(s)!Decide(w, <<h>>), Work(s)!WriteSound(h),
         WorkInTurn(s) => Work(s)!FreshWrite(h)
  PROVE  WorkMoves(s, w)
<1> DEFINE j == [at |-> "write", todo |-> <<h>>]
<1>1. job' = [job EXCEPT ![w] = j] /\ UNCHANGED db
  BY DEF Work!Ask, Work!Decide, Work!Then, Work!Receive, Work!Carry
<1>2. j.at = "write" /\ j.todo = <<h>>
  OBVIOUS
<1> HIDE DEF j
<1>3. Work(s)!JobSound(j)
  BY <1>2, TodoOfOne DEF Work!JobSound, Work!Listed, ListedTodo
<1>4. WorkInTurn(s) => Work(s)!Fresh(j)
  BY <1>2, TodoOfOne DEF Work!Fresh
<1> QED BY <1>1, <1>3, <1>4 DEF WorkMoves

LEMMA WorkGivesUp ==
  ASSUME NEW s \in WorkScenes, NEW w, Work(s)!GiveUp(w) PROVE WorkMoves(s, w)
<1> DEFINE j == Work(s)!Idle
<1>1. j.at = "idle" /\ job' = [job EXCEPT ![w] = j] /\ UNCHANGED db
  BY DEF Work!GiveUp, Work!Return, Work!Carry, Work!Idle
<1> HIDE DEF j
<1>2. Work(s)!JobSound(j) /\ Work(s)!Fresh(j)
  BY <1>1 DEF Work!JobSound, Work!Fresh
<1> QED BY <1>1, <1>2 DEF WorkMoves

LEMMA WorkHandles ==
  ASSUME NEW s \in WorkScenes, Work(s)!IInv, NEW w \in Cast[s].workers, Work(s)!Handle(w)
  PROVE  WorkMoves(s, w)
<1> USE DEF Work!InStatus, Work!Ids, Work!New, Work!Put, Work!Room, Work!WriteSound, Work!WriteTyped,
            Work!FreshWrite, Work!RowType
<1>1. /\ DOMAIN db = {"executionWorkspaces", "workItems", "progressRecords", "evidenceRequirements",
                      "evidencePackages", "validationTests", "qualityPlans", "defects",
                      "qualityGateResults"}
      /\ Work(s)!Collections = DOMAIN db
      /\ \A c \in DOMAIN db : /\ DOMAIN db[c] = 1..Len(db[c]) /\ Len(db[c]) \in Nat
                              /\ \A x \in DOMAIN db[c] : db[c][x] \in Work(s)!RowType[c]
  BY WorkTables DEF Work!IInv
<1>2. CASE Work(s)!Open(w)
  <2> DEFINE h(m) == Work(s)!New("executionWorkspaces", [status |-> "DRAFT", milestone |-> m])
  <2>1. PICK m \in Cast[s].milestones : Work(s)!Ask(w, <<h(m)>>)
    BY <1>1, <1>2 DEF Work!Open
  <2>2. Work(s)!WriteSound(h(m)) /\ Work(s)!FreshWrite(h(m))
    BY <1>1, <2>1 DEF Work!ExecutionWorkspace
  <2> QED BY <2>1, <2>2, WorkAsks
<1>3. CASE Work(s)!Activate(w)
  <2> DEFINE h(x) == Work(s)!PutWorkspace(x, "ACTIVE")
  <2>1. PICK x \in DOMAIN db["executionWorkspaces"] : Work(s)!Ask(w, <<h(x)>>)
    BY <1>1, <1>3 DEF Work!Activate, Work!MoveWorkspace
  <2>2. Work(s)!WriteSound(h(x)) /\ Work(s)!FreshWrite(h(x))
    BY <1>1, <2>1 DEF Work!PutWorkspace, Work!Set, Work!ExecutionWorkspace
  <2> QED BY <2>1, <2>2, WorkAsks
<1>4. CASE Work(s)!Suspend(w)
  <2> DEFINE h(x) == Work(s)!PutWorkspace(x, "SUSPENDED")
  <2>1. PICK x \in DOMAIN db["executionWorkspaces"] : Work(s)!Ask(w, <<h(x)>>)
    BY <1>1, <1>4 DEF Work!Suspend, Work!MoveWorkspace
  <2>2. Work(s)!WriteSound(h(x)) /\ Work(s)!FreshWrite(h(x))
    BY <1>1, <2>1 DEF Work!PutWorkspace, Work!Set, Work!ExecutionWorkspace
  <2> QED BY <2>1, <2>2, WorkAsks
<1>5. CASE Work(s)!Resume(w)
  <2> DEFINE h(x) == Work(s)!PutWorkspace(x, "ACTIVE")
  <2>1. PICK x \in DOMAIN db["executionWorkspaces"] : Work(s)!Ask(w, <<h(x)>>)
    BY <1>1, <1>5 DEF Work!Resume, Work!MoveWorkspace
  <2>2. Work(s)!WriteSound(h(x)) /\ Work(s)!FreshWrite(h(x))
    BY <1>1, <2>1 DEF Work!PutWorkspace, Work!Set, Work!ExecutionWorkspace
  <2> QED BY <2>1, <2>2, WorkAsks
<1>6. CASE Work(s)!AssignWorkItem(w)
  <2> DEFINE h(x) == Work(s)!New("workItems", [status |-> "ASSIGNED", space |-> x])
  <2>1. PICK x \in DOMAIN db["executionWorkspaces"] :
          Work(s)!InStatus("executionWorkspaces", x, {"ACTIVE"}) /\ Work(s)!Ask(w, <<h(x)>>)
    BY <1>1, <1>6 DEF Work!AssignWorkItem
  <2>2. [status |-> "ASSIGNED", space |-> x] \in Work(s)!WorkItem
    BY <1>1 DEF Work!WorkItem
  <2>3. Work(s)!WriteSound(h(x)) /\ Work(s)!FreshWrite(h(x))
    BY <1>1, <2>1, <2>2
  <2> QED BY <2>1, <2>3, WorkAsks
<1>7. CASE Work(s)!TransitionWorkItem(w)
  <2> DEFINE h(x, to) == Work(s)!PutWorkItem(x, to)
  <2>1. PICK x \in DOMAIN db["workItems"], to \in {"IN_PROGRESS", "CANCELLED", "SUBMITTED"} : Work(s)!Ask(w, <<h(x, to)>>)
    BY <1>1, <1>7 DEF Work!TransitionWorkItem, Work!WorkItemTransitions
  <2>2. Work(s)!WriteSound(h(x, to)) /\ Work(s)!FreshWrite(h(x, to))
    BY <1>1, <2>1 DEF Work!PutWorkItem, Work!Set, Work!WorkItem
  <2> QED BY <2>1, <2>2, WorkAsks
<1>8. CASE Work(s)!DefineRequirement(w)
  <2> DEFINE h(m) == Work(s)!NewRequirement([mandatory |-> m])
  <2>1. PICK m \in BOOLEAN : Work(s)!Ask(w, <<h(m)>>)
    BY <1>1, <1>8 DEF Work!DefineRequirement
  <2>2. Work(s)!WriteSound(h(m)) /\ Work(s)!FreshWrite(h(m))
    BY <1>1, <2>1 DEF Work!NewRequirement, Work!EvidenceRequirement
  <2> QED BY <2>1, <2>2, WorkAsks
<1>9. CASE Work(s)!RecordTest(w)
  <2> DEFINE h(r, p) == Work(s)!NewTest([result |-> r, retestOf |-> p])
  <2>1. PICK r \in {"PASS", "FAIL", "CONDITIONAL_PASS", "WAIVED"}, p \in {0} \cup DOMAIN db["validationTests"] : Work(s)!Ask(w, <<h(r, p)>>)
    BY <1>1, <1>9 DEF Work!RecordTest
  <2>2. [result |-> r, retestOf |-> p] \in Work(s)!ValidationTest
    BY <1>1 DEF Work!ValidationTest
  <2>3. Work(s)!WriteSound(h(r, p)) /\ Work(s)!FreshWrite(h(r, p))
    BY <1>1, <2>1, <2>2 DEF Work!NewTest
  <2> QED BY <2>1, <2>3, WorkAsks
<1>10. CASE Work(s)!DefinePlan(w)
  <2> DEFINE h(x) == Work(s)!NewPlan([space |-> x])
  <2>1. PICK x \in DOMAIN db["executionWorkspaces"] : Work(s)!Ask(w, <<h(x)>>)
    BY <1>1, <1>10 DEF Work!DefinePlan
  <2>2. [space |-> x] \in Work(s)!QualityPlan
    BY <1>1 DEF Work!QualityPlan
  <2>3. Work(s)!WriteSound(h(x)) /\ Work(s)!FreshWrite(h(x))
    BY <1>1, <2>1, <2>2 DEF Work!NewPlan
  <2> QED BY <2>1, <2>3, WorkAsks
<1>11. CASE Work(s)!RaiseDefect(w)
  <2> DEFINE h(c) == Work(s)!New("defects", [status |-> "OPEN", critical |-> c, cause |-> FALSE])
  <2>1. PICK c \in BOOLEAN : Work(s)!Ask(w, <<h(c)>>)
    BY <1>1, <1>11 DEF Work!RaiseDefect
  <2>2. Work(s)!WriteSound(h(c)) /\ Work(s)!FreshWrite(h(c))
    BY <1>1, <2>1 DEF Work!Defect
  <2> QED BY <2>1, <2>2, WorkAsks
<1>12. CASE Work(s)!AssignRootCause(w)
  <2> DEFINE h(x) == Work(s)!PutDefect(x, [db["defects"][x] EXCEPT !.status = "IN_REWORK", !.cause = TRUE])
  <2>1. PICK x \in DOMAIN db["defects"] : Work(s)!Ask(w, <<h(x)>>)
    BY <1>1, <1>12 DEF Work!AssignRootCause
  <2>2. [db["defects"][x] EXCEPT !.status = "IN_REWORK", !.cause = TRUE] \in Work(s)!Defect
    <3>1. db["defects"][x] \in Work(s)!Defect
      BY <1>1, <2>1
    <3> QED BY <3>1 DEF Work!Defect
  <2>3. PICK row \in Work(s)!Defect :
          row = [db["defects"][x] EXCEPT !.status = "IN_REWORK", !.cause = TRUE] /\ row.status = "IN_REWORK"
    BY <1>1, <2>1, <2>2 DEF Work!Defect
  <2>4. h(x) = [op |-> "replace", c |-> "defects", id |-> x, row |-> row]
    BY <2>3 DEF Work!PutDefect
  <2> HIDE DEF h
  <2>5. Work(s)!WriteSound(h(x))
    <3> PICK g : g = h(x)
      OBVIOUS
    <3>1. g.op = "replace" /\ g.c = "defects" /\ g.id = x /\ g.row = row
      BY <2>4
    <3>2. Work(s)!WriteTyped(g, Work(s)!RowType)
      BY <1>1, <2>1, <2>3, <3>1
    <3>3. Work(s)!WriteSound(g)
      BY <2>3, <3>1, <3>2
    <3> QED BY <3>3
  <2>6. Work(s)!FreshWrite(h(x))
    BY <2>4
  <2> QED BY <2>1, <2>5, <2>6, WorkAsks
<1>13. CASE Work(s)!Resolve(w)
  <2> DEFINE h(x) == Work(s)!PutDefect(x, [db["defects"][x] EXCEPT !.status = "RESOLVED"])
  <2>1. PICK x \in DOMAIN db["defects"] :
          db["defects"][x].cause /\ Work(s)!Ask(w, <<h(x)>>)
    BY <1>1, <1>13 DEF Work!Resolve
  <2>2. Work(s)!WriteSound(h(x)) /\ Work(s)!FreshWrite(h(x))
    BY <1>1, <2>1 DEF Work!PutDefect, Work!Defect
  <2> QED BY <2>1, <2>2, WorkAsks
<1>14. CASE Work(s)!CloseDefect(w)
  <2> DEFINE h(x) == Work(s)!PutDefect(x, [db["defects"][x] EXCEPT !.status = "CLOSED"])
  <2>1. PICK x \in DOMAIN db["defects"] :
          db["defects"][x].status = "RESOLVED" /\ Work(s)!Ask(w, <<h(x)>>)
    BY <1>1, <1>14 DEF Work!CloseDefect
  <2>2. Work(s)!WriteSound(h(x)) /\ Work(s)!FreshWrite(h(x))
    <3>1. db["defects"][x].cause
      BY <2>1 DEF Work!IInv, Work!TablesSound, Work!ResolvedHasCause
    <3>2. db["defects"][x] \in Work(s)!Defect
      BY <1>1, <2>1
    <3> PICK r : r = db["defects"][x]
      OBVIOUS
    <3>3. PICK row \in Work(s)!Defect :
            row = [db["defects"][x] EXCEPT !.status = "CLOSED"] /\ row.status = "CLOSED" /\ row.cause
      <4>1. r \in Work(s)!Defect /\ r.cause
        BY <3>1, <3>2
      <4>2. [r EXCEPT !.status = "CLOSED"] \in Work(s)!Defect
        BY <4>1 DEF Work!Defect
      <4>3. [r EXCEPT !.status = "CLOSED"].status = "CLOSED" /\ [r EXCEPT !.status = "CLOSED"].cause
        BY <4>1 DEF Work!Defect
      <4> QED BY <4>2, <4>3
    <3> PICK g : g = h(x)
      OBVIOUS
    <3>4. g.op = "replace" /\ g.c = "defects" /\ g.id = x /\ g.row = row
      BY <3>3 DEF Work!PutDefect
    <3>5. Work(s)!WriteTyped(g, Work(s)!RowType)
      BY <1>1, <2>1, <3>3, <3>4
    <3>6. Work(s)!WriteSound(g)
      BY <3>3, <3>4, <3>5
    <3>7. Work(s)!FreshWrite(g)
      BY <3>4
    <3> QED BY <3>6, <3>7
  <2> QED BY <2>1, <2>2, WorkAsks
<1>15. CASE Work(s)!Submit(w)
  <2>1. PICK x \in DOMAIN db["executionWorkspaces"] :
          Work(s)!Look(w, [at |-> "listItems", put |-> Work(s)!PutWorkspace(x, "SUBMITTED")])
    BY <1>15 DEF Work!Submit
  <2> DEFINE h == Work(s)!PutWorkspace(x, "SUBMITTED")
             j == [at |-> "listItems", put |-> h]
  <2>2. Work(s)!WriteSound(h) /\ h.op = "replace" /\ h.c = "executionWorkspaces"
    BY <1>1 DEF Work!PutWorkspace, Work!Set, Work!ExecutionWorkspace
  <2>3. j.at = "listItems" /\ j.put = h /\ job' = [job EXCEPT ![w] = j] /\ UNCHANGED db
    BY <2>1 DEF Work!Look, Work!Receive, Work!Carry
  <2> HIDE DEF j, h
  <2>4. Work(s)!JobSound(j) /\ Work(s)!Fresh(j)
    BY <2>2, <2>3 DEF Work!JobSound, Work!Fresh
  <2> QED BY <2>3, <2>4 DEF WorkMoves
<1>16. CASE Work(s)!ListItems(w)
  <2>1. Work(s)!JobSound(job[w]) /\ job[w].at = "listItems"
    BY <1>16 DEF Work!IInv, Work!ListItems, Work!At
  <2>2. CASE Work(s)!OpenItems(job[w].put.id) = {} /\ Work(s)!Decide(w, <<job[w].put>>)
    <3> DEFINE h == job[w].put
    <3>1. Work(s)!WriteSound(h) /\ h.op = "replace" /\ h.c = "executionWorkspaces" /\ Work(s)!OpenItems(h.id) = {}
      BY <2>1, <2>2 DEF Work!JobSound
    <3>2. Work(s)!FreshWrite(h)
      BY <3>1 DEF Work!FreshWrite
    <3> QED BY <2>2, <3>1, <3>2, WorkAsks
  <2>3. CASE Work(s)!GiveUp(w)
    BY <2>3, WorkGivesUp
  <2> QED BY <1>16, <2>2, <2>3 DEF Work!ListItems
<1>17. CASE Work(s)!RecordProgress(w)
  <2> DEFINE P == "progressRecords"
             h(i, t, p) == Work(s)!NewProgress([item |-> i, stage |-> t, percent |-> p, stamp |-> Len(db[P])])
  <2>1. PICK i \in DOMAIN db["workItems"], t \in 1..5, p \in 0..Cast[s].percent :
          /\ \/ Work(s)!OfItem(i) = {} /\ t # Work(s)!FinanciallyEarned
             \/ \E x \in Work(s)!Latest(i) :
                  /\ Work(s)!NoRegression(db[P][x], [item |-> i, stage |-> t, percent |-> p, stamp |-> Len(db[P])])
                  /\ t = Work(s)!FinanciallyEarned => db[P][x].stage = Work(s)!Accepted
          /\ Work(s)!Ask(w, <<h(i, t, p)>>)
    BY <1>17 DEF Work!RecordProgress, Work!Earnable
  <2> DEFINE row == [item |-> i, stage |-> t, percent |-> p, stamp |-> Len(db[P])]
  <2>2. row \in Work(s)!ProgressRecord
    BY <1>1 DEF Work!ProgressRecord
  <2>3. t = Work(s)!FinanciallyEarned => \E y \in Work(s)!OfItem(i) : db[P][y].stage = Work(s)!Accepted
    BY <2>1 DEF Work!Latest
  <2>4. Work(s)!WriteSound(h(i, t, p))
    BY <1>1, <2>2, <2>3 DEF Work!NewProgress
  <2>5. WorkInTurn(s) => Work(s)!FreshWrite(h(i, t, p))
    <3> SUFFICES ASSUME WorkInTurn(s) PROVE Work(s)!FreshWrite(h(i, t, p))
      OBVIOUS
    <3>1. Work(s)!ProgressGrows /\ Work(s)!StampsOrdered
      BY DEF WorkInTurn, Work!SerialInv
    <3>2. ASSUME NEW y \in Work(s)!OfItem(i) PROVE Work(s)!NoRegression(db[P][y], row)
      <4>1. PICK x \in Work(s)!Latest(i) : Work(s)!NoRegression(db[P][x], row)
        BY <2>1, <3>2
      <4>2. /\ x \in DOMAIN db[P] /\ y \in DOMAIN db[P] /\ db[P][x].item = i /\ db[P][y].item = i
            /\ db[P][y].stamp <= db[P][x].stamp
        BY <3>2, <4>1 DEF Work!Latest, Work!OfItem
      <4>3. db[P][y].stamp = y - 1 /\ db[P][x].stamp = x - 1 /\ x \in Nat /\ y \in Nat
        BY <1>1, <3>1, <4>2 DEF Work!StampsOrdered
      <4>4. y <= x
        BY <4>2, <4>3
      <4>5. db[P][x] \in Work(s)!ProgressRecord /\ db[P][y] \in Work(s)!ProgressRecord
        BY <1>1, <4>2
      <4>6. db[P][y].stage <= db[P][x].stage /\ db[P][y].percent <= db[P][x].percent
        <5>1. CASE y = x
          BY <4>5, <5>1 DEF Work!ProgressRecord
        <5>2. CASE y # x
          <6>1. y < x
            BY <4>3, <4>4, <5>2
          <6> QED BY <3>1, <4>2, <6>1 DEF Work!ProgressGrows
        <5> QED BY <5>1, <5>2
      <4>7. db[P][x].stage <= t /\ db[P][x].percent <= p
        BY <4>1 DEF Work!NoRegression
      <4>8. db[P][y].stage <= t /\ db[P][y].percent <= p
        <5>1. /\ db[P][x].stage \in Int /\ db[P][y].stage \in Int /\ t \in Int
              /\ db[P][x].percent \in Int /\ db[P][y].percent \in Int /\ p \in Int
          BY <4>5 DEF Work!ProgressRecord
        <5> QED BY <4>6, <4>7, <5>1
      <4> QED BY <4>8 DEF Work!NoRegression
    <3> QED BY <3>2 DEF Work!FreshWrite, Work!NewProgress, Work!New
  <2> QED BY <2>1, <2>4, <2>5, WorkAsks
<1>18. CASE Work(s)!SubmitPackage(w)
  <2> DEFINE h(f) == Work(s)!New("evidencePackages",
                       [status |-> "SUBMITTED", files |-> f, custody |-> <<"SUBMITTED">>])
  <2>1. PICK f \in SUBSET DOMAIN db["evidenceRequirements"] : Work(s)!Covered(f) /\ Work(s)!Ask(w, <<h(f)>>)
    BY <1>18 DEF Work!SubmitPackage
  <2>2. f \in SUBSET Nat
    BY <1>1
  <2>3. [status |-> "SUBMITTED", files |-> f, custody |-> <<"SUBMITTED">>] \in Work(s)!EvidencePackage
    BY <2>2 DEF Work!EvidencePackage
  <2>4. Work(s)!WriteSound(h(f)) /\ Work(s)!FreshWrite(h(f))
    BY <1>1, <2>1, <2>3
  <2> QED BY <2>1, <2>4, WorkAsks
<1>19. CASE Work(s)!Verify(w)
  <2> DEFINE K == "evidencePackages"
             h(x, d) == Work(s)!PutPackage(x, [db[K][x] EXCEPT !.status = d, !.custody = Append(@, d)])
  <2>1. PICK x \in DOMAIN db[K], d \in {"VERIFIED", "REJECTED"} :
          db[K][x].status = "SUBMITTED" /\ Work(s)!Ask(w, <<h(x, d)>>)
    BY <1>19 DEF Work!Verify
  <2>2. db[K][x] \in Work(s)!EvidencePackage /\ db[K][x].custody = <<"SUBMITTED">>
    <3>1. Work(s)!CustodyComplete /\ K \in DOMAIN db /\ Work(s)!RowType[K] = Work(s)!EvidencePackage
      BY <1>1 DEF Work!IInv, Work!TablesSound
    <3> QED BY <1>1, <2>1, <3>1 DEF Work!CustodyComplete
  <2>3. Append(<<"SUBMITTED">>, d) = <<"SUBMITTED", d>> /\ <<"SUBMITTED", d>> \in Seq({"SUBMITTED", "VERIFIED", "REJECTED"})
    BY AppendOne
  <2>4. /\ [db[K][x] EXCEPT !.status = d, !.custody = Append(@, d)]
             = [db[K][x] EXCEPT !.status = d, !.custody = <<"SUBMITTED", d>>]
        /\ [db[K][x] EXCEPT !.status = d, !.custody = <<"SUBMITTED", d>>] \in Work(s)!EvidencePackage
    BY <2>2, <2>3 DEF Work!EvidencePackage
  <2>5. Work(s)!WriteSound(h(x, d)) /\ Work(s)!FreshWrite(h(x, d))
    BY <1>1, <2>2, <2>3, <2>4 DEF Work!PutPackage, Work!EvidencePackage
  <2> QED BY <2>1, <2>5, WorkAsks
<1>20. CASE Work(s)!EvaluateGate(w)
  <2> DEFINE row == [passed |-> Work(s)!Critical(Work(s)!OpenDefects) = {},
                     open |-> Work(s)!Cardinality(Work(s)!OpenDefects)]
             h == Work(s)!NewGateResult(row)
  <2>1. Work(s)!Ask(w, <<h>>)
    BY <1>20 DEF Work!EvaluateGate
  <2>2. row.open \in Nat
    <3> DEFINE n == Len(db["defects"])
               D == Work(s)!OpenDefects
    <3>1. n \in Nat /\ D \in SUBSET (1..n) /\ row.open = Cardinality(D)
      BY <1>1, WorkCardinality DEF Work!OpenDefects
    <3> HIDE DEF n, D
    <3>2. IsFiniteSet(1..n)
      BY <3>1, FS_Interval
    <3>3. Cardinality(D) \in Nat
      BY <3>1, <3>2, FS_Subset, FS_CardinalityType
    <3> QED BY <3>1, <3>3
  <2>3. row \in Work(s)!QualityGateResult
    BY <2>2 DEF Work!QualityGateResult
  <2>4. Work(s)!WriteSound(h)
    BY <1>1, <2>3 DEF Work!NewGateResult
  <2>5. Work(s)!FreshWrite(h)
    BY DEF Work!NewGateResult, Work!FreshWrite, Work!New
  <2> QED BY <2>1, <2>4, <2>5, WorkAsks
<1> QED BY <1>2, <1>3, <1>4, <1>5, <1>6, <1>7, <1>8, <1>9, <1>10, <1>11, <1>12, <1>13, <1>14,
           <1>15, <1>16, <1>17, <1>18, <1>19, <1>20 DEF Work!Handle

(* A write of a request, and where it goes on from there.                  *)
WorkWrites(s, w) ==
  \E h, j : /\ Work(s)!WriteSound(h) /\ Work(s)!Admits(h) /\ db' = Work(s)!Written(h)
            /\ job' = [job EXCEPT ![w] = j] /\ Work(s)!JobSound(j)
            /\ WorkInTurn(s) =>
                 /\ j = Work(s)!Idle
                 /\ Work(s)!FreshWrite(h)

LEMMA WorkCommits ==
  ASSUME NEW s \in WorkScenes, Work(s)!IInv, NEW w \in Cast[s].workers,
         Work(s)!Commit(w, Work(s)!Admits(Work(s)!Due(w)))
  PROVE  WorkMoves(s, w) \/ WorkWrites(s, w)
<1> DEFINE t == job[w].todo
           h == Work(s)!Due(w)
<1>1. /\ job[w].at = "write" /\ ListedTodo(t) /\ h = Head(t)
      /\ \A n \in DOMAIN t : Work(s)!WriteSound(t[n])
  BY DEF Work!IInv, Work!JobSound, Work!Commit, Work!At, Work!Due, Work!Listed, ListedTodo
<1>2. CASE Work(s)!GiveUp(w)
  BY <1>2, WorkGivesUp
<1>3. CASE /\ Work(s)!Admits(h) /\ db' = Work(s)!Written(h)
           /\ IF Tail(t) = <<>> THEN Work(s)!Return(w)
              ELSE Work(s)!Carry(w, [at |-> "write", todo |-> Tail(t)])
  <2> DEFINE j == IF Tail(t) = <<>> THEN Work(s)!Idle ELSE [at |-> "write", todo |-> Tail(t)]
  <2>1. /\ job' = [job EXCEPT ![w] = j]
        /\ Tail(t) = <<>> => j = Work(s)!Idle
        /\ Tail(t) # <<>> => j.at = "write" /\ j.todo = Tail(t)
    BY <1>3 DEF Work!Return, Work!Carry
  <2>2. Work(s)!WriteSound(h)
    BY <1>1, TodoHead
  <2> HIDE DEF j, h
  <2>3. Work(s)!JobSound(j)
    <3>1. CASE Tail(t) = <<>>
      BY <2>1, <3>1 DEF Work!JobSound, Work!Idle
    <3>2. CASE Tail(t) # <<>>
      <4> DEFINE u == Tail(t)
      <4>1. /\ ListedTodo(u) /\ \A n \in DOMAIN u : Work(s)!WriteSound(u[n])
        BY <1>1, <3>2, TodoTail
      <4>2. j.at = "write" /\ j.todo = u
        BY <2>1, <3>2
      <4> HIDE DEF u
      <4> QED BY <4>1, <4>2 DEF Work!JobSound, Work!Listed, ListedTodo
    <3> QED BY <3>1, <3>2
  <2>4. ASSUME WorkInTurn(s)
        PROVE  /\ j = Work(s)!Idle
               /\ Work(s)!FreshWrite(h)
    <3>1. Work(s)!Fresh(job[w])
      BY <2>4 DEF WorkInTurn, Work!SerialInv
    <3>2. Len(t) = 1 /\ Tail(t) = <<>>
      BY <1>1, <3>1, TodoHead DEF Work!Fresh
    <3> QED BY <1>1, <2>1, <3>1, <3>2 DEF Work!Fresh
  <2> QED BY <1>3, <2>1, <2>2, <2>3, <2>4 DEF WorkWrites
<1> QED BY <1>2, <1>3 DEF Work!Commit, Work!Due

LEMMA WorkTakes ==
  ASSUME NEW s \in WorkScenes, Work(s)!IInv, [Work(s)!Next]_<<db, job>>
  PROVE  \E w \in Cast[s].workers : WorkMoves(s, w) \/ WorkWrites(s, w)
<1>1. CASE Work(s)!Proceed
  BY <1>1, WorkHandles, WorkCommits DEF Work!Proceed
<1>2. ASSUME NEW w \in Cast[s].mortals, Work(s)!Die(w) PROVE w \in Cast[s].workers /\ WorkMoves(s, w)
  <2>1. w \in Cast[s].workers /\ Work(s)!GiveUp(w)
    BY <1>2, DeliveryAssumption DEF Work!WorkAssumption, Work!Die, Work!Crash, Work!GiveUp
  <2> QED BY <2>1, WorkGivesUp
<1>3. CASE UNCHANGED <<db, job>>
  <2>1. PICK w \in Cast[s].workers : TRUE
    BY DeliveryAssumption DEF Work!WorkAssumption
  <2>2. job' = [job EXCEPT ![w] = job[w]] /\ Work(s)!JobSound(job[w])
    BY <1>3, CarryStays DEF Work!IInv
  <2>3. WorkMoves(s, w)
    BY <1>3, <2>2 DEF WorkMoves, WorkInTurn, Work!SerialInv
  <2> QED BY <2>3
<1> QED BY <1>1, <1>2, <1>3 DEF Work!Next

LEMMA WorkInit ==
  ASSUME NEW s \in WorkScenes, Work(s)!Empty PROVE Work(s)!IInv /\ Work(s)!SerialInv
<1>1. /\ db = [c \in Work(s)!Collections |-> <<>>]
      /\ job = [w \in Cast[s].workers |-> Work(s)!Idle]
      /\ Work(s)!Collections = DOMAIN Work(s)!RowType
  BY DeliveryAssumption DEF Work!Empty, Work!WorkAssumption
<1>2. /\ DOMAIN db = Work(s)!Collections /\ \A c \in Work(s)!Collections : db[c] = <<>>
      /\ db["executionWorkspaces"] = <<>> /\ db["evidencePackages"] = <<>>
      /\ db["defects"] = <<>> /\ db["progressRecords"] = <<>>
  BY <1>1 DEF Work!RowType
<1>3. Work(s)!TablesTyped(Work(s)!RowType)
  <2>1. \A T : <<>> \in Seq(T)
    OBVIOUS
  <2> QED BY <1>2, <2>1 DEF Work!TablesTyped
<1>4. /\ Work(s)!TablesSound
      /\ Work(s)!SubmittedIsDone /\ Work(s)!ProgressGrows /\ Work(s)!StampsOrdered
  BY <1>2 DEF Work!TablesSound, Work!OneWorkspacePerMilestone, Work!CustodyComplete, Work!ResolvedHasCause,
     Work!EarnedAfterAccepted, Work!SubmittedIsDone, Work!ProgressGrows, Work!StampsOrdered, Work!Ids
<1>5. \A w \in Cast[s].workers : Work(s)!JobSound(job[w]) /\ Work(s)!Fresh(job[w])
  <2> SUFFICES ASSUME NEW w \in Cast[s].workers PROVE Work(s)!JobSound(job[w]) /\ Work(s)!Fresh(job[w])
    OBVIOUS
  <2>1. job[w].at = "idle"
    BY <1>1 DEF Work!Idle
  <2> QED BY <2>1 DEF Work!JobSound, Work!Fresh
<1>6. job = [w \in Cast[s].workers |-> job[w]]
  BY <1>1
<1> QED BY <1>3, <1>4, <1>5, <1>6 DEF Work!IInv, Work!SerialInv

LEMMA WorkPreserves ==
  ASSUME NEW s \in WorkScenes, Work(s)!IInv, [Work(s)!Next]_<<db, job>>
  PROVE  Work(s)!IInv' /\ Work(s)!FinalStays
<1>1. PICK w \in Cast[s].workers : WorkMoves(s, w) \/ WorkWrites(s, w)
  BY WorkTakes
<1>2. job = [v \in Cast[s].workers |-> job[v]] /\ \A v \in Cast[s].workers : Work(s)!JobSound(job[v])
  BY DEF Work!IInv
<1>3. CASE WorkMoves(s, w)
  <2>1. PICK j : job' = [job EXCEPT ![w] = j] /\ UNCHANGED db /\ Work(s)!JobSound(j)
    BY <1>3 DEF WorkMoves
  <2>2. job' = [v \in Cast[s].workers |-> job'[v]] /\ \A v \in Cast[s].workers : Work(s)!JobSound(job'[v])
    BY <1>2, <2>1, CarryMoves
  <2>3. \A i : Work(s)!JobSound(i) => Work(s)!JobSound(i)'
    <3>1. \A g : Work(s)!WriteSound(g) => Work(s)!WriteSound(g)'
      BY <2>1 DEF Work!WriteSound, Work!WriteTyped, Work!Ids, Work!OfItem
    <3> QED BY <3>1 DEF Work!JobSound
  <2>4. Work(s)!TablesTyped(Work(s)!RowType)' /\ Work(s)!TablesSound'
    BY <2>1 DEF Work!IInv, Work!TablesTyped, Work!TablesSound, Work!OneWorkspacePerMilestone,
       Work!CustodyComplete, Work!ResolvedHasCause, Work!EarnedAfterAccepted, Work!Ids, Work!InStatus
  <2>5. Work(s)!IInv'
    BY <2>2, <2>3, <2>4 DEF Work!IInv
  <2>6. Work(s)!FinalStays
    BY <2>1 DEF Work!FinalStays, Work!InStatus, Work!Ids
  <2> QED BY <2>5, <2>6
<1>4. CASE WorkWrites(s, w)
  <2>1. PICK h, j : /\ Work(s)!WriteSound(h) /\ Work(s)!Admits(h) /\ db' = Work(s)!Written(h)
                    /\ job' = [job EXCEPT ![w] = j] /\ Work(s)!JobSound(j)
    BY <1>4 DEF WorkWrites
  <2>2. job' = [v \in Cast[s].workers |-> job'[v]] /\ \A v \in Cast[s].workers : Work(s)!JobSound(job'[v])
    BY <1>2, <2>1, CarryMoves
  <2>3. /\ Work(s)!TablesTyped(Work(s)!RowType)' /\ Work(s)!TablesSound'
        /\ Work(s)!FinalStays
        /\ \A g : Work(s)!WriteSound(g) => Work(s)!WriteSound(g)'
    BY <2>1, WorkWritten
  <2>4. \A i : Work(s)!JobSound(i) => Work(s)!JobSound(i)'
    BY <2>3 DEF Work!JobSound
  <2> QED BY <2>2, <2>3, <2>4 DEF Work!IInv
<1> QED BY <1>1, <1>3, <1>4

(* One request after another: what a fresh write leaves behind.            *)
LEMMA WorkFreshWritten ==
  ASSUME NEW s \in WorkScenes, Work(s)!IInv, NEW h, Work(s)!WriteSound(h), Work(s)!Admits(h),
         db' = Work(s)!Written(h), Work(s)!FreshWrite(h),
         Work(s)!SubmittedIsDone, Work(s)!ProgressGrows, Work(s)!StampsOrdered
  PROVE  /\ Work(s)!SubmittedIsDone' /\ Work(s)!ProgressGrows' /\ Work(s)!StampsOrdered'
         /\ Work(s)!GatePassesClear /\ Work(s)!PackageCovers
<1> USE DEF Work!Ids, Work!InStatus
<1>1. Work(s)!WriteTyped(h, Work(s)!RowType) /\ Work(s)!TablesTyped(Work(s)!RowType)
  BY DEF Work!WriteSound, Work!IInv
<1>2. /\ DOMAIN db = {"executionWorkspaces", "workItems", "progressRecords", "evidenceRequirements",
                      "evidencePackages", "validationTests", "qualityPlans", "defects",
                      "qualityGateResults"}
      /\ \A c \in DOMAIN db : /\ DOMAIN db[c] = 1..Len(db[c]) /\ Len(db[c]) \in Nat
                              /\ \A x \in DOMAIN db[c] : db[c][x] \in Work(s)!RowType[c]
  BY <1>1, WorkTables
<1>3. Lands(db, db', h) /\ Keeps(db, db', h) /\ Adds(db, db', h)
  BY <1>1, WorkLands
<1>4. Work(s)!SubmittedIsDone'
  <2> DEFINE X == "executionWorkspaces"
             I == "workItems"
  <2> SUFFICES ASSUME NEW x \in DOMAIN db'[X], NEW i \in DOMAIN db'[I], db'[X][x].status = "SUBMITTED",
                      db'[I][i].space = x, db'[I][i].status \in {"ASSIGNED", "IN_PROGRESS"}
               PROVE  FALSE
    BY DEF Work!SubmittedIsDone
  <2>1. x \in DOMAIN db[X]
    BY <1>2, <1>3 DEF Adds, Work!WriteSound
  <2>2. CASE h.c # X /\ h.c # I
    BY <1>2, <1>3, <2>1, <2>2 DEF Keeps, Adds, Work!SubmittedIsDone
  <2>3. CASE h.c = X
    <3>1. i \in DOMAIN db[I] /\ db'[I][i] = db[I][i]
      BY <1>2, <1>3, <2>3 DEF Keeps, Adds
    <3>2. db[X][x].status # "SUBMITTED"
      BY <2>1, <3>1 DEF Work!SubmittedIsDone
    <3>3. h.id = x /\ h.row.status = "SUBMITTED"
      BY <1>2, <1>3, <2>1, <3>2 DEF Keeps
    <3> QED BY <2>3, <3>1, <3>3 DEF Work!FreshWrite, Work!OpenItems
  <2>4. CASE h.c = I
    <3>1. db'[X][x] = db[X][x]
      BY <1>2, <1>3, <2>1, <2>4 DEF Keeps
    <3>2. CASE i \in DOMAIN db[I]
      <4>1. db[I][i].space = x
        BY <1>2, <1>3, <2>4, <3>2 DEF Keeps, Work!WriteSound
      <4>2. db[I][i].status \notin {"ASSIGNED", "IN_PROGRESS"}
        BY <2>1, <3>1, <3>2, <4>1 DEF Work!SubmittedIsDone
      <4>3. db[I][i] \in Work(s)!WorkItem
        BY <1>2, <3>2 DEF Work!RowType
      <4>4. db'[I][i] = db[I][i]
        BY <1>2, <1>3, <2>4, <3>2, <4>2, <4>3 DEF Keeps, Work!Admits, Work!Terminal, Work!WorkItem
      <4> QED BY <4>2, <4>4
    <3>3. CASE i \notin DOMAIN db[I]
      <4>1. h.op = "append" /\ db'[I][i] = h.row
        BY <1>2, <1>3, <3>3 DEF Adds
      <4> QED BY <2>4, <3>1, <4>1 DEF Work!FreshWrite
    <3> QED BY <3>2, <3>3
  <2> QED BY <2>2, <2>3, <2>4
<1>5. /\ \A x \in DOMAIN db["progressRecords"] : db'["progressRecords"][x] = db["progressRecords"][x]
      /\ \A x \in DOMAIN db'["progressRecords"] :
           \/ x \in DOMAIN db["progressRecords"]
           \/ /\ h.op = "append" /\ h.c = "progressRecords"
              /\ x = Len(db["progressRecords"]) + 1 /\ db'["progressRecords"][x] = h.row
  BY <1>2, <1>3 DEF Keeps, Adds, Work!WriteSound
<1>6. Work(s)!StampsOrdered'
  <2> DEFINE P == "progressRecords"
  <2> SUFFICES ASSUME NEW x \in DOMAIN db'[P] PROVE db'[P][x].stamp = x - 1
    BY DEF Work!StampsOrdered
  <2>1. CASE x \in DOMAIN db[P]
    BY <1>5, <2>1 DEF Work!StampsOrdered
  <2>2. CASE x \notin DOMAIN db[P]
    <3>1. x = Len(db[P]) + 1 /\ db'[P][x].stamp = Len(db[P]) /\ Len(db[P]) \in Nat
      BY <1>2, <1>5, <2>2 DEF Work!FreshWrite
    <3> QED BY <3>1
  <2> QED BY <2>1, <2>2
<1>7. Work(s)!ProgressGrows'
  <2> DEFINE P == "progressRecords"
  <2> SUFFICES ASSUME NEW x \in DOMAIN db'[P], NEW y \in DOMAIN db'[P], x < y, db'[P][x].item = db'[P][y].item
               PROVE  db'[P][x].stage <= db'[P][y].stage /\ db'[P][x].percent <= db'[P][y].percent
    BY DEF Work!ProgressGrows
  <2>1. x \in DOMAIN db[P]
    <3>1. Len(db[P]) \in Nat /\ DOMAIN db[P] = 1..Len(db[P])
      BY <1>2
    <3>2. CASE y \in DOMAIN db[P]
      <4>1. x \in DOMAIN db[P] \/ x = Len(db[P]) + 1
        BY <1>5
      <4> QED BY <3>1, <3>2, <4>1
    <3>3. CASE y = Len(db[P]) + 1
      <4>1. x \in DOMAIN db[P] \/ x = Len(db[P]) + 1
        BY <1>5
      <4> QED BY <3>1, <3>3, <4>1
    <3> QED BY <1>5, <3>2, <3>3
  <2>2. CASE y \in DOMAIN db[P]
    BY <1>5, <2>1, <2>2 DEF Work!ProgressGrows
  <2>3. CASE y \notin DOMAIN db[P]
    <3>1. h.op = "append" /\ h.c = P /\ db'[P][y] = h.row /\ db'[P][x] = db[P][x]
      BY <1>5, <2>1, <2>3
    <3>2. x \in Work(s)!OfItem(h.row.item)
      BY <2>1, <3>1 DEF Work!OfItem
    <3> QED BY <3>1, <3>2 DEF Work!FreshWrite, Work!NoRegression
  <2> QED BY <2>2, <2>3
<1>8. Work(s)!GatePassesClear
  <2> DEFINE G == "qualityGateResults"
             n == Len(db[G])
             m == Len(db'[G])
  <2> SUFFICES ASSUME m > n, db'[G][m].passed, NEW x \in DOMAIN db["defects"], db["defects"][x].critical
               PROVE  db["defects"][x].status \in {"RESOLVED", "CLOSED"}
    BY DEF Work!GatePassesClear
  <2>1. n \in Nat
    BY <1>2
  <2>2. h.op = "append" /\ h.c = G /\ m = n + 1
    <3>1. h.c = G
      BY <1>2, <1>3, <2>1 DEF Lands
    <3>2. h.op = "append"
      BY <1>1, <3>1 DEF Work!WriteSound, Work!WriteTyped
    <3> QED BY <1>3, <3>1, <3>2 DEF Lands
  <2>3. db'[G][m] = h.row
    BY <1>3, <2>2 DEF Lands, Place
  <2>4. Work(s)!Critical(Work(s)!OpenDefects) = {}
    BY <2>2, <2>3 DEF Work!FreshWrite
  <2>5. db["defects"][x] \in Work(s)!Defect
    BY <1>2 DEF Work!RowType
  <2> QED BY <2>4, <2>5 DEF Work!Critical, Work!OpenDefects, Work!Defect
<1>9. Work(s)!PackageCovers
  <2> DEFINE K == "evidencePackages"
             n == Len(db[K])
             m == Len(db'[K])
  <2> SUFFICES ASSUME m > n, NEW r \in DOMAIN db["evidenceRequirements"], db["evidenceRequirements"][r].mandatory
               PROVE  r \in db'[K][m].files
    BY DEF Work!PackageCovers
  <2>1. n \in Nat
    BY <1>2
  <2>2. h.op = "append" /\ h.c = K /\ m = n + 1
    <3>1. h.c = K
      BY <1>2, <1>3, <2>1 DEF Lands
    <3>2. h.op = "append"
      BY <1>3, <2>1, <3>1 DEF Lands
    <3> QED BY <1>3, <3>1, <3>2 DEF Lands
  <2>3. db'[K][m] = h.row
    BY <1>3, <2>2 DEF Lands, Place
  <2> QED BY <2>2, <2>3 DEF Work!FreshWrite, Work!Covered
<1> QED BY <1>4, <1>6, <1>7, <1>8, <1>9

LEMMA WorkSerial ==
  ASSUME NEW s \in WorkScenes, Work(s)!IInv, Work(s)!SerialInv, [Work(s)!Next]_<<db, job>>
  PROVE  /\ Work(s)!SerialInv'
         /\ Work(s)!InTurn => Work(s)!GatePassesClear /\ Work(s)!PackageCovers
<1> SUFFICES ASSUME Work(s)!InTurn
             PROVE  /\ Work(s)!SubmittedIsDone' /\ Work(s)!ProgressGrows' /\ Work(s)!StampsOrdered'
                    /\ \A v \in Cast[s].workers : Work(s)!Fresh(job[v])'
                    /\ Work(s)!GatePassesClear /\ Work(s)!PackageCovers
  BY DEF Work!SerialInv, Work!InTurn
<1>1. WorkInTurn(s) /\ Work(s)!SubmittedIsDone /\ Work(s)!ProgressGrows /\ Work(s)!StampsOrdered
  BY DEF WorkInTurn, Work!SerialInv
<1>2. PICK w \in Cast[s].workers : WorkMoves(s, w) \/ WorkWrites(s, w)
  BY WorkTakes
<1>3. job = [v \in Cast[s].workers |-> job[v]] /\ \A v \in Cast[s].workers : v = w
  BY <1>2 DEF Work!IInv, Work!InTurn
<1>4. CASE WorkMoves(s, w)
  <2>1. PICK j : job' = [job EXCEPT ![w] = j] /\ UNCHANGED db /\ Work(s)!Fresh(j)
    BY <1>1, <1>4 DEF WorkMoves
  <2>2. \A v \in Cast[s].workers : job'[v] = j
    BY <1>3, <2>1, CarryMoves
  <2>3. Work(s)!Fresh(j)'
    BY <2>1 DEF Work!Fresh, Work!FreshWrite, Work!InStatus, Work!OpenItems, Work!Ids, Work!OfItem,
       Work!Covered, Work!Critical, Work!OpenDefects
  <2>4. Work(s)!SubmittedIsDone' /\ Work(s)!ProgressGrows' /\ Work(s)!StampsOrdered'
    BY <1>1, <2>1 DEF Work!SubmittedIsDone, Work!ProgressGrows, Work!StampsOrdered, Work!InStatus, Work!Ids
  <2>5. Work(s)!TablesTyped(Work(s)!RowType)
    BY DEF Work!IInv
  <2>6. Len(db["qualityGateResults"]) \in Nat /\ Len(db["evidencePackages"]) \in Nat
    BY <2>5, WorkTables
  <2>7. Work(s)!GatePassesClear /\ Work(s)!PackageCovers
    BY <2>1, <2>6 DEF Work!GatePassesClear, Work!PackageCovers
  <2> QED BY <2>2, <2>3, <2>4, <2>7
<1>5. CASE WorkWrites(s, w)
  <2>1. PICK h : /\ Work(s)!WriteSound(h) /\ Work(s)!Admits(h) /\ db' = Work(s)!Written(h)
                 /\ job' = [job EXCEPT ![w] = Work(s)!Idle]
                 /\ Work(s)!FreshWrite(h)
    BY <1>1, <1>5 DEF WorkWrites
  <2>2. \A v \in Cast[s].workers : job'[v] = Work(s)!Idle
    BY <1>3, <2>1, CarryMoves
  <2>3. Work(s)!Fresh(Work(s)!Idle)'
    BY DEF Work!Fresh, Work!Idle
  <2>4. /\ Work(s)!SubmittedIsDone' /\ Work(s)!ProgressGrows' /\ Work(s)!StampsOrdered'
        /\ Work(s)!GatePassesClear /\ Work(s)!PackageCovers
    BY <1>1, <2>1, WorkFreshWritten
  <2> QED BY <2>2, <2>3, <2>4
<1> QED BY <1>2, <1>4, <1>5

----------------------------------------------------------------------------
(* Engines 36 to 40.                                                       *)
LEMMA AssureCardinality ==
  ASSUME NEW s, NEW S PROVE Assurance(s)!Cardinality(S) = Cardinality(S)
  BY DEF Assurance!Cardinality, Cardinality

LEMMA AssureTables ==
  ASSUME NEW s \in CompletionScenes, Assurance(s)!TablesTyped(Assurance(s)!RowType)
  PROVE  /\ DOMAIN db = {"inspections", "issueRecords", "correctiveActionPlans", "changeRequests",
                         "changeApprovals", "acceptanceDecisions", "completionCertificates"}
         /\ Assurance(s)!Collections = DOMAIN db
         /\ \A c \in DOMAIN db : /\ DOMAIN db[c] = 1..Len(db[c]) /\ Len(db[c]) \in Nat
                                 /\ \A x \in DOMAIN db[c] : db[c][x] \in Assurance(s)!RowType[c]
<1>1. DOMAIN db = Assurance(s)!Collections /\ Assurance(s)!Collections = DOMAIN Assurance(s)!RowType
  BY DeliveryAssumption DEF Assurance!TablesTyped, Assurance!CompletionAssumption
<1>2. \A c \in DOMAIN db : db[c] \in Seq(Assurance(s)!RowType[c])
  BY <1>1 DEF Assurance!TablesTyped
<1> QED BY <1>1, <1>2 DEF Assurance!RowType

LEMMA AssureLands ==
  ASSUME NEW s \in CompletionScenes, Assurance(s)!TablesTyped(Assurance(s)!RowType),
         NEW h, Assurance(s)!WriteTyped(h, Assurance(s)!RowType), db' = Assurance(s)!Written(h)
  PROVE  /\ Assurance(s)!TablesTyped(Assurance(s)!RowType)'
         /\ Lands(db, db', h) /\ Keeps(db, db', h) /\ Adds(db, db', h)
<1> DEFINE T == Assurance(s)!RowType
           C == Assurance(s)!Collections
<1>1. Fitting(db, C, T, h) /\ db' = Holding(db, h)
  BY DEF Assurance!TablesTyped, Assurance!WriteTyped, Assurance!Ids, Assurance!Written, Tabled, Fitting, Holding
<1>2. Tabled(db', C, T) /\ Lands(db, db', h) /\ Keeps(db, db', h) /\ Adds(db, db', h)
  <2> HIDE DEF T, C
  <2> QED BY <1>1, Landing
<1> QED BY <1>2 DEF Tabled, Assurance!TablesTyped

(* A change that is about to be approved is approved already.              *)
AssureBacked(s, h) ==
  h.c = "changeRequests" /\ h.row.status \in {"APPROVED", "IMPLEMENTED"} => Assurance(s)!Approved(h.id)

(* What may be written keeps what was, and takes nothing back.             *)
LEMMA AssureWritten ==
  ASSUME NEW s \in CompletionScenes, Assurance(s)!IInv, NEW h, Assurance(s)!WriteSound(h),
         AssureBacked(s, h), Assurance(s)!Admits(h), db' = Assurance(s)!Written(h)
  PROVE  /\ Assurance(s)!TablesTyped(Assurance(s)!RowType)' /\ Assurance(s)!TablesSound'
         /\ \A g : Assurance(s)!WriteSound(g) => Assurance(s)!WriteSound(g)'
         /\ \A x : /\ Assurance(s)!Approved(x) => Assurance(s)!Approved(x)'
                   /\ Assurance(s)!Planned(x) => Assurance(s)!Planned(x)'
                   /\ h = Assurance(s)!NewApproval(x, "APPROVE") => Assurance(s)!Approved(x)'
         /\ \A c \in DOMAIN db : DOMAIN db[c] \subseteq DOMAIN db'[c]
         /\ DOMAIN db' = DOMAIN db
<1> USE DEF Assurance!Ids, Assurance!InStatus
<1>1. /\ Assurance(s)!WriteTyped(h, Assurance(s)!RowType) /\ Assurance(s)!TablesTyped(Assurance(s)!RowType)
      /\ Assurance(s)!TablesSound
  BY DEF Assurance!WriteSound, Assurance!IInv
<1>2. /\ DOMAIN db = {"inspections", "issueRecords", "correctiveActionPlans", "changeRequests",
                      "changeApprovals", "acceptanceDecisions", "completionCertificates"}
      /\ \A c \in DOMAIN db : /\ DOMAIN db[c] = 1..Len(db[c]) /\ Len(db[c]) \in Nat
                              /\ \A x \in DOMAIN db[c] : db[c][x] \in Assurance(s)!RowType[c]
      /\ Assurance(s)!Collections = DOMAIN db
  BY <1>1, AssureTables
<1>3. /\ Assurance(s)!TablesTyped(Assurance(s)!RowType)'
      /\ Lands(db, db', h) /\ Keeps(db, db', h) /\ Adds(db, db', h)
  BY <1>1, AssureLands
<1>4. /\ \A c \in DOMAIN db : DOMAIN db[c] \subseteq DOMAIN db'[c]
      /\ DOMAIN db' = DOMAIN db
  BY <1>2, <1>3 DEF Keeps, Assurance!TablesTyped
(* The rows that were there.                                               *)
<1>5. /\ \A x \in DOMAIN db["inspections"] :
           LET old == db["inspections"][x]
               now == db'["inspections"][x]
           IN now.again = old.again /\ (old.status = "COMPLETED" => now = old)
      /\ \A p \in DOMAIN db["correctiveActionPlans"] :
           LET old == db["correctiveActionPlans"][p]
               now == db'["correctiveActionPlans"][p]
           IN now.issue = old.issue /\ (old.status = "VERIFIED" => now = old)
      /\ \A a \in DOMAIN db["changeApprovals"] : db'["changeApprovals"][a] = db["changeApprovals"][a]
      /\ \A x \in DOMAIN db["acceptanceDecisions"] :
           LET old == db["acceptanceDecisions"][x]
               now == db'["acceptanceDecisions"][x]
           IN now.item = old.item /\ now.prior = old.prior /\ (now.status = "ACTIVE" => now = old)
      /\ \A x \in DOMAIN db["completionCertificates"] :
           LET old == db["completionCertificates"][x]
               now == db'["completionCertificates"][x]
           IN now.number = old.number /\ (now.status = "CERTIFIED" => now = old)
  BY <1>1, <1>2, <1>3 DEF Keeps, Assurance!WriteSound, Assurance!Admits, Assurance!Terminal
<1>6. \A x : Assurance(s)!Planned(x) => Assurance(s)!Planned(x)'
  BY <1>2, <1>4, <1>5 DEF Assurance!Planned
<1>7. \A x : Assurance(s)!Approved(x) => Assurance(s)!Approved(x)'
  BY <1>2, <1>4, <1>5 DEF Assurance!Approved
<1>8. ASSUME NEW x, h = Assurance(s)!NewApproval(x, "APPROVE") PROVE Assurance(s)!Approved(x)'
  <2>1. h.op = "append" /\ h.c = "changeApprovals" /\ h.row = [request |-> x, decision |-> "APPROVE"]
    BY <1>8 DEF Assurance!NewApproval, Assurance!New
  <2>2. /\ Place(db, h) \in DOMAIN db'["changeApprovals"]
        /\ db'["changeApprovals"][Place(db, h)] = [request |-> x, decision |-> "APPROVE"]
    BY <1>3, <2>1 DEF Lands
  <2> QED BY <2>2 DEF Assurance!Approved
<1>9. /\ Assurance(s)!ReinspectsFailure'
      /\ \A x \in DOMAIN db'["inspections"] :
           db'["inspections"][x].again # 0 => db'["inspections"][x].again \in DOMAIN db'["inspections"]
  <2> DEFINE I == "inspections"
  <2> SUFFICES ASSUME NEW x \in DOMAIN db'[I], NEW a, a = db'[I][x].again, a # 0
               PROVE  a \in DOMAIN db'[I] /\ Assurance(s)!Failed(a)'
    BY DEF Assurance!ReinspectsFailure, Assurance!Failed
  <2>1. a \in DOMAIN db[I] /\ Assurance(s)!Failed(a)
    <3>1. CASE x \in DOMAIN db[I]
      BY <1>1, <1>5, <3>1 DEF Assurance!TablesSound, Assurance!ReinspectsFailure
    <3>2. CASE x \notin DOMAIN db[I]
      <4>1. h.op = "append" /\ h.c = I /\ db'[I][x] = h.row
        BY <1>2, <1>3, <3>2 DEF Adds
      <4> QED BY <4>1 DEF Assurance!WriteSound
    <3> QED BY <3>1, <3>2
  <2>2. Assurance(s)!Failed(a)'
    BY <1>5, <2>1 DEF Assurance!Failed
  <2> QED BY <1>2, <1>4, <2>1, <2>2
<1>10. Assurance(s)!ResolvedOnPlan'
  <2> DEFINE I == "issueRecords"
  <2> SUFFICES ASSUME NEW x \in DOMAIN db'[I], db'[I][x].status \in {"RESOLVED", "CLOSED"}
               PROVE  Assurance(s)!Planned(x)'
    BY DEF Assurance!ResolvedOnPlan, Assurance!Planned
  <2>1. x \in DOMAIN db[I]
    BY <1>2, <1>3 DEF Adds, Assurance!WriteSound
  <2>2. CASE db'[I][x] = db[I][x]
    <3>1. Assurance(s)!Planned(x)
      BY <1>1, <2>1, <2>2 DEF Assurance!TablesSound, Assurance!ResolvedOnPlan, Assurance!Planned
    <3> QED BY <1>6, <3>1
  <2>3. CASE db'[I][x] # db[I][x]
    <3>1. h.op = "replace" /\ h.c = I /\ h.id = x /\ db'[I][x] = h.row
      BY <1>2, <1>3, <2>1, <2>3 DEF Keeps
    <3>2. Assurance(s)!Planned(x)
      BY <3>1 DEF Assurance!WriteSound
    <3> QED BY <1>6, <3>2
  <2> QED BY <2>2, <2>3
<1>11. \A p \in DOMAIN db'["correctiveActionPlans"] :
         db'["correctiveActionPlans"][p].issue \in DOMAIN db'["issueRecords"]
  <2> DEFINE P == "correctiveActionPlans"
  <2> SUFFICES ASSUME NEW p \in DOMAIN db'[P] PROVE db'[P][p].issue \in DOMAIN db["issueRecords"]
    BY <1>2, <1>4
  <2>1. CASE p \in DOMAIN db[P]
    BY <1>1, <1>5, <2>1 DEF Assurance!TablesSound
  <2>2. CASE p \notin DOMAIN db[P]
    BY <1>2, <1>3, <2>2 DEF Adds, Assurance!WriteSound
  <2> QED BY <2>1, <2>2
<1>12. \A x \in DOMAIN db'["changeRequests"] :
         db'["changeRequests"][x].status \in {"APPROVED", "IMPLEMENTED"} => Assurance(s)!Approved(x)'
  <2> DEFINE Q == "changeRequests"
  <2> SUFFICES ASSUME NEW x \in DOMAIN db'[Q], db'[Q][x].status \in {"APPROVED", "IMPLEMENTED"}
               PROVE  Assurance(s)!Approved(x)
    BY <1>7
  <2>1. x \in DOMAIN db[Q]
    BY <1>2, <1>3 DEF Adds, Assurance!WriteSound
  <2>2. CASE db'[Q][x] = db[Q][x]
    BY <1>1, <2>1, <2>2 DEF Assurance!TablesSound
  <2>3. CASE db'[Q][x] # db[Q][x]
    <3>1. h.c = Q /\ h.id = x /\ db'[Q][x] = h.row
      BY <1>2, <1>3, <2>1, <2>3 DEF Keeps
    <3> QED BY <3>1 DEF AssureBacked
  <2> QED BY <2>2, <2>3
<1>13. Assurance(s)!OneInForce'
  <2> DEFINE A == "acceptanceDecisions"
             K == "completionCertificates"
  <2>1. ASSUME NEW i \in Cast[s].items PROVE Assurance(s)!Cardinality(Assurance(s)!Active(i)') <= 1
    <3> DEFINE n == Len(db[A])
               m == Len(db'[A])
               S == Assurance(s)!Active(i)
               S2 == Assurance(s)!Active(i)'
    <3>1. S \subseteq 1..n /\ n \in Nat
      BY <1>2 DEF Assurance!Active
    <3>2. S2 \subseteq 1..m /\ m \in Nat
      <4>1. DOMAIN db'[A] = 1..m /\ m \in Nat
        BY <1>2, <1>3, <1>4, LenProperties DEF Assurance!TablesTyped
      <4> QED BY <4>1 DEF Assurance!Active
    <3>3. \A x, y \in S : x = y
      <4>1. Cardinality(S) <= 1
        BY <1>1, AssureCardinality DEF Assurance!TablesSound, Assurance!OneInForce
      <4> HIDE DEF S, n
      <4> QED BY <3>1, <4>1, AtMostOne
    <3>4. \A x \in S2 : x \in S \/ (h.op = "append" /\ h.c = A /\ h.row.item = i /\ x = n + 1)
      <4> SUFFICES ASSUME NEW x \in S2
                   PROVE  x \in S \/ (h.op = "append" /\ h.c = A /\ h.row.item = i /\ x = n + 1)
        OBVIOUS
      <4>1. x \in DOMAIN db'[A] /\ db'[A][x].item = i /\ db'[A][x].status = "ACTIVE"
        BY DEF Assurance!Active
      <4>2. CASE x \in DOMAIN db[A]
        BY <1>5, <4>1, <4>2 DEF Assurance!Active
      <4>3. CASE x \notin DOMAIN db[A]
        BY <1>2, <1>3, <4>1, <4>3 DEF Adds
      <4> QED BY <4>2, <4>3
    <3>5. h.op = "append" /\ h.c = A /\ h.row.item = i => S = {}
      BY DEF Assurance!Admits, Assurance!OneActive, Assurance!Active
    <3>6. \A x, y \in S2 : x = y
      BY <3>3, <3>4, <3>5
    <3>7. Cardinality(S2) <= 1
      <4> HIDE DEF S2, m
      <4> QED BY <3>2, <3>6, AtMostOne
    <3> QED BY <3>7, AssureCardinality
  <2>2. ASSUME NEW x \in DOMAIN db'[K], NEW y \in DOMAIN db'[K], x # y
        PROVE  /\ db'[K][x].number # db'[K][y].number
               /\ db'[K][x].status = "CERTIFIED" /\ db'[K][y].status = "CERTIFIED"
                    => db'[K][x].item # db'[K][y].item
    <3>1. \A z \in DOMAIN db'[K] :
            z \in DOMAIN db[K] \/ (h.op = "append" /\ h.c = K /\ z = Len(db[K]) + 1 /\ db'[K][z] = h.row)
      BY <1>2, <1>3 DEF Adds
    <3>2. h.op = "append" /\ h.c = K =>
            \A z \in DOMAIN db[K] : /\ db[K][z].number # h.row.number
                                    /\ db[K][z].status = "CERTIFIED" => db[K][z].item # h.row.item
      BY DEF Assurance!Admits, Assurance!OneCertified, Assurance!NumberFree
    <3> QED BY <1>1, <1>5, <2>2, <3>1, <3>2 DEF Assurance!TablesSound, Assurance!OneInForce
  <2> QED BY <2>1, <2>2 DEF Assurance!OneInForce
<1>14. ASSUME NEW g, Assurance(s)!WriteSound(g) PROVE Assurance(s)!WriteSound(g)'
  <2>1. /\ Assurance(s)!WriteTyped(g, Assurance(s)!RowType)
        /\ g.c \in DOMAIN db
        /\ g.op = "replace" => g.id \in DOMAIN db[g.c] /\ g.id \in DOMAIN db'[g.c]
    BY <1>2, <1>4, <1>14 DEF Assurance!WriteSound, Assurance!WriteTyped
  <2>2. Assurance(s)!WriteTyped(g, Assurance(s)!RowType)'
    BY <2>1 DEF Assurance!WriteTyped
  <2>3. g.op = "replace" =>
          /\ g.c # "changeApprovals"
          /\ g.c = "inspections" => g.row.status = "COMPLETED" /\ g.row.again = db'["inspections"][g.id].again
          /\ g.c = "issueRecords" /\ g.row.status \in {"RESOLVED", "CLOSED"} => Assurance(s)!Planned(g.id)'
          /\ g.c = "correctiveActionPlans" => g.row.issue = db'["correctiveActionPlans"][g.id].issue
          /\ g.c = "acceptanceDecisions" =>
               /\ g.row.status = "SUPERSEDED"
               /\ g.row.item = db'["acceptanceDecisions"][g.id].item
               /\ g.row.prior = db'["acceptanceDecisions"][g.id].prior
          /\ g.c = "completionCertificates" =>
               g.row.status = "REVOKED" /\ g.row.number = db'["completionCertificates"][g.id].number
    BY <1>5, <1>6, <1>14, <2>1 DEF Assurance!WriteSound
  <2>4. g.op = "append" =>
          /\ g.c = "inspections" =>
               /\ g.row.status = "SCHEDULED"
               /\ g.row.again # 0 => g.row.again \in DOMAIN db'["inspections"] /\ Assurance(s)!Failed(g.row.again)'
          /\ g.c = "issueRecords" => g.row.status = "OPEN"
          /\ g.c = "correctiveActionPlans" => g.row.issue \in DOMAIN db'["issueRecords"]
          /\ g.c = "changeRequests" => g.row.status = "DRAFT"
    BY <1>2, <1>4, <1>5, <1>14 DEF Assurance!WriteSound, Assurance!Failed
  <2> QED BY <2>2, <2>3, <2>4 DEF Assurance!WriteSound
<1>15. Assurance(s)!TablesSound'
  BY <1>9, <1>10, <1>11, <1>12, <1>13 DEF Assurance!TablesSound
<1> QED BY <1>3, <1>4, <1>6, <1>7, <1>8, <1>14, <1>15

(* A request starts or goes on with a job that is sound; if it has its     *)
(* turn with one that is fresh; and if requests are reliable, what is half *)
(* done stays known from it.                                               *)
AssureInTurn(s) == Assurance(s)!InTurn /\ Assurance(s)!SerialInv
AssureReliable(s) == Assurance(s)!Reliable /\ Assurance(s)!ReliableInv

AssureFollows(s, j) == Assurance(s)!IssuesFollow(j) /\ Assurance(s)!SuccessorsFollow(j)

AssureMoves(s, w) ==
  \E j : /\ job' = [job EXCEPT ![w] = j] /\ UNCHANGED db
         /\ Assurance(s)!JobSound(j)
         /\ AssureInTurn(s) => Assurance(s)!Fresh(j)
         /\ AssureReliable(s) => Assurance(s)!Kept(j) /\ AssureFollows(s, j)

(* Nothing is half done.                                                   *)
AssureWhole(s, j) ==
  /\ Assurance(s)!Opening(j) = {} /\ Assurance(s)!Resolving(j) = {} /\ Assurance(s)!Replacing(j) = {}

LEMMA AssureSame ==
  ASSUME NEW s \in CompletionScenes, NEW i, NEW j, AssureWhole(s, i), AssureWhole(s, j), AssureFollows(s, i)
  PROVE  AssureFollows(s, j)
<1>1. Assurance(s)!IssuesFollow(j)
  BY DEF AssureWhole, AssureFollows, Assurance!IssuesFollow
<1>2. Assurance(s)!SuccessorsFollow(j)
  BY DEF AssureWhole, AssureFollows, Assurance!SuccessorsFollow
<1> QED BY <1>1, <1>2 DEF AssureFollows

LEMMA AssureElsewhere ==
  ASSUME NEW s \in CompletionScenes, NEW j,
         j.at \notin {"write", "readIssue"} \/ (j.at = "write" /\ Len(j.todo) = 2)
  PROVE  AssureWhole(s, j)
BY DEF AssureWhole, Assurance!Opening, Assurance!Resolving, Assurance!Replacing, Assurance!OnlyWrite

(* A single write that completes nothing half done.                        *)
AssurePlain(s, h) ==
  /\ Assurance(s)!LastKept(h)
  /\ \A x : h # Assurance(s)!Capa(x) /\ h # Assurance(s)!Resolution(x)
  /\ h.c = "acceptanceDecisions" => h.row.prior = 0

LEMMA AssureAlone ==
  ASSUME NEW s \in CompletionScenes, Assurance(s)!IInv, NEW h, AssurePlain(s, h),
         NEW j, j.at = "write", j.todo = <<h>>
  PROVE  AssureWhole(s, j)
<1>1. DOMAIN db["acceptanceDecisions"] = 1..Len(db["acceptanceDecisions"]) /\ Len(db["acceptanceDecisions"]) \in Nat
  <2>1. Assurance(s)!TablesTyped(Assurance(s)!RowType)
    BY DEF Assurance!IInv
  <2> QED BY <2>1, AssureTables
<1>2. Head(j.todo) = h /\ Len(j.todo) = 1
  BY TodoOfOne
<1> QED BY <1>1, <1>2 DEF AssureWhole, AssurePlain, Assurance!Opening, Assurance!Resolving, Assurance!Replacing,
           Assurance!OnlyWrite, Assurance!Ids

LEMMA AssureAsks ==
  ASSUME NEW s \in CompletionScenes, Assurance(s)!IInv, NEW w \in Cast[s].workers, NEW h,
         \/ Assurance(s)!Ask(w, <<h>>)
         \/ Assurance(s)!Decide(w, <<h>>) /\ job[w].at = "number",
         Assurance(s)!WriteSound(h), AssureBacked(s, h), AssurePlain(s, h),
         h.op = "append" /\ h.c = "completionCertificates" =>
           (AssureInTurn(s) => Assurance(s)!Accepting(h.row.decision))
  PROVE  AssureMoves(s, w)
<1> DEFINE j == [at |-> "write", todo |-> <<h>>]
<1>1. job' = [job EXCEPT ![w] = j] /\ UNCHANGED db /\ job[w].at \in {"idle", "number"}
  BY DEF Assurance!Ask, Assurance!Decide, Assurance!Then, Assurance!Receive, Assurance!Carry, Assurance!At
<1>2. j.at = "write" /\ j.todo = <<h>>
  OBVIOUS
<1> HIDE DEF j
<1>3. Assurance(s)!JobSound(j)
  BY <1>2, TodoOfOne DEF Assurance!JobSound, Assurance!Listed, ListedTodo, Assurance!Decided, AssureBacked
<1>4. AssureInTurn(s) => Assurance(s)!Fresh(j)
  BY <1>2, TodoOfOne DEF Assurance!Fresh
<1>5. Assurance(s)!Kept(j)
  BY <1>2, TodoOfOne DEF Assurance!Kept, AssurePlain
<1>6. AssureReliable(s) => AssureFollows(s, j)
  <2>1. AssureWhole(s, j) /\ AssureWhole(s, job[w])
    BY <1>1, <1>2, AssureAlone, AssureElsewhere
  <2>2. AssureReliable(s) => AssureFollows(s, job[w])
    BY DEF AssureReliable, Assurance!ReliableInv, AssureFollows
  <2> QED BY <2>1, <2>2, AssureSame
<1> QED BY <1>1, <1>3, <1>4, <1>5, <1>6 DEF AssureMoves

LEMMA AssurePairs ==
  ASSUME NEW s \in CompletionScenes, NEW w \in Cast[s].workers, NEW h, NEW g,
         Assurance(s)!Ask(w, <<h, g>>),
         Assurance(s)!WriteSound(h), Assurance(s)!WriteSound(g), AssureBacked(s, h),
         AssureBacked(s, g) \/ h = Assurance(s)!NewApproval(g.id, "APPROVE"),
         Assurance(s)!PairKept(h, g),
         h.c # "completionCertificates", g.c # "completionCertificates"
  PROVE  AssureMoves(s, w)
<1> DEFINE j == [at |-> "write", todo |-> <<h, g>>]
<1>1. job' = [job EXCEPT ![w] = j] /\ UNCHANGED db /\ job[w].at = "idle"
  BY DEF Assurance!Ask, Assurance!Receive, Assurance!Carry, Assurance!At
<1>2. j.at = "write" /\ j.todo = <<h, g>>
  OBVIOUS
<1> HIDE DEF j
<1>3. Assurance(s)!JobSound(j)
  <2>1. Assurance(s)!Listed(j.todo)
    BY <1>2, TodoOfTwo DEF Assurance!Listed, ListedTodo
  <2>2. Assurance(s)!Decided(j.todo, 1) /\ Assurance(s)!Decided(j.todo, 2)
    BY <1>2, TodoOfTwo DEF Assurance!Decided, AssureBacked
  <2> QED BY <1>2, <2>1, <2>2, TodoOfTwo DEF Assurance!JobSound
<1>4. Assurance(s)!Fresh(j)
  BY <1>2, TodoOfTwo DEF Assurance!Fresh
<1>5. Assurance(s)!Kept(j)
  BY <1>2, TodoOfTwo, TodoOfOne DEF Assurance!Kept
<1>6. AssureReliable(s) => AssureFollows(s, j)
  <2>1. AssureWhole(s, j) /\ AssureWhole(s, job[w])
    BY <1>1, <1>2, TodoOfTwo, AssureElsewhere
  <2>2. AssureReliable(s) => AssureFollows(s, job[w])
    BY DEF AssureReliable, Assurance!ReliableInv, AssureFollows
  <2> QED BY <2>1, <2>2, AssureSame
<1> QED BY <1>1, <1>3, <1>4, <1>5, <1>6 DEF AssureMoves

(* A request goes on to another read.                                      *)
LEMMA AssureReads ==
  ASSUME NEW s \in CompletionScenes, NEW w \in Cast[s].workers, NEW j,
         job' = [job EXCEPT ![w] = j], UNCHANGED db,
         Assurance(s)!JobSound(j), j.at # "write", AssureWhole(s, j),
         AssureInTurn(s) => Assurance(s)!Fresh(j), Assurance(s)!Kept(j),
         AssureReliable(s) => AssureWhole(s, job[w])
  PROVE  AssureMoves(s, w)
<1>1. AssureReliable(s) => AssureFollows(s, job[w])
  BY DEF AssureReliable, Assurance!ReliableInv, AssureFollows
<1>2. AssureReliable(s) => AssureFollows(s, j)
  BY <1>1, AssureSame
<1> QED BY <1>2 DEF AssureMoves

LEMMA AssureGivesUp ==
  ASSUME NEW s \in CompletionScenes, NEW w \in Cast[s].workers, Assurance(s)!GiveUp(w),
         AssureReliable(s) => AssureWhole(s, job[w])
  PROVE  AssureMoves(s, w)
<1> DEFINE j == Assurance(s)!Idle
<1>1. j.at = "idle" /\ job' = [job EXCEPT ![w] = j] /\ UNCHANGED db
  BY DEF Assurance!GiveUp, Assurance!Return, Assurance!Carry, Assurance!Idle
<1> HIDE DEF j
<1>2. Assurance(s)!JobSound(j) /\ Assurance(s)!Fresh(j) /\ Assurance(s)!Kept(j) /\ AssureWhole(s, j)
  BY <1>1, AssureElsewhere DEF Assurance!JobSound, Assurance!Fresh, Assurance!Kept
<1> QED BY <1>1, <1>2, AssureReads

LEMMA AssureHandles ==
  ASSUME NEW s \in CompletionScenes, Assurance(s)!IInv, NEW w \in Cast[s].workers, Assurance(s)!Handle(w)
  PROVE  AssureMoves(s, w)
<1> USE DEF Assurance!InStatus, Assurance!Ids, Assurance!New, Assurance!Put, Assurance!Room,
            Assurance!WriteSound, Assurance!WriteTyped, Assurance!RowType, AssureBacked, AssurePlain,
            Assurance!LastKept, Assurance!Capa, Assurance!Resolution
<1>1. /\ DOMAIN db = {"inspections", "issueRecords", "correctiveActionPlans", "changeRequests",
                      "changeApprovals", "acceptanceDecisions", "completionCertificates"}
      /\ Assurance(s)!Collections = DOMAIN db
      /\ \A c \in DOMAIN db : /\ DOMAIN db[c] = 1..Len(db[c]) /\ Len(db[c]) \in Nat
                              /\ \A x \in DOMAIN db[c] : db[c][x] \in Assurance(s)!RowType[c]
  BY AssureTables DEF Assurance!IInv
<1>2. CASE Assurance(s)!Schedule(w)
  <2> DEFINE row(p) == [status |-> "SCHEDULED", passed |-> FALSE, again |-> p]
             h(p) == Assurance(s)!New("inspections", row(p))
  <2>1. PICK p \in {0} \cup DOMAIN db["inspections"] :
          (p # 0 => Assurance(s)!Failed(p)) /\ Assurance(s)!Ask(w, <<h(p)>>)
    BY <1>2 DEF Assurance!Schedule
  <2>2. p \in Nat
    BY <1>1
  <2>3. row(p) \in Assurance(s)!Inspection
    BY <2>2 DEF Assurance!Inspection
  <2>4. Assurance(s)!WriteSound(h(p)) /\ AssurePlain(s, h(p)) /\ AssureBacked(s, h(p))
    BY <1>1, <2>1, <2>3
  <2> QED BY <2>1, <2>4, AssureAsks
<1>3. CASE Assurance(s)!Complete(w)
  <2> DEFINE row(x, p) == [db["inspections"][x] EXCEPT !.status = "COMPLETED", !.passed = p]
             h(x, p) == Assurance(s)!PutInspection(x, row(x, p))
  <2>1. PICK x \in DOMAIN db["inspections"], p \in BOOLEAN : Assurance(s)!Ask(w, <<h(x, p)>>)
    BY <1>3 DEF Assurance!Complete
  <2>2. db["inspections"][x] \in Assurance(s)!Inspection
    BY <1>1
  <2>3. /\ row(x, p) \in Assurance(s)!Inspection /\ row(x, p).again = db["inspections"][x].again
        /\ row(x, p).status = "COMPLETED"
    BY <2>2 DEF Assurance!Inspection
  <2>4. Assurance(s)!WriteSound(h(x, p)) /\ AssurePlain(s, h(x, p)) /\ AssureBacked(s, h(x, p))
    BY <1>1, <2>3 DEF Assurance!PutInspection
  <2> QED BY <2>1, <2>4, AssureAsks DEF Assurance!PutInspection
<1>4. CASE Assurance(s)!Raise(w)
  <2> DEFINE h == Assurance(s)!New("issueRecords", [status |-> "OPEN"])
  <2>1. Assurance(s)!Ask(w, <<h>>)
    BY <1>4 DEF Assurance!Raise
  <2>2. Assurance(s)!WriteSound(h) /\ AssurePlain(s, h) /\ AssureBacked(s, h)
    BY <1>1 DEF Assurance!IssueRecord
  <2> QED BY <2>1, <2>2, AssureAsks
<1>5. CASE Assurance(s)!Escalate(w)
  <2> DEFINE h(x) == Assurance(s)!PutIssue(x, "ESCALATED")
  <2>1. PICK x \in DOMAIN db["issueRecords"] :
          Assurance(s)!InStatus("issueRecords", x, {"OPEN"}) /\ Assurance(s)!Ask(w, <<h(x)>>)
    BY <1>5 DEF Assurance!Escalate
  <2>2. /\ h(x).op = "replace" /\ h(x).c = "issueRecords" /\ h(x).id = x
        /\ h(x).row = [status |-> "ESCALATED"] /\ h(x).row \in Assurance(s)!IssueRecord
    BY <1>1 DEF Assurance!PutIssue, Assurance!Set, Assurance!IssueRecord
  <2>3. Assurance(s)!WriteSound(h(x)) /\ AssurePlain(s, h(x)) /\ AssureBacked(s, h(x))
    BY <1>1, <2>1, <2>2
  <2> QED BY <2>1, <2>2, <2>3, AssureAsks
<1>6. CASE Assurance(s)!OpenCapa(w)
  <2> DEFINE h(x) == Assurance(s)!New("correctiveActionPlans", [status |-> "OPEN", issue |-> x])
             g(x) == Assurance(s)!PutIssue(x, "CAPA_IN_PROGRESS")
  <2>1. PICK x \in DOMAIN db["issueRecords"] :
          Assurance(s)!InStatus("issueRecords", x, {"OPEN", "ESCALATED"}) /\ Assurance(s)!Ask(w, <<h(x), g(x)>>)
    BY <1>6 DEF Assurance!OpenCapa
  <2>2. /\ g(x) = Assurance(s)!Capa(x) /\ g(x).op = "replace" /\ g(x).c = "issueRecords" /\ g(x).id = x
        /\ g(x).row = [status |-> "CAPA_IN_PROGRESS"] /\ g(x).row \in Assurance(s)!IssueRecord
    BY <1>1 DEF Assurance!PutIssue, Assurance!Set, Assurance!IssueRecord
  <2>3. x \in Nat
    BY <1>1
  <2>4. Assurance(s)!WriteSound(h(x)) /\ AssureBacked(s, h(x))
    BY <1>1, <2>3 DEF Assurance!CorrectiveActionPlan
  <2>5. Assurance(s)!WriteSound(g(x)) /\ AssureBacked(s, g(x))
    BY <1>1, <2>2
  <2>6. Assurance(s)!PairKept(h(x), g(x))
    BY <2>1, <2>2 DEF Assurance!PairKept
  <2> QED BY <2>1, <2>2, <2>4, <2>5, <2>6, AssurePairs
<1>7. CASE Assurance(s)!CompleteCapa(w)
  <2> DEFINE P == "correctiveActionPlans"
             h(p) == Assurance(s)!PutPlan(p, "COMPLETED")
  <2>1. PICK p \in DOMAIN db[P] : Assurance(s)!InStatus(P, p, {"OPEN"}) /\ Assurance(s)!Ask(w, <<h(p)>>)
    BY <1>7 DEF Assurance!CompleteCapa
  <2>2. db[P][p] \in Assurance(s)!CorrectiveActionPlan
    BY <1>1
  <2>3. /\ h(p).op = "replace" /\ h(p).c = P /\ h(p).id = p /\ h(p).row \in Assurance(s)!CorrectiveActionPlan
        /\ h(p).row.status = "COMPLETED" /\ h(p).row.issue = db[P][p].issue
    BY <2>2 DEF Assurance!PutPlan, Assurance!Set, Assurance!CorrectiveActionPlan
  <2>4. Assurance(s)!WriteSound(h(p)) /\ AssurePlain(s, h(p)) /\ AssureBacked(s, h(p))
    BY <1>1, <2>1, <2>3
  <2> QED BY <2>1, <2>3, <2>4, AssureAsks
<1>8. CASE Assurance(s)!VerifyResolution(w)
  <2> DEFINE P == "correctiveActionPlans"
             h(p) == Assurance(s)!PutPlan(p, "VERIFIED")
             j(p) == [at |-> "verify", put |-> h(p)]
  <2>1. PICK p \in DOMAIN db[P] : Assurance(s)!InStatus(P, p, {"COMPLETED"}) /\ Assurance(s)!Look(w, j(p))
    BY <1>8 DEF Assurance!VerifyResolution
  <2>2. db[P][p] \in Assurance(s)!CorrectiveActionPlan
    BY <1>1
  <2>3. /\ h(p).op = "replace" /\ h(p).c = P /\ h(p).id = p /\ h(p).row \in Assurance(s)!CorrectiveActionPlan
        /\ h(p).row.status = "VERIFIED" /\ h(p).row.issue = db[P][p].issue
    BY <2>2 DEF Assurance!PutPlan, Assurance!Set, Assurance!CorrectiveActionPlan
  <2>4. Assurance(s)!WriteSound(h(p))
    BY <1>1, <2>3
  <2>5. /\ Assurance(s)!JobSound(j(p)) /\ Assurance(s)!Fresh(j(p)) /\ Assurance(s)!Kept(j(p))
        /\ AssureWhole(s, j(p))
    BY <2>1, <2>3, <2>4, AssureElsewhere DEF Assurance!JobSound, Assurance!Fresh, Assurance!Kept
  <2>6. job' = [job EXCEPT ![w] = j(p)] /\ UNCHANGED db /\ job[w].at = "idle"
    BY <2>1 DEF Assurance!Look, Assurance!Receive, Assurance!Carry, Assurance!At
  <2> HIDE DEF j
  <2>7. j(p).at # "write" /\ AssureWhole(s, job[w])
    BY <2>6, AssureElsewhere DEF j
  <2> QED BY <2>5, <2>6, <2>7, AssureReads
<1>9. CASE Assurance(s)!CloseIssue(w)
  <2> DEFINE h(x) == Assurance(s)!PutIssue(x, "CLOSED")
  <2>1. PICK x \in DOMAIN db["issueRecords"] :
          Assurance(s)!InStatus("issueRecords", x, {"RESOLVED"}) /\ Assurance(s)!Ask(w, <<h(x)>>)
    BY <1>9 DEF Assurance!CloseIssue
  <2>2. /\ h(x).op = "replace" /\ h(x).c = "issueRecords" /\ h(x).id = x
        /\ h(x).row = [status |-> "CLOSED"] /\ h(x).row \in Assurance(s)!IssueRecord
    BY <1>1 DEF Assurance!PutIssue, Assurance!Set, Assurance!IssueRecord
  <2>3. Assurance(s)!Planned(x)
    BY <2>1 DEF Assurance!IInv, Assurance!TablesSound, Assurance!ResolvedOnPlan, Assurance!Planned
  <2>4. Assurance(s)!WriteSound(h(x)) /\ AssurePlain(s, h(x)) /\ AssureBacked(s, h(x))
    BY <1>1, <2>1, <2>2, <2>3
  <2> QED BY <2>1, <2>2, <2>4, AssureAsks
<1>10. CASE Assurance(s)!Draft(w)
  <2> DEFINE h == Assurance(s)!New("changeRequests", [status |-> "DRAFT"])
  <2>1. Assurance(s)!Ask(w, <<h>>)
    BY <1>10 DEF Assurance!Draft
  <2>2. Assurance(s)!WriteSound(h) /\ AssurePlain(s, h) /\ AssureBacked(s, h)
    BY <1>1 DEF Assurance!ChangeRequest
  <2> QED BY <2>1, <2>2, AssureAsks
<1>11. CASE Assurance(s)!Submit(w)
  <2> DEFINE h(x) == Assurance(s)!PutChange(x, "SUBMITTED")
  <2>1. PICK x \in DOMAIN db["changeRequests"] : Assurance(s)!Ask(w, <<h(x)>>)
    BY <1>11 DEF Assurance!Submit
  <2>2. /\ h(x).op = "replace" /\ h(x).c = "changeRequests" /\ h(x).id = x
        /\ h(x).row = [status |-> "SUBMITTED"] /\ h(x).row \in Assurance(s)!ChangeRequest
    BY <1>1 DEF Assurance!PutChange, Assurance!Set, Assurance!ChangeRequest
  <2>3. Assurance(s)!WriteSound(h(x)) /\ AssurePlain(s, h(x)) /\ AssureBacked(s, h(x))
    BY <1>1, <2>2
  <2> QED BY <2>1, <2>2, <2>3, AssureAsks
<1>12. CASE Assurance(s)!DecideChange(w)
  <2> DEFINE to(d) == IF d = "APPROVE" THEN "APPROVED" ELSE "REJECTED"
             h(x, d) == Assurance(s)!NewApproval(x, d)
             g(x, d) == Assurance(s)!PutChange(x, to(d))
  <2>1. PICK x \in DOMAIN db["changeRequests"], d \in {"APPROVE", "REJECT"} :
          Assurance(s)!Ask(w, <<h(x, d), g(x, d)>>)
    BY <1>12 DEF Assurance!DecideChange
  <2>2. /\ g(x, d).op = "replace" /\ g(x, d).c = "changeRequests" /\ g(x, d).id = x
        /\ g(x, d).row = [status |-> to(d)] /\ g(x, d).row \in Assurance(s)!ChangeRequest
    BY <1>1 DEF Assurance!PutChange, Assurance!Set, Assurance!ChangeRequest
  <2>3. x \in Nat
    BY <1>1
  <2>4. Assurance(s)!WriteSound(h(x, d)) /\ AssureBacked(s, h(x, d))
    BY <1>1, <2>3 DEF Assurance!NewApproval, Assurance!ChangeApproval
  <2>5. Assurance(s)!WriteSound(g(x, d))
    BY <1>1, <2>2
  <2>6. AssureBacked(s, g(x, d)) \/ h(x, d) = Assurance(s)!NewApproval(g(x, d).id, "APPROVE")
    BY <2>2
  <2>7. Assurance(s)!PairKept(h(x, d), g(x, d))
    BY <2>2 DEF Assurance!PairKept, Assurance!NewApproval
  <2> QED BY <2>1, <2>2, <2>4, <2>5, <2>6, <2>7, AssurePairs DEF Assurance!NewApproval
<1>13. CASE Assurance(s)!Implement(w)
  <2> DEFINE h(x) == Assurance(s)!PutChange(x, "IMPLEMENTED")
  <2>1. PICK x \in DOMAIN db["changeRequests"] :
          Assurance(s)!InStatus("changeRequests", x, {"APPROVED"}) /\ Assurance(s)!Ask(w, <<h(x)>>)
    BY <1>13 DEF Assurance!Implement
  <2>2. /\ h(x).op = "replace" /\ h(x).c = "changeRequests" /\ h(x).id = x
        /\ h(x).row = [status |-> "IMPLEMENTED"] /\ h(x).row \in Assurance(s)!ChangeRequest
    BY <1>1 DEF Assurance!PutChange, Assurance!Set, Assurance!ChangeRequest
  <2>3. Assurance(s)!Approved(x)
    BY <2>1 DEF Assurance!IInv, Assurance!TablesSound
  <2>4. Assurance(s)!WriteSound(h(x)) /\ AssurePlain(s, h(x)) /\ AssureBacked(s, h(x))
    BY <1>1, <2>2, <2>3
  <2> QED BY <2>1, <2>2, <2>4, AssureAsks
<1>14. CASE Assurance(s)!DecideAcceptance(w)
  <2> DEFINE A == "acceptanceDecisions"
             row(i, a, p) == [status |-> "ACTIVE", item |-> i, accepts |-> a, prior |-> p]
             g(i, a, p) == Assurance(s)!New(A, row(i, a, p))
  <2>1. PICK i \in Cast[s].items, a \in BOOLEAN :
          \E p \in IF Assurance(s)!Active(i) = {} THEN {0} ELSE Assurance(s)!Active(i) :
            /\ Assurance(s)!Room(A)
            /\ Assurance(s)!Ask(w, Assurance(s)!Supersede(p) \o <<g(i, a, p)>>)
    BY <1>14 DEF Assurance!DecideAcceptance
  <2>2. PICK p \in IF Assurance(s)!Active(i) = {} THEN {0} ELSE Assurance(s)!Active(i) :
          Assurance(s)!Room(A) /\ Assurance(s)!Ask(w, Assurance(s)!Supersede(p) \o <<g(i, a, p)>>)
    BY <2>1
  <2>3. 0 \notin DOMAIN db[A] /\ \A x \in DOMAIN db[A] : x \in Nat
    BY <1>1
  <2>4. CASE Assurance(s)!Active(i) = {}
    <3>1. p = 0 /\ Assurance(s)!Ask(w, <<g(i, a, p)>>)
      <4>1. p = 0 /\ <<>> \o <<g(i, a, p)>> = <<g(i, a, p)>>
        BY <2>2, <2>4
      <4> QED BY <2>2, <4>1 DEF Assurance!Supersede
    <3>2. row(i, a, p) \in Assurance(s)!AcceptanceDecision
      BY <3>1 DEF Assurance!AcceptanceDecision
    <3>3. Assurance(s)!WriteSound(g(i, a, p)) /\ AssurePlain(s, g(i, a, p)) /\ AssureBacked(s, g(i, a, p))
      BY <1>1, <2>2, <2>4, <3>1, <3>2
    <3> QED BY <3>1, <3>3, AssureAsks
  <2>5. CASE Assurance(s)!Active(i) # {}
    <3> DEFINE h(x) == Assurance(s)!PutDecision(x, "SUPERSEDED")
    <3>1. /\ p \in DOMAIN db[A] /\ db[A][p].item = i /\ Assurance(s)!InStatus(A, p, {"ACTIVE"})
      BY <2>2, <2>5 DEF Assurance!Active
    <3>2. Assurance(s)!Ask(w, <<h(p), g(i, a, p)>>)
      <4>1. p # 0 /\ <<h(p)>> \o <<g(i, a, p)>> = <<h(p), g(i, a, p)>>
        BY <2>3, <3>1, TodoOfTwo
      <4> QED BY <2>2, <4>1 DEF Assurance!Supersede
    <3>3. row(i, a, p) \in Assurance(s)!AcceptanceDecision
      BY <2>3, <3>1 DEF Assurance!AcceptanceDecision
    <3>4. Assurance(s)!WriteSound(g(i, a, p)) /\ AssureBacked(s, g(i, a, p))
      BY <1>1, <3>3
    <3>5. /\ h(p).op = "replace" /\ h(p).c = A /\ h(p).id = p /\ h(p).row \in Assurance(s)!AcceptanceDecision
          /\ h(p).row.status = "SUPERSEDED" /\ h(p).row.item = db[A][p].item
          /\ h(p).row.prior = db[A][p].prior
      <4>1. db[A][p] \in Assurance(s)!AcceptanceDecision
        BY <1>1, <3>1
      <4> QED BY <4>1 DEF Assurance!PutDecision, Assurance!Set, Assurance!AcceptanceDecision
    <3>6. Assurance(s)!WriteSound(h(p)) /\ AssureBacked(s, h(p))
      BY <1>1, <3>1, <3>5
    <3>7. Assurance(s)!PairKept(h(p), g(i, a, p))
      BY <2>2, <3>1, <3>5 DEF Assurance!PairKept
    <3> QED BY <3>2, <3>4, <3>5, <3>6, <3>7, AssurePairs
  <2> QED BY <2>4, <2>5
<1>15. CASE Assurance(s)!Issue(w)
  <2> DEFINE j(i, d) == [at |-> "readDecision", item |-> i, decision |-> d]
  <2>1. PICK i \in Cast[s].items, d \in DOMAIN db["acceptanceDecisions"] : Assurance(s)!Look(w, j(i, d))
    BY <1>15 DEF Assurance!Issue
  <2>2. /\ Assurance(s)!JobSound(j(i, d)) /\ Assurance(s)!Fresh(j(i, d)) /\ Assurance(s)!Kept(j(i, d))
        /\ AssureWhole(s, j(i, d))
    BY AssureElsewhere DEF Assurance!JobSound, Assurance!Fresh, Assurance!Kept
  <2>3. job' = [job EXCEPT ![w] = j(i, d)] /\ UNCHANGED db /\ job[w].at = "idle"
    BY <2>1 DEF Assurance!Look, Assurance!Receive, Assurance!Carry, Assurance!At
  <2>4. j(i, d).at # "write" /\ AssureWhole(s, job[w])
    BY <2>3, AssureElsewhere
  <2> HIDE DEF j
  <2> QED BY <2>2, <2>3, <2>4, AssureReads
<1>16. CASE Assurance(s)!Revoke(w)
  <2> DEFINE K == "completionCertificates"
             h(x) == Assurance(s)!PutCertificate(x, "REVOKED")
  <2>1. PICK x \in DOMAIN db[K] : Assurance(s)!Ask(w, <<h(x)>>)
    BY <1>16 DEF Assurance!Revoke
  <2>2. db[K][x] \in Assurance(s)!CompletionCertificate
    BY <1>1
  <2>3. /\ h(x).op = "replace" /\ h(x).c = K /\ h(x).id = x /\ h(x).row \in Assurance(s)!CompletionCertificate
        /\ h(x).row.status = "REVOKED" /\ h(x).row.number = db[K][x].number
    BY <2>2 DEF Assurance!PutCertificate, Assurance!Set, Assurance!CompletionCertificate
  <2>4. Assurance(s)!WriteSound(h(x)) /\ AssurePlain(s, h(x)) /\ AssureBacked(s, h(x))
    BY <1>1, <2>1, <2>3
  <2> QED BY <2>1, <2>3, <2>4, AssureAsks
<1> QED BY <1>2, <1>3, <1>4, <1>5, <1>6, <1>7, <1>8, <1>9, <1>10, <1>11, <1>12, <1>13, <1>14,
           <1>15, <1>16 DEF Assurance!Handle

(* The write a request makes, and where it goes on from there.             *)
AssureMakes(s, w, h, j) ==
  \/ /\ job[w].at = "verify" /\ h = job[w].put
     /\ j = [at |-> "readIssue", issue |-> h.row.issue]
  \/ /\ job[w].at = "write" /\ h = Head(job[w].todo)
     /\ j = IF Tail(job[w].todo) = <<>> THEN Assurance(s)!Idle
            ELSE [at |-> "write", todo |-> Tail(job[w].todo)]

AssureWrites(s, w) ==
  \E h, j : /\ AssureMakes(s, w, h, j) /\ job' = [job EXCEPT ![w] = j]
            /\ Assurance(s)!Admits(h) /\ db' = Assurance(s)!Written(h)

LEMMA AssureMade ==
  ASSUME NEW s \in CompletionScenes, Assurance(s)!IInv, NEW w \in Cast[s].workers, NEW h, NEW j,
         AssureMakes(s, w, h, j), Assurance(s)!Admits(h), db' = Assurance(s)!Written(h)
  PROVE  /\ Assurance(s)!WriteSound(h) /\ AssureBacked(s, h) /\ Assurance(s)!JobSound(j)'
         /\ AssureInTurn(s) =>
              /\ Assurance(s)!Fresh(j)'
              /\ h.op = "append" /\ h.c = "completionCertificates" => Assurance(s)!Accepting(h.row.decision)
<1>1. Assurance(s)!JobSound(job[w])
  BY DEF Assurance!IInv
<1>2. AssureInTurn(s) => Assurance(s)!Fresh(job[w])
  BY DEF AssureInTurn, Assurance!SerialInv
<1>3. CASE /\ job[w].at = "verify" /\ h = job[w].put
           /\ j = [at |-> "readIssue", issue |-> h.row.issue]
  <2>1. /\ Assurance(s)!WriteSound(h) /\ h.op = "replace" /\ h.c = "correctiveActionPlans"
        /\ h.row.status = "VERIFIED"
    BY <1>1, <1>3 DEF Assurance!JobSound
  <2>2. AssureBacked(s, h)
    BY <2>1 DEF AssureBacked
  <2>3. Assurance(s)!WriteTyped(h, Assurance(s)!RowType) /\ Assurance(s)!TablesTyped(Assurance(s)!RowType)
    BY <2>1 DEF Assurance!WriteSound, Assurance!IInv
  <2>4. h.id \in DOMAIN db'["correctiveActionPlans"] /\ db'["correctiveActionPlans"][h.id] = h.row
    BY <2>1, <2>3, AssureLands DEF Lands, Place
  <2>5. Assurance(s)!Planned(h.row.issue)'
    BY <2>1, <2>4 DEF Assurance!Planned, Assurance!InStatus, Assurance!Ids
  <2>6. h.row.issue \in DOMAIN db["issueRecords"]
    BY <2>1, <2>3 DEF Assurance!WriteSound, Assurance!WriteTyped, Assurance!IInv, Assurance!TablesSound, Assurance!Ids
  <2>7. h.row.issue \in DOMAIN db'["issueRecords"]
    BY <2>1, <2>2, <2>3, <2>6, AssureWritten, AssureTables
  <2>8. j.at = "readIssue" /\ j.issue = h.row.issue
    BY <1>3
  <2> HIDE DEF AssureMakes
  <2>9. Assurance(s)!JobSound(j)'
    BY <2>5, <2>7, <2>8 DEF Assurance!JobSound, Assurance!Ids
  <2>10. Assurance(s)!Fresh(j)'
    BY <2>8 DEF Assurance!Fresh
  <2> QED BY <2>1, <2>2, <2>9, <2>10
<1>4. CASE /\ job[w].at = "write" /\ h = Head(job[w].todo)
           /\ j = IF Tail(job[w].todo) = <<>> THEN Assurance(s)!Idle
                  ELSE [at |-> "write", todo |-> Tail(job[w].todo)]
  <2> PICK t : t = job[w].todo
    OBVIOUS
  <2> DEFINE u == Tail(t)
  <2>1. ListedTodo(t) /\ \A n \in DOMAIN t : Assurance(s)!WriteSound(t[n]) /\ Assurance(s)!Decided(t, n)
    BY <1>1, <1>4 DEF Assurance!JobSound, Assurance!Listed, ListedTodo
  <2>2. DOMAIN t = 1..Len(t) /\ 1 \in DOMAIN t /\ h = t[1] /\ 0 \notin DOMAIN t
    BY <1>4, <2>1, TodoHead
  <2>3. Assurance(s)!WriteSound(h) /\ AssureBacked(s, h)
    BY <2>1, <2>2 DEF Assurance!Decided, AssureBacked
  <2>4. AssureInTurn(s) =>
          (h.op = "append" /\ h.c = "completionCertificates" => Assurance(s)!Accepting(h.row.decision))
    BY <1>2, <1>4, <2>2 DEF Assurance!Fresh
  <2>5. CASE u = <<>>
    <3>1. j.at = "idle"
      BY <1>4, <2>5 DEF Assurance!Idle
    <3>2. Assurance(s)!JobSound(j)' /\ Assurance(s)!Fresh(j)'
      BY <3>1 DEF Assurance!JobSound, Assurance!Fresh
    <3> QED BY <2>3, <2>4, <3>2
  <2>6. CASE u # <<>>
    <3>1. j.at = "write" /\ j.todo = u
      BY <1>4, <2>6
    <3>2. ListedTodo(u) /\ \A n \in DOMAIN u : n \in Nat \ {0} /\ n + 1 \in DOMAIN t /\ u[n] = t[n + 1]
      BY <2>1, <2>6, TodoTail
    <3>3. /\ \A g : Assurance(s)!WriteSound(g) => Assurance(s)!WriteSound(g)'
          /\ \A x : /\ Assurance(s)!Approved(x) => Assurance(s)!Approved(x)'
                    /\ h = Assurance(s)!NewApproval(x, "APPROVE") => Assurance(s)!Approved(x)'
      BY <2>3, AssureWritten
    <3>4. ASSUME NEW n \in DOMAIN u PROVE Assurance(s)!WriteSound(u[n])' /\ Assurance(s)!Decided(u, n)'
      <4>1. n \in Nat \ {0} /\ n + 1 \in DOMAIN t /\ u[n] = t[n + 1]
        BY <3>2
      <4>2. Assurance(s)!WriteSound(u[n]) /\ Assurance(s)!Decided(t, n + 1)
        BY <2>1, <4>1
      <4> DEFINE e == u[n]
      <4>3. ASSUME e.c = "changeRequests", e.row.status \in {"APPROVED", "IMPLEMENTED"}
            PROVE  Assurance(s)!Approved(e.id)' \/
                   (n - 1 \in DOMAIN u /\ u[n - 1] = Assurance(s)!NewApproval(e.id, "APPROVE"))
        <5>1. \/ Assurance(s)!Approved(e.id)
              \/ n + 1 - 1 \in DOMAIN t /\ t[n + 1 - 1] = Assurance(s)!NewApproval(e.id, "APPROVE")
          BY <4>1, <4>2, <4>3 DEF Assurance!Decided
        <5>2. n + 1 - 1 = n
          BY <4>1
        <5>3. CASE Assurance(s)!Approved(e.id)
          BY <3>3, <5>3
        <5>4. CASE n = 1 /\ t[n] = Assurance(s)!NewApproval(e.id, "APPROVE")
          BY <2>2, <3>3, <5>4
        <5>5. CASE n # 1 /\ t[n] = Assurance(s)!NewApproval(e.id, "APPROVE")
          <6>1. DOMAIN u = 1..Len(u) /\ Len(u) \in Nat
            BY <3>2, TodoHead
          <6>2. n - 1 \in DOMAIN u /\ n - 1 + 1 = n
            BY <4>1, <5>5, <6>1
          <6>3. u[n - 1] = t[n]
            BY <3>2, <6>2
          <6> QED BY <5>5, <6>2, <6>3
        <5> QED BY <5>1, <5>2, <5>3, <5>4, <5>5
      <4>4. Assurance(s)!Decided(u, n)'
        BY <4>3 DEF Assurance!Decided, Assurance!NewApproval, Assurance!New
      <4>5. Assurance(s)!WriteSound(u[n])'
        BY <3>3, <4>2
      <4> QED BY <4>4, <4>5
    <3> HIDE DEF u
    <3>5. Assurance(s)!JobSound(j)'
      BY <3>1, <3>2, <3>4 DEF Assurance!JobSound, Assurance!Listed, ListedTodo
    <3>6. AssureInTurn(s) => Assurance(s)!Fresh(j)'
      <4> SUFFICES ASSUME AssureInTurn(s), NEW n \in DOMAIN u
                   PROVE  ~(u[n].op = "append" /\ u[n].c = "completionCertificates")
        BY <3>1 DEF Assurance!Fresh
      <4>1. n + 1 \in DOMAIN t /\ u[n] = t[n + 1] /\ n + 1 # 1
        BY <3>2
      <4> QED BY <1>2, <1>4, <4>1 DEF Assurance!Fresh
    <3> QED BY <2>3, <2>4, <3>5, <3>6
  <2> QED BY <2>5, <2>6
<1> QED BY <1>3, <1>4 DEF AssureMakes

LEMMA AssureTodo ==
  ASSUME NEW s \in CompletionScenes, Assurance(s)!IInv, NEW w \in Cast[s].workers, job[w].at = "write"
  PROVE  /\ ListedTodo(job[w].todo)
         /\ Assurance(s)!WriteSound(Head(job[w].todo)) /\ AssureBacked(s, Head(job[w].todo))
<1> PICK t : t = job[w].todo
  OBVIOUS
<1>1. ListedTodo(t) /\ \A n \in DOMAIN t : Assurance(s)!WriteSound(t[n]) /\ Assurance(s)!Decided(t, n)
  BY DEF Assurance!IInv, Assurance!JobSound, Assurance!Listed, ListedTodo
<1>2. 1 \in DOMAIN t /\ Head(t) = t[1] /\ 0 \notin DOMAIN t
  BY <1>1, TodoHead
<1> QED BY <1>1, <1>2 DEF Assurance!Decided, AssureBacked

(* A reliable request is refused nothing that others wait for.             *)
LEMMA AssureRefused ==
  ASSUME NEW s \in CompletionScenes, Assurance(s)!IInv, NEW w \in Cast[s].workers, job[w].at = "write",
         NEW h, h = Head(job[w].todo),
         ~Assurance(s)!Admits(h) \/ (h.op = "append" /\ ~Assurance(s)!Room(h.c)),
         AssureReliable(s)
  PROVE  AssureFollows(s, Assurance(s)!Idle)
<1> USE DEF Assurance!Ids, Assurance!InStatus
<1>1. /\ AssureFollows(s, job[w]) /\ Assurance(s)!Kept(job[w]) /\ Assurance(s)!WriteSound(h)
  BY AssureTodo DEF AssureReliable, Assurance!ReliableInv, AssureFollows
<1>2. AssureWhole(s, Assurance(s)!Idle)
  BY AssureElsewhere DEF Assurance!Idle
<1>3. CASE Len(job[w].todo) = 2
  <2>1. AssureWhole(s, job[w])
    BY <1>3, AssureElsewhere
  <2> QED BY <1>1, <1>2, <2>1, AssureSame
<1>4. CASE Len(job[w].todo) = 1 /\ Assurance(s)!LastKept(h)
  <2>1. h.c # "acceptanceDecisions"
    BY <1>4 DEF Assurance!LastKept, Assurance!Admits, Assurance!OneActive, Assurance!Active
  <2>2. Assurance(s)!Replacing(job[w]) = {} /\ Assurance(s)!Replacing(Assurance(s)!Idle) = {}
    BY <1>2, <2>1 DEF AssureWhole, Assurance!Replacing
  <2>3. Assurance(s)!SuccessorsFollow(Assurance(s)!Idle)
    BY <1>1, <2>2 DEF AssureFollows, Assurance!SuccessorsFollow
  <2>4. /\ \A x : x \in Assurance(s)!Opening(job[w]) => h = Assurance(s)!Capa(x)
        /\ \A x : x \in Assurance(s)!Resolving(job[w]) => h = Assurance(s)!Resolution(x)
    BY DEF Assurance!Opening, Assurance!Resolving, Assurance!OnlyWrite
  <2>5. ASSUME NEW p \in DOMAIN db["correctiveActionPlans"],
               db["correctiveActionPlans"][p].issue \in
                 Assurance(s)!Opening(job[w]) \cup Assurance(s)!Resolving(job[w])
        PROVE  FALSE
    <3> DEFINE x == db["correctiveActionPlans"][p].issue
    <3>1. db["issueRecords"][x].status \in {"OPEN", "ESCALATED", "CAPA_IN_PROGRESS"}
      BY <1>1, <2>5 DEF AssureFollows, Assurance!IssuesFollow
    <3>2. h = Assurance(s)!Capa(x) \/ h = Assurance(s)!Resolution(x)
      BY <2>4, <2>5
    <3> HIDE DEF x
    <3>3. h.op = "replace" /\ h.c = "issueRecords" /\ h.id = x
      BY <3>2 DEF Assurance!Capa, Assurance!Resolution, Assurance!Put
    <3> QED BY <3>1, <3>3 DEF Assurance!Admits, Assurance!Terminal
  <2>6. Assurance(s)!IssuesFollow(Assurance(s)!Idle)
    <3>1. \A p \in DOMAIN db["correctiveActionPlans"] :
            db["correctiveActionPlans"][p].issue \notin
              Assurance(s)!Opening(job[w]) \cup Assurance(s)!Resolving(job[w])
      BY <2>5
    <3>2. /\ Assurance(s)!Opening(Assurance(s)!Idle) = {}
          /\ Assurance(s)!Resolving(Assurance(s)!Idle) = {}
      BY <1>2 DEF AssureWhole
    <3> QED BY <1>1, <3>1, <3>2 DEF AssureFollows, Assurance!IssuesFollow
  <2> QED BY <2>3, <2>6 DEF AssureFollows
<1> QED BY <1>1, <1>3, <1>4 DEF Assurance!Kept

LEMMA AssureContinues ==
  ASSUME NEW s \in CompletionScenes, Assurance(s)!IInv, NEW w \in Cast[s].workers, Assurance(s)!Continue(w)
  PROVE  AssureMoves(s, w) \/ AssureWrites(s, w)
<1> USE DEF Assurance!InStatus, Assurance!Ids
<1>1. /\ DOMAIN db = {"inspections", "issueRecords", "correctiveActionPlans", "changeRequests",
                      "changeApprovals", "acceptanceDecisions", "completionCertificates"}
      /\ Assurance(s)!Collections = DOMAIN db
      /\ \A c \in DOMAIN db : /\ DOMAIN db[c] = 1..Len(db[c]) /\ Len(db[c]) \in Nat
                              /\ \A x \in DOMAIN db[c] : db[c][x] \in Assurance(s)!RowType[c]
  BY AssureTables DEF Assurance!IInv
<1>2. Assurance(s)!JobSound(job[w]) /\ (AssureInTurn(s) => Assurance(s)!Fresh(job[w]))
  BY DEF Assurance!IInv, AssureInTurn, Assurance!SerialInv
<1>3. CASE Assurance(s)!WriteVerified(w)
  <2>1. CASE Assurance(s)!GiveUp(w)
    <3>1. AssureWhole(s, job[w])
      BY <1>3, AssureElsewhere DEF Assurance!WriteVerified, Assurance!At
    <3> QED BY <2>1, <3>1, AssureGivesUp
  <2>2. CASE ~Assurance(s)!GiveUp(w)
    <3> DEFINE h == job[w].put
               j == [at |-> "readIssue", issue |-> h.row.issue]
    <3>1. AssureMakes(s, w, h, j) /\ Assurance(s)!Admits(h) /\ db' = Assurance(s)!Written(h)
          /\ job' = [job EXCEPT ![w] = j]
      BY <1>3, <2>2 DEF Assurance!WriteVerified, Assurance!At, Assurance!Carry, AssureMakes
    <3> HIDE DEF h, j
    <3> QED BY <3>1 DEF AssureWrites
  <2> QED BY <2>1, <2>2
<1>4. CASE Assurance(s)!ReadIssue(w)
  <2> PICK x : x = job[w].issue
    OBVIOUS
  <2> DEFINE h == Assurance(s)!Resolution(x)
             j == [at |-> "write", todo |-> <<h>>]
  <2>1. job[w].at = "readIssue" /\ x \in DOMAIN db["issueRecords"] /\ Assurance(s)!Planned(x)
    BY <1>2, <1>4 DEF Assurance!ReadIssue, Assurance!At, Assurance!JobSound
  <2>2. db["issueRecords"][x] \in Assurance(s)!IssueRecord
    BY <1>1, <2>1 DEF Assurance!RowType
  <2>3. Assurance(s)!PutIssue(x, "RESOLVED") = h
    BY <2>2 DEF Assurance!PutIssue, Assurance!Set, Assurance!Resolution, Assurance!IssueRecord
  <2>4. job' = [job EXCEPT ![w] = j] /\ UNCHANGED db
    BY <1>4, <2>3 DEF Assurance!ReadIssue, Assurance!Decide, Assurance!Then, Assurance!Carry
  <2>5. /\ h.op = "replace" /\ h.c = "issueRecords" /\ h.id = x /\ h.row = [status |-> "RESOLVED"]
        /\ h.row \in Assurance(s)!IssueRecord
    BY DEF Assurance!Resolution, Assurance!Put, Assurance!IssueRecord
  <2>6. Assurance(s)!WriteSound(h) /\ AssureBacked(s, h) /\ Assurance(s)!LastKept(h)
    BY <1>1, <2>1, <2>5 DEF Assurance!WriteSound, Assurance!WriteTyped, Assurance!RowType, AssureBacked,
       Assurance!LastKept
  <2>7. j.at = "write" /\ j.todo = <<h>>
    OBVIOUS
  <2>8. \A y : h = Assurance(s)!Resolution(y) <=> y = x
    BY DEF Assurance!Resolution, Assurance!Put
  <2>9. \A y : h # Assurance(s)!Capa(y)
    BY DEF Assurance!Resolution, Assurance!Capa, Assurance!Put
  <2> HIDE DEF h, j
  <2>10. Head(j.todo) = h /\ Len(j.todo) = 1
    BY <2>7, TodoOfOne
  <2>11. Assurance(s)!JobSound(j) /\ Assurance(s)!Fresh(j) /\ Assurance(s)!Kept(j)
    BY <2>5, <2>6, <2>7, TodoOfOne DEF Assurance!JobSound, Assurance!Listed, ListedTodo, Assurance!Decided,
       AssureBacked, Assurance!Fresh, Assurance!Kept
  <2>12. AssureReliable(s) => AssureFollows(s, j)
    <3>1. Assurance(s)!Resolving(j) = {x} /\ Assurance(s)!Resolving(job[w]) = {x}
      BY <2>1, <2>7, <2>8, <2>10 DEF Assurance!Resolving, Assurance!OnlyWrite
    <3>2. /\ Assurance(s)!Opening(j) = {} /\ Assurance(s)!Opening(job[w]) = {}
          /\ Assurance(s)!Replacing(j) = {} /\ Assurance(s)!Replacing(job[w]) = {}
      BY <2>1, <2>5, <2>7, <2>9, <2>10 DEF Assurance!Opening, Assurance!Replacing, Assurance!OnlyWrite
    <3>3. AssureReliable(s) => Assurance(s)!IssuesFollow(job[w]) /\ Assurance(s)!SuccessorsFollow(job[w])
      BY DEF AssureReliable, Assurance!ReliableInv
    <3>4. Assurance(s)!IssuesFollow(job[w]) => Assurance(s)!IssuesFollow(j)
      BY <3>1, <3>2 DEF Assurance!IssuesFollow
    <3>5. Assurance(s)!SuccessorsFollow(job[w]) => Assurance(s)!SuccessorsFollow(j)
      BY <3>2 DEF Assurance!SuccessorsFollow
    <3> QED BY <3>3, <3>4, <3>5 DEF AssureFollows
  <2> QED BY <2>4, <2>11, <2>12 DEF AssureMoves
<1>5. CASE Assurance(s)!ReadDecision(w)
  <2> PICK i, d : i = job[w].item /\ d = job[w].decision
    OBVIOUS
  <2> DEFINE j == [at |-> "number", item |-> i, decision |-> d]
  <2>1. job[w].at = "readDecision" /\ AssureWhole(s, job[w])
    BY <1>5, AssureElsewhere DEF Assurance!ReadDecision, Assurance!At
  <2>2. CASE Assurance(s)!GiveUp(w)
    BY <2>1, <2>2, AssureGivesUp
  <2>3. CASE ~Assurance(s)!GiveUp(w)
    <3>1. Assurance(s)!Accepting(d) /\ job' = [job EXCEPT ![w] = j] /\ UNCHANGED db
      BY <1>5, <2>3 DEF Assurance!ReadDecision, Assurance!Then, Assurance!Carry
    <3>2. j.at = "number" /\ j.item = i /\ j.decision = d
      OBVIOUS
    <3> HIDE DEF j
    <3>3. /\ Assurance(s)!JobSound(j) /\ Assurance(s)!Fresh(j) /\ Assurance(s)!Kept(j)
          /\ AssureWhole(s, j)
      BY <1>2, <2>1, <3>1, <3>2, AssureElsewhere DEF Assurance!JobSound, Assurance!Fresh, Assurance!Kept
    <3> QED BY <2>1, <3>1, <3>2, <3>3, AssureReads
  <2> QED BY <2>2, <2>3
<1>6. CASE Assurance(s)!NumberCertificate(w)
  <2> DEFINE K == "completionCertificates"
             row == [status |-> "CERTIFIED", item |-> job[w].item, decision |-> job[w].decision,
                     number |-> Len(db[K]) + 1]
             h == Assurance(s)!New(K, row)
  <2>1. /\ job[w].at = "number" /\ Assurance(s)!Decide(w, <<h>>)
        /\ job[w].item \in Cast[s].items /\ job[w].decision \in DOMAIN db["acceptanceDecisions"]
    BY <1>2, <1>6 DEF Assurance!NumberCertificate, Assurance!At, Assurance!JobSound
  <2>2. job[w].decision \in Nat /\ Len(db[K]) + 1 \in Nat
    BY <1>1, <2>1
  <2>3. row \in Assurance(s)!CompletionCertificate
    BY <2>1, <2>2 DEF Assurance!CompletionCertificate
  <2>4. /\ h.op = "append" /\ h.c = K /\ h.row \in Assurance(s)!CompletionCertificate
        /\ h.row.decision = job[w].decision
    BY <2>3 DEF Assurance!New
  <2> HIDE DEF h
  <2>5. Assurance(s)!WriteSound(h) /\ AssureBacked(s, h) /\ AssurePlain(s, h)
    BY <1>1, <2>4 DEF Assurance!WriteSound, Assurance!WriteTyped, Assurance!RowType, AssureBacked, AssurePlain,
       Assurance!LastKept, Assurance!Capa, Assurance!Resolution, Assurance!Put
  <2>6. AssureInTurn(s) => Assurance(s)!Accepting(h.row.decision)
    BY <1>2, <2>1, <2>4 DEF Assurance!Fresh
  <2> QED BY <2>1, <2>5, <2>6, AssureAsks
<1>7. CASE Assurance(s)!Commit(w, Assurance(s)!Admits(Assurance(s)!Due(w)))
  <2> DEFINE h == Head(job[w].todo)
             t == Tail(job[w].todo)
  <2>1. CASE /\ ~Assurance(s)!Admits(h) \/ (h.op = "append" /\ ~Assurance(s)!Room(h.c))
             /\ Assurance(s)!GiveUp(w)
    <3> DEFINE j == Assurance(s)!Idle
    <3>1. job[w].at = "write" /\ job' = [job EXCEPT ![w] = j] /\ UNCHANGED db /\ j.at = "idle"
      BY <1>7, <2>1 DEF Assurance!Commit, Assurance!At, Assurance!GiveUp, Assurance!Return, Assurance!Carry,
         Assurance!Idle
    <3>2. AssureReliable(s) => AssureFollows(s, j)
      BY <2>1, <3>1, AssureRefused
    <3> HIDE DEF j
    <3>3. Assurance(s)!JobSound(j) /\ Assurance(s)!Fresh(j) /\ Assurance(s)!Kept(j)
      BY <3>1 DEF Assurance!JobSound, Assurance!Fresh, Assurance!Kept
    <3> QED BY <3>1, <3>2, <3>3 DEF AssureMoves
  <2>2. CASE /\ Assurance(s)!Admits(h) /\ db' = Assurance(s)!Written(h)
             /\ IF t = <<>> THEN Assurance(s)!Return(w)
                ELSE Assurance(s)!Carry(w, [at |-> "write", todo |-> t])
    <3> DEFINE j == IF t = <<>> THEN Assurance(s)!Idle ELSE [at |-> "write", todo |-> t]
    <3>1. AssureMakes(s, w, h, j) /\ job' = [job EXCEPT ![w] = j]
      BY <1>7, <2>2 DEF Assurance!Commit, Assurance!At, Assurance!Return, Assurance!Carry, AssureMakes
    <3> HIDE DEF h, j, t
    <3> QED BY <2>2, <3>1 DEF AssureWrites
  <2> QED BY <1>7, <2>1, <2>2 DEF Assurance!Commit, Assurance!Due
<1> QED BY <1>3, <1>4, <1>5, <1>6, <1>7 DEF Assurance!Continue

(* A reliable request leaves behind what the next one reads.               *)
LEMMA AssureSettles ==
  ASSUME NEW s \in CompletionScenes, Assurance(s)!IInv, NEW w \in Cast[s].workers, NEW h, NEW j,
         AssureReliable(s), AssureMakes(s, w, h, j), Assurance(s)!Admits(h), db' = Assurance(s)!Written(h)
  PROVE  /\ Assurance(s)!Kept(j)' /\ Assurance(s)!IssuesFollow(j)' /\ Assurance(s)!SuccessorsFollow(j)'
         /\ \A y \in DOMAIN db'["acceptanceDecisions"] :
              db'["acceptanceDecisions"][y].prior \in {0} \cup DOMAIN db'["acceptanceDecisions"]
<1> DEFINE I == "issueRecords"
           P == "correctiveActionPlans"
           A == "acceptanceDecisions"
<1> USE DEF Assurance!InStatus, Assurance!Ids
<1>1. /\ DOMAIN db = {"inspections", I, P, "changeRequests", "changeApprovals", A, "completionCertificates"}
      /\ \A c \in DOMAIN db : /\ DOMAIN db[c] = 1..Len(db[c]) /\ Len(db[c]) \in Nat
                              /\ \A x \in DOMAIN db[c] : db[c][x] \in Assurance(s)!RowType[c]
  BY AssureTables DEF Assurance!IInv
<1>2. Assurance(s)!WriteSound(h) /\ Assurance(s)!WriteTyped(h, Assurance(s)!RowType)
  BY AssureMade DEF Assurance!WriteSound
<1>3. Lands(db, db', h) /\ Keeps(db, db', h) /\ Adds(db, db', h)
  BY <1>2, AssureLands DEF Assurance!IInv
<1>4. /\ Assurance(s)!Kept(job[w]) /\ Assurance(s)!IssuesFollow(job[w]) /\ Assurance(s)!SuccessorsFollow(job[w])
      /\ \A y \in DOMAIN db[A] : db[A][y].prior \in {0} \cup DOMAIN db[A]
  BY DEF AssureReliable, Assurance!ReliableInv
<1>5. \A p \in DOMAIN db[P] : db[P][p].issue \in DOMAIN db[I]
  BY DEF Assurance!IInv, Assurance!TablesSound
<1>6. \A i \in Cast[s].items : \A x, y \in Assurance(s)!Active(i) : x = y
  <2> SUFFICES ASSUME NEW i \in Cast[s].items PROVE \A x, y \in Assurance(s)!Active(i) : x = y
    OBVIOUS
  <2> DEFINE S == Assurance(s)!Active(i)
             n == Len(db[A])
  <2>1. Cardinality(S) <= 1
    BY AssureCardinality DEF Assurance!IInv, Assurance!TablesSound, Assurance!OneInForce
  <2>2. S \subseteq 1..n /\ n \in Nat
    BY <1>1 DEF Assurance!Active
  <2> HIDE DEF S, n
  <2>3. \A x, y \in S : x = y
    BY <2>1, <2>2, AtMostOne
  <2> QED BY <2>3 DEF S
(* What a write of another kind leaves alone.                              *)
<1>7. /\ h.c # I => db'[I] = db[I]
      /\ h.c # P => db'[P] = db[P]
      /\ h.c # A => db'[A] = db[A]
  BY <1>1, <1>3 DEF Lands
<1>8. h.c = P /\ h.op = "replace" =>
        /\ DOMAIN db'[P] = DOMAIN db[P] /\ h.id \in DOMAIN db[P] /\ db'[P][h.id] = h.row
        /\ h.row.issue = db[P][h.id].issue
        /\ \A p \in DOMAIN db[P] : p # h.id => db'[P][p] = db[P][p]
  BY <1>1, <1>2, <1>3 DEF Lands, Place, Assurance!WriteSound, Assurance!WriteTyped
<1>9. h.c = I /\ h.op = "replace" =>
        /\ DOMAIN db'[I] = DOMAIN db[I] /\ h.id \in DOMAIN db[I] /\ db'[I][h.id] = h.row
        /\ \A x \in DOMAIN db[I] : x # h.id => db'[I][x] = db[I][x]
  BY <1>1, <1>2, <1>3 DEF Lands, Place, Assurance!WriteSound, Assurance!WriteTyped
<1>10. CASE /\ job[w].at = "verify" /\ h = job[w].put
            /\ j = [at |-> "readIssue", issue |-> h.row.issue]
  <2>1. /\ h.op = "replace" /\ h.c = P /\ h.row.status = "VERIFIED"
        /\ db[P][h.id].status = "COMPLETED"
    BY <1>4, <1>10 DEF Assurance!IInv, Assurance!JobSound, Assurance!Kept
  <2>2. h.row.issue \in DOMAIN db[I]
    BY <1>5, <1>8, <2>1
  <2>3. AssureWhole(s, job[w])
    BY <1>10, AssureElsewhere
  <2>4. j.at = "readIssue" /\ j.issue = h.row.issue
    BY <1>10
  <2>5. Assurance(s)!Opening(j)' = {} /\ Assurance(s)!Resolving(j)' = {h.row.issue} /\ Assurance(s)!Replacing(j)' = {}
    BY <1>7, <2>1, <2>2, <2>4 DEF Assurance!Opening, Assurance!Resolving, Assurance!Replacing, Assurance!OnlyWrite
  <2>6. Assurance(s)!Kept(j)'
    BY <2>4 DEF Assurance!Kept
  <2>7. Assurance(s)!SuccessorsFollow(j)'
    BY <1>4, <1>7, <2>1, <2>3, <2>5 DEF AssureWhole, Assurance!SuccessorsFollow
  <2>8. db[I][h.row.issue].status = "CAPA_IN_PROGRESS"
    BY <1>4, <1>8, <2>1, <2>3 DEF AssureWhole, Assurance!IssuesFollow
  <2>9. Assurance(s)!IssuesFollow(j)'
    BY <1>4, <1>7, <1>8, <2>1, <2>3, <2>5, <2>8 DEF AssureWhole, Assurance!IssuesFollow
  <2> QED BY <1>4, <1>7, <2>1, <2>6, <2>7, <2>9
<1>11. ASSUME Len(job[w].todo) = 1, job[w].at = "write", h = Head(job[w].todo), j = Assurance(s)!Idle,
              Assurance(s)!LastKept(h)
       PROVE  /\ Assurance(s)!Kept(j)' /\ Assurance(s)!IssuesFollow(j)' /\ Assurance(s)!SuccessorsFollow(j)'
              /\ \A y \in DOMAIN db'[A] : db'[A][y].prior \in {0} \cup DOMAIN db'[A]
  <2>1. j.at = "idle"
    BY <1>11 DEF Assurance!Idle
  <2>2. Assurance(s)!Opening(j)' = {} /\ Assurance(s)!Resolving(j)' = {} /\ Assurance(s)!Replacing(j)' = {}
    BY <2>1 DEF Assurance!Opening, Assurance!Resolving, Assurance!Replacing, Assurance!OnlyWrite
  <2>3. Assurance(s)!Kept(j)'
    BY <2>1 DEF Assurance!Kept
  <2>4. /\ Assurance(s)!Opening(job[w]) = {x \in DOMAIN db[I] : h = Assurance(s)!Capa(x)}
        /\ Assurance(s)!Resolving(job[w]) = {x \in DOMAIN db[I] : h = Assurance(s)!Resolution(x)}
        /\ Assurance(s)!Replacing(job[w]) = {x \in DOMAIN db[A] : h.c = A /\ h.row.prior = x}
    BY <1>11 DEF Assurance!Opening, Assurance!Resolving, Assurance!Replacing, Assurance!OnlyWrite
  <2>5. /\ \A x : h = Assurance(s)!Capa(x) =>
             h.c = I /\ h.op = "replace" /\ h.id = x /\ h.row = [status |-> "CAPA_IN_PROGRESS"]
        /\ \A x : h = Assurance(s)!Resolution(x) =>
             h.c = I /\ h.op = "replace" /\ h.id = x /\ h.row = [status |-> "RESOLVED"]
    BY DEF Assurance!Capa, Assurance!Resolution, Assurance!Put
  <2>6. Assurance(s)!IssuesFollow(j)'
    <3>1. CASE h.c \notin {I, P}
      <4>1. Assurance(s)!Opening(job[w]) = {} /\ Assurance(s)!Resolving(job[w]) = {}
        BY <2>4, <2>5, <3>1
      <4> QED BY <1>4, <1>7, <2>2, <3>1, <4>1 DEF Assurance!IssuesFollow
    <3>2. CASE h.c = P
      <4>1. h.op = "replace" /\ h.row.status = "COMPLETED" /\ db[P][h.id].status = "OPEN"
        BY <1>11, <3>2 DEF Assurance!LastKept
      <4>2. Assurance(s)!Opening(job[w]) = {} /\ Assurance(s)!Resolving(job[w]) = {}
        BY <2>4, <2>5, <3>2
      <4> QED BY <1>4, <1>7, <1>8, <2>2, <3>2, <4>1, <4>2 DEF Assurance!IssuesFollow
    <3>3. CASE h.c = I /\ h.op = "append"
      <4>1. Assurance(s)!Opening(job[w]) = {} /\ Assurance(s)!Resolving(job[w]) = {}
        BY <2>4, <2>5, <3>3
      <4>2. \A x \in DOMAIN db[I] : x \in DOMAIN db'[I] /\ db'[I][x] = db[I][x]
        BY <1>1, <1>3, <3>3 DEF Keeps
      <4> QED BY <1>4, <1>5, <1>7, <2>2, <3>3, <4>1, <4>2 DEF Assurance!IssuesFollow
    <3>4. CASE h = Assurance(s)!Capa(h.id)
      <4>1. h.c = I /\ h.op = "replace" /\ h.row = [status |-> "CAPA_IN_PROGRESS"]
        BY <2>5, <3>4
      <4>2. Assurance(s)!Opening(job[w]) = {h.id} /\ Assurance(s)!Resolving(job[w]) = {}
        BY <1>9, <2>4, <2>5, <3>4, <4>1
      <4> QED BY <1>4, <1>5, <1>7, <1>9, <2>2, <4>1, <4>2 DEF Assurance!IssuesFollow
    <3>5. CASE h = Assurance(s)!Resolution(h.id)
      <4>1. h.c = I /\ h.op = "replace" /\ h.row = [status |-> "RESOLVED"]
        BY <2>5, <3>5
      <4>2. Assurance(s)!Opening(job[w]) = {} /\ Assurance(s)!Resolving(job[w]) = {h.id}
        BY <1>9, <2>4, <2>5, <3>5, <4>1
      <4> QED BY <1>4, <1>5, <1>7, <1>9, <2>2, <4>1, <4>2 DEF Assurance!IssuesFollow
    <3>6. CASE /\ h.c = I /\ h.op = "replace" /\ h.row.status \in {"ESCALATED", "CLOSED"}
               /\ h.row.status = "ESCALATED" => db[I][h.id].status = "OPEN"
               /\ h.row.status = "CLOSED" => db[I][h.id].status = "RESOLVED"
      <4>1. Assurance(s)!Opening(job[w]) = {} /\ Assurance(s)!Resolving(job[w]) = {}
        BY <2>4, <2>5, <3>6
      <4> QED BY <1>4, <1>5, <1>7, <1>9, <2>2, <3>6, <4>1 DEF Assurance!IssuesFollow
    <3> QED BY <1>2, <1>11, <3>1, <3>2, <3>3, <3>4, <3>5, <3>6 DEF Assurance!LastKept, Assurance!WriteTyped
  <2>7. CASE h.c # A
    <3>1. Assurance(s)!Replacing(job[w]) = {}
      BY <2>4, <2>7
    <3>2. Assurance(s)!SuccessorsFollow(j)'
      BY <1>4, <1>7, <2>2, <2>7, <3>1 DEF Assurance!SuccessorsFollow
    <3> QED BY <1>4, <1>7, <2>3, <2>6, <2>7, <3>2
  <2>8. CASE h.c = A
    <3> DEFINE n == Len(db[A])
    <3>1. h.op = "append" /\ h.row.status = "ACTIVE" /\ h.row.prior \in {0} \cup DOMAIN db[A]
      BY <1>11, <2>8 DEF Assurance!LastKept
    <3>2. /\ DOMAIN db'[A] = DOMAIN db[A] \cup {n + 1} /\ n + 1 \notin DOMAIN db[A] /\ n + 1 # 0
          /\ db'[A][n + 1] = h.row
          /\ \A y \in DOMAIN db[A] : db'[A][y] = db[A][y]
      BY <1>1, <1>3, <2>8, <3>1 DEF Lands, Place
    <3>3. Assurance(s)!Replacing(job[w]) = {x \in DOMAIN db[A] : h.row.prior = x}
      BY <2>4, <2>8
    <3>4. Assurance(s)!SuccessorsFollow(j)'
      BY <1>4, <2>2, <3>1, <3>2, <3>3 DEF Assurance!SuccessorsFollow
    <3>5. \A y \in DOMAIN db'[A] : db'[A][y].prior \in {0} \cup DOMAIN db'[A]
      BY <1>4, <3>1, <3>2
    <3> QED BY <2>3, <2>6, <3>4, <3>5
  <2> QED BY <2>7, <2>8
<1>12. ASSUME Len(job[w].todo) = 2, job[w].at = "write", h = Head(job[w].todo), NEW g, g = Head(Tail(job[w].todo)),
              j.at = "write", Head(j.todo) = g, Len(j.todo) = 1, Assurance(s)!PairKept(h, g)
       PROVE  /\ Assurance(s)!Kept(j)' /\ Assurance(s)!IssuesFollow(j)' /\ Assurance(s)!SuccessorsFollow(j)'
              /\ \A y \in DOMAIN db'[A] : db'[A][y].prior \in {0} \cup DOMAIN db'[A]
  <2>1. AssureWhole(s, job[w])
    BY <1>12, AssureElsewhere
  <2>2. /\ Assurance(s)!Opening(j)' = {x \in DOMAIN db'[I] : g = Assurance(s)!Capa(x)}
        /\ Assurance(s)!Resolving(j)' = {x \in DOMAIN db'[I] : g = Assurance(s)!Resolution(x)}
        /\ Assurance(s)!Replacing(j)' = {x \in DOMAIN db'[A] : g.c = A /\ g.row.prior = x}
    BY <1>12 DEF Assurance!Opening, Assurance!Resolving, Assurance!Replacing, Assurance!OnlyWrite,
       Assurance!Capa, Assurance!Resolution, Assurance!Put
  <2>3. /\ \A x : g = Assurance(s)!Capa(x) =>
             g.c = I /\ g.op = "replace" /\ g.id = x /\ g.row = [status |-> "CAPA_IN_PROGRESS"]
        /\ \A x : g = Assurance(s)!Resolution(x) =>
             g.c = I /\ g.op = "replace" /\ g.id = x /\ g.row = [status |-> "RESOLVED"]
    BY DEF Assurance!Capa, Assurance!Resolution, Assurance!Put
  <2>4. Assurance(s)!LastKept(g)' => Assurance(s)!Kept(j)'
    BY <1>12 DEF Assurance!Kept
  <2>5. ASSUME NEW x \in DOMAIN db[I], db[I][x].status \in {"OPEN", "ESCALATED"},
               h = Assurance(s)!New(P, [status |-> "OPEN", issue |-> x]), g = Assurance(s)!Capa(x)
        PROVE  /\ Assurance(s)!Kept(j)' /\ Assurance(s)!IssuesFollow(j)' /\ Assurance(s)!SuccessorsFollow(j)'
               /\ \A y \in DOMAIN db'[A] : db'[A][y].prior \in {0} \cup DOMAIN db'[A]
    <3> DEFINE n == Len(db[P])
    <3>1. h.op = "append" /\ h.c = P /\ h.row = [status |-> "OPEN", issue |-> x]
      BY <2>5 DEF Assurance!New
    <3>2. /\ DOMAIN db'[P] = DOMAIN db[P] \cup {n + 1} /\ n + 1 \notin DOMAIN db[P]
          /\ db'[P][n + 1] = [status |-> "OPEN", issue |-> x]
          /\ \A p \in DOMAIN db[P] : db'[P][p] = db[P][p]
      BY <1>1, <1>3, <3>1 DEF Lands, Place
    <3>3. db'[I] = db[I] /\ db'[A] = db[A]
      BY <1>7, <3>1
    <3>4. g.c = I /\ g.id = x /\ g = Assurance(s)!Capa(g.id)
      BY <2>3, <2>5
    <3>5. Assurance(s)!LastKept(g)'
      BY <3>4 DEF Assurance!LastKept, Assurance!Capa, Assurance!Put
    <3>6. Assurance(s)!Opening(j)' = {x} /\ Assurance(s)!Resolving(j)' = {} /\ Assurance(s)!Replacing(j)' = {}
      BY <2>2, <2>3, <2>5, <3>3, <3>4
    <3>7. \A p \in DOMAIN db[P] : db[P][p].issue # x
      BY <1>4, <2>1, <2>5 DEF AssureWhole, Assurance!IssuesFollow
    <3>8. Assurance(s)!IssuesFollow(j)'
      <4> SUFFICES ASSUME NEW p \in DOMAIN db'[P]
                   PROVE  LET plan == db'[P][p]
                              issue == db'[I][plan.issue]
                          IN /\ \A q \in DOMAIN db'[P] : db'[P][q].issue = plan.issue => p = q
                             /\ plan.issue = x => plan.status = "OPEN" /\ issue.status \in {"OPEN", "ESCALATED"}
                             /\ plan.issue # x =>
                                  /\ issue.status \in {"CAPA_IN_PROGRESS", "RESOLVED", "CLOSED"}
                                  /\ plan.status = "VERIFIED" <=> issue.status \in {"RESOLVED", "CLOSED"}
        BY <3>6 DEF Assurance!IssuesFollow
      <4>1. CASE p = n + 1
        <5>1. db'[P][p].status = "OPEN" /\ db'[P][p].issue = x
          BY <3>2, <4>1
        <5>2. db'[I][x].status \in {"OPEN", "ESCALATED"}
          BY <2>5, <3>3
        <5>3. ASSUME NEW q \in DOMAIN db'[P], db'[P][q].issue = x PROVE p = q
          BY <3>2, <3>7, <4>1, <5>3
        <5> QED BY <5>1, <5>2, <5>3
      <4>2. CASE p \in DOMAIN db[P]
        <5>1. db'[P][p] = db[P][p] /\ db[P][p].issue # x
          BY <3>2, <3>7, <4>2
        <5> QED BY <1>4, <2>1, <3>2, <3>3, <4>2, <5>1 DEF AssureWhole, Assurance!IssuesFollow
      <4> QED BY <3>2, <4>1, <4>2
    <3>9. Assurance(s)!SuccessorsFollow(j)'
      BY <1>4, <2>1, <3>3, <3>6 DEF AssureWhole, Assurance!SuccessorsFollow
    <3> QED BY <1>4, <2>4, <3>3, <3>5, <3>8, <3>9
  <2>6. ASSUME NEW x \in DOMAIN db[A], h.op = "replace", h.c = A, h.id = x, db[A][x].status = "ACTIVE",
               g.op = "append", g.c = A, g.row.status = "ACTIVE", g.row.item = db[A][x].item,
               g.row.prior = x, Assurance(s)!Room(g.c)
        PROVE  /\ Assurance(s)!Kept(j)' /\ Assurance(s)!IssuesFollow(j)' /\ Assurance(s)!SuccessorsFollow(j)'
               /\ \A y \in DOMAIN db'[A] : db'[A][y].prior \in {0} \cup DOMAIN db'[A]
    <3>1. /\ DOMAIN db'[A] = DOMAIN db[A] /\ Len(db'[A]) = Len(db[A])
          /\ db'[A][x] = h.row /\ h.row.status = "SUPERSEDED"
          /\ h.row.item = db[A][x].item /\ h.row.prior = db[A][x].prior
          /\ \A y \in DOMAIN db[A] : y # x => db'[A][y] = db[A][y]
      BY <1>1, <1>2, <1>3, <2>6 DEF Lands, Place, Assurance!WriteSound
    <3>2. db'[I] = db[I] /\ db'[P] = db[P]
      BY <1>7, <2>6
    <3>3. db[A][x].item \in Cast[s].items /\ x \in Nat
      BY <1>1, <2>6 DEF Assurance!RowType, Assurance!AcceptanceDecision
    <3>4. Assurance(s)!Active(g.row.item)' = {}
      <4>1. \A y \in DOMAIN db[A] : db[A][y].item = g.row.item /\ db[A][y].status = "ACTIVE" => y = x
        BY <1>6, <2>6, <3>3 DEF Assurance!Active
      <4> QED BY <2>6, <3>1, <4>1 DEF Assurance!Active
    <3>5. Assurance(s)!LastKept(g)'
      BY <2>6, <3>1, <3>4 DEF Assurance!LastKept, Assurance!Room
    <3>6. Assurance(s)!Opening(j)' = {} /\ Assurance(s)!Resolving(j)' = {} /\ Assurance(s)!Replacing(j)' = {x}
      BY <2>2, <2>3, <2>6, <3>1
    <3>7. Assurance(s)!IssuesFollow(j)'
      BY <1>4, <2>1, <3>2, <3>6 DEF AssureWhole, Assurance!IssuesFollow
    <3>8. Assurance(s)!SuccessorsFollow(j)'
      <4> SUFFICES ASSUME NEW y \in DOMAIN db[A]
                   PROVE  db'[A][y].status = "SUPERSEDED" <=> y = x \/ \E z \in DOMAIN db[A] : db'[A][z].prior = y
        BY <3>1, <3>6 DEF Assurance!SuccessorsFollow
      <4>1. \A z \in DOMAIN db[A] : db'[A][z].prior = db[A][z].prior
        BY <3>1
      <4>2. db[A][y].status = "SUPERSEDED" <=> \E z \in DOMAIN db[A] : db[A][z].prior = y
        BY <1>4, <2>1 DEF AssureWhole, Assurance!SuccessorsFollow
      <4> QED BY <3>1, <4>1, <4>2
    <3>9. \A y \in DOMAIN db'[A] : db'[A][y].prior \in {0} \cup DOMAIN db'[A]
      BY <1>4, <3>1
    <3> QED BY <2>4, <3>5, <3>7, <3>8, <3>9
  <2>7. ASSUME h.c = "changeApprovals", g.c = "changeRequests"
        PROVE  /\ Assurance(s)!Kept(j)' /\ Assurance(s)!IssuesFollow(j)' /\ Assurance(s)!SuccessorsFollow(j)'
               /\ \A y \in DOMAIN db'[A] : db'[A][y].prior \in {0} \cup DOMAIN db'[A]
    <3>1. Assurance(s)!LastKept(g)'
      BY <2>7 DEF Assurance!LastKept
    <3>2. Assurance(s)!Opening(j)' = {} /\ Assurance(s)!Resolving(j)' = {} /\ Assurance(s)!Replacing(j)' = {}
      BY <2>2, <2>3, <2>7
    <3>3. db'[I] = db[I] /\ db'[A] = db[A] /\ db'[P] = db[P]
      BY <1>7, <2>7
    <3>4. Assurance(s)!IssuesFollow(j)'
      BY <1>4, <2>1, <3>2, <3>3 DEF AssureWhole, Assurance!IssuesFollow
    <3>5. Assurance(s)!SuccessorsFollow(j)'
      BY <1>4, <2>1, <3>2, <3>3 DEF AssureWhole, Assurance!SuccessorsFollow
    <3> QED BY <1>4, <2>4, <3>1, <3>3, <3>4, <3>5
  <2> QED BY <1>12, <2>5, <2>6, <2>7 DEF Assurance!PairKept
<1>13. CASE /\ job[w].at = "write" /\ h = Head(job[w].todo)
            /\ j = IF Tail(job[w].todo) = <<>> THEN Assurance(s)!Idle
                   ELSE [at |-> "write", todo |-> Tail(job[w].todo)]
  <2> DEFINE t == job[w].todo
             u == Tail(t)
  <2>1. ListedTodo(t)
    BY <1>13, AssureTodo
  <2>2. CASE Len(t) = 1 /\ Assurance(s)!LastKept(h)
    <3>1. j = Assurance(s)!Idle
      BY <1>13, <2>1, <2>2, TodoHead
    <3> QED BY <1>11, <1>13, <2>2, <3>1
  <2>3. CASE Len(t) = 2 /\ Assurance(s)!PairKept(h, Head(u))
    <3>1. Len(u) = 1
      <4>1. PICK S : t \in Seq(S) /\ t # <<>>
        BY <2>1 DEF ListedTodo
      <4>2. Len(u) = Len(t) - 1
        BY <4>1, HeadTailProperties
      <4> QED BY <2>3, <4>2
    <3>2. u # <<>>
      <4>1. \A e : e = <<>> => Len(e) = 0
        OBVIOUS
      <4> HIDE DEF u
      <4> QED BY <3>1, <4>1
    <3>3. j.at = "write" /\ j.todo = u
      BY <1>13, <3>2
    <3>4. Head(j.todo) = Head(u) /\ Len(j.todo) = 1
      BY <3>1, <3>3
    <3> QED BY <1>12, <1>13, <2>3, <3>3, <3>4
  <2> QED BY <1>4, <1>13, <2>2, <2>3 DEF Assurance!Kept
<1> QED BY <1>10, <1>13 DEF AssureMakes

LEMMA AssureTakes ==
  ASSUME NEW s \in CompletionScenes, Assurance(s)!IInv, [Assurance(s)!Next]_<<db, job>>
  PROVE  \E w \in Cast[s].workers :
           \/ AssureMoves(s, w) \/ AssureWrites(s, w)
           \/ Assurance(s)!GiveUp(w) /\ Cast[s].mortals # {}
<1>1. CASE Assurance(s)!Proceed
  BY <1>1, AssureHandles, AssureContinues DEF Assurance!Proceed
<1>2. ASSUME NEW w \in Cast[s].mortals, Assurance(s)!Die(w)
      PROVE  w \in Cast[s].workers /\ Assurance(s)!GiveUp(w) /\ Cast[s].mortals # {}
  BY <1>2, DeliveryAssumption DEF Assurance!CompletionAssumption, Assurance!Die, Assurance!Crash, Assurance!GiveUp
<1>3. CASE UNCHANGED <<db, job>>
  <2>1. PICK w \in Cast[s].workers : TRUE
    BY DeliveryAssumption DEF Assurance!CompletionAssumption
  <2>2. job' = [job EXCEPT ![w] = job[w]] /\ Assurance(s)!JobSound(job[w])
    BY <1>3, CarryStays DEF Assurance!IInv
  <2>3. AssureMoves(s, w)
    BY <1>3, <2>2 DEF AssureMoves, AssureInTurn, AssureReliable, AssureFollows, Assurance!SerialInv,
       Assurance!ReliableInv
  <2> QED BY <2>3
<1> QED BY <1>1, <1>2, <1>3 DEF Assurance!Next

(* Who dies leaves nothing to be reliable about.                           *)
LEMMA AssureSteps ==
  ASSUME NEW s \in CompletionScenes, Assurance(s)!IInv, [Assurance(s)!Next]_<<db, job>>
  PROVE  \E w \in Cast[s].workers : AssureMoves(s, w) \/ AssureWrites(s, w)
<1>1. PICK w \in Cast[s].workers :
        \/ AssureMoves(s, w) \/ AssureWrites(s, w)
        \/ Assurance(s)!GiveUp(w) /\ Cast[s].mortals # {}
  BY AssureTakes
<1>2. CASE Assurance(s)!GiveUp(w) /\ Cast[s].mortals # {}
  <2>1. ~AssureReliable(s)
    BY <1>2 DEF AssureReliable, Assurance!Reliable, Assurance!Deathless
  <2> QED BY <1>2, <2>1, AssureGivesUp
<1> QED BY <1>1, <1>2

LEMMA AssureInit ==
  ASSUME NEW s \in CompletionScenes, Assurance(s)!Empty
  PROVE  Assurance(s)!IInv /\ Assurance(s)!SerialInv /\ Assurance(s)!ReliableInv
<1>1. /\ db = [c \in Assurance(s)!Collections |-> <<>>]
      /\ job = [w \in Cast[s].workers |-> Assurance(s)!Idle]
      /\ Assurance(s)!Collections = DOMAIN Assurance(s)!RowType
  BY DeliveryAssumption DEF Assurance!Empty, Assurance!CompletionAssumption
<1>2. /\ DOMAIN db = Assurance(s)!Collections /\ \A c \in Assurance(s)!Collections : db[c] = <<>>
      /\ db["inspections"] = <<>> /\ db["issueRecords"] = <<>> /\ db["correctiveActionPlans"] = <<>>
      /\ db["changeRequests"] = <<>> /\ db["acceptanceDecisions"] = <<>> /\ db["completionCertificates"] = <<>>
  BY <1>1 DEF Assurance!RowType
<1>3. Assurance(s)!TablesTyped(Assurance(s)!RowType)
  <2>1. \A T : <<>> \in Seq(T)
    OBVIOUS
  <2> QED BY <1>2, <2>1 DEF Assurance!TablesTyped
<1>4. Assurance(s)!OneInForce
  <2>1. \A i : Assurance(s)!Active(i) = {}
    BY <1>2 DEF Assurance!Active, Assurance!Ids
  <2>2. \A i : Assurance(s)!Cardinality(Assurance(s)!Active(i)) <= 1
    BY <2>1, AssureCardinality, FS_EmptySet
  <2> QED BY <1>2, <2>2 DEF Assurance!OneInForce, Assurance!Ids
<1>5. Assurance(s)!TablesSound
  BY <1>2, <1>4 DEF Assurance!TablesSound, Assurance!ReinspectsFailure, Assurance!ResolvedOnPlan, Assurance!Ids
<1>6. ASSUME NEW w \in Cast[s].workers
      PROVE  /\ Assurance(s)!JobSound(job[w]) /\ Assurance(s)!Fresh(job[w]) /\ Assurance(s)!Kept(job[w])
             /\ Assurance(s)!IssuesFollow(job[w]) /\ Assurance(s)!SuccessorsFollow(job[w])
  <2>1. job[w].at = "idle"
    BY <1>1 DEF Assurance!Idle
  <2> QED BY <1>2, <2>1 DEF Assurance!JobSound, Assurance!Fresh, Assurance!Kept, Assurance!IssuesFollow,
             Assurance!SuccessorsFollow, Assurance!Ids
<1>7. job = [w \in Cast[s].workers |-> job[w]]
  BY <1>1
<1>8. \A y \in Assurance(s)!Ids("acceptanceDecisions") :
        db["acceptanceDecisions"][y].prior \in {0} \cup Assurance(s)!Ids("acceptanceDecisions")
  BY <1>2 DEF Assurance!Ids
<1> QED BY <1>3, <1>5, <1>6, <1>7, <1>8 DEF Assurance!IInv, Assurance!SerialInv, Assurance!ReliableInv

LEMMA AssurePreserves ==
  ASSUME NEW s \in CompletionScenes, Assurance(s)!IInv, [Assurance(s)!Next]_<<db, job>>
  PROVE  Assurance(s)!IInv'
<1>1. PICK w \in Cast[s].workers : AssureMoves(s, w) \/ AssureWrites(s, w)
  BY AssureSteps
<1>2. job = [v \in Cast[s].workers |-> job[v]] /\ \A v \in Cast[s].workers : Assurance(s)!JobSound(job[v])
  BY DEF Assurance!IInv
<1>3. CASE AssureMoves(s, w)
  <2>1. PICK j : job' = [job EXCEPT ![w] = j] /\ UNCHANGED db /\ Assurance(s)!JobSound(j)
    BY <1>3 DEF AssureMoves
  <2>2. job' = [v \in Cast[s].workers |-> job'[v]] /\ \A v \in Cast[s].workers : Assurance(s)!JobSound(job'[v])
    BY <1>2, <2>1, CarryMoves
  <2>3. \A i : Assurance(s)!JobSound(i) => Assurance(s)!JobSound(i)'
    <3>1. /\ \A x : Assurance(s)!Planned(x) => Assurance(s)!Planned(x)'
          /\ \A x : Assurance(s)!Approved(x) => Assurance(s)!Approved(x)'
          /\ \A x : Assurance(s)!Failed(x) => Assurance(s)!Failed(x)'
      BY <2>1 DEF Assurance!Planned, Assurance!Approved, Assurance!Failed, Assurance!InStatus, Assurance!Ids
    <3>2. \A h : Assurance(s)!WriteSound(h) => Assurance(s)!WriteSound(h)'
      BY <2>1, <3>1 DEF Assurance!WriteSound, Assurance!WriteTyped, Assurance!Ids
    <3> QED BY <2>1, <3>1, <3>2 DEF Assurance!JobSound, Assurance!Decided, Assurance!NewApproval, Assurance!New,
               Assurance!Ids
  <2>4. Assurance(s)!TablesTyped(Assurance(s)!RowType)' /\ Assurance(s)!TablesSound'
    <3> USE DEF Assurance!Ids, Assurance!InStatus
    <3>1. Assurance(s)!TablesTyped(Assurance(s)!RowType)'
      BY <2>1 DEF Assurance!IInv, Assurance!TablesTyped
    <3>2. Assurance(s)!TablesSound
      BY DEF Assurance!IInv
    <3>3. Assurance(s)!ReinspectsFailure'
      BY <2>1, <3>2 DEF Assurance!TablesSound, Assurance!ReinspectsFailure, Assurance!Failed
    <3>4. Assurance(s)!ResolvedOnPlan'
      BY <2>1, <3>2 DEF Assurance!TablesSound, Assurance!ResolvedOnPlan
    <3>5. Assurance(s)!OneInForce'
      BY <2>1, <3>2 DEF Assurance!TablesSound, Assurance!OneInForce, Assurance!Active
    <3>6. \A x : Assurance(s)!Approved(x) => Assurance(s)!Approved(x)'
      BY <2>1 DEF Assurance!Approved
    <3> QED BY <2>1, <3>1, <3>2, <3>3, <3>4, <3>5, <3>6 DEF Assurance!TablesSound
  <2> QED BY <2>2, <2>3, <2>4 DEF Assurance!IInv
<1>4. CASE AssureWrites(s, w)
  <2>1. PICK h, j : /\ AssureMakes(s, w, h, j) /\ job' = [job EXCEPT ![w] = j]
                    /\ Assurance(s)!Admits(h) /\ db' = Assurance(s)!Written(h)
    BY <1>4 DEF AssureWrites
  <2>2. Assurance(s)!WriteSound(h) /\ AssureBacked(s, h) /\ Assurance(s)!JobSound(j)'
    BY <2>1, AssureMade
  <2>3. /\ Assurance(s)!TablesTyped(Assurance(s)!RowType)' /\ Assurance(s)!TablesSound'
        /\ \A g : Assurance(s)!WriteSound(g) => Assurance(s)!WriteSound(g)'
        /\ \A x : /\ Assurance(s)!Approved(x) => Assurance(s)!Approved(x)'
                  /\ Assurance(s)!Planned(x) => Assurance(s)!Planned(x)'
        /\ \A c \in DOMAIN db : DOMAIN db[c] \subseteq DOMAIN db'[c]
    BY <2>1, <2>2, AssureWritten
  <2>4. {"issueRecords", "acceptanceDecisions"} \subseteq DOMAIN db
    BY AssureTables DEF Assurance!IInv
  <2>5. \A i : Assurance(s)!JobSound(i) => Assurance(s)!JobSound(i)'
    BY <2>3, <2>4 DEF Assurance!JobSound, Assurance!Decided, Assurance!NewApproval, Assurance!New, Assurance!Ids
  <2>6. /\ job' = [v \in Cast[s].workers |-> job'[v]] /\ job'[w] = j
        /\ \A v \in Cast[s].workers \ {w} : job'[v] = job[v]
    BY <1>2, <2>1, CarryMoves
  <2>7. \A v \in Cast[s].workers : Assurance(s)!JobSound(job[v])'
    <3> SUFFICES ASSUME NEW v \in Cast[s].workers PROVE Assurance(s)!JobSound(job[v])'
      OBVIOUS
    <3> PICK i : i = job'[v]
      OBVIOUS
    <3>1. i = j \/ (i = job[v] /\ Assurance(s)!JobSound(i))
      BY <1>2, <2>6
    <3>2. Assurance(s)!JobSound(i)'
      BY <2>2, <2>5, <3>1
    <3> QED BY <3>2
  <2> QED BY <2>3, <2>6, <2>7 DEF Assurance!IInv
<1> QED BY <1>1, <1>3, <1>4

LEMMA AssureSerial ==
  ASSUME NEW s \in CompletionScenes, Assurance(s)!IInv, Assurance(s)!SerialInv, [Assurance(s)!Next]_<<db, job>>
  PROVE  /\ Assurance(s)!SerialInv'
         /\ Assurance(s)!InTurn => Assurance(s)!CertifiedOnActive
<1> DEFINE K == "completionCertificates"
<1> SUFFICES ASSUME Assurance(s)!InTurn
             PROVE  /\ \A v \in Cast[s].workers : Assurance(s)!Fresh(job[v])'
                    /\ Assurance(s)!CertifiedOnActive
  BY DEF Assurance!SerialInv, Assurance!InTurn
<1>1. AssureInTurn(s)
  BY DEF AssureInTurn
<1>2. PICK w \in Cast[s].workers : AssureMoves(s, w) \/ AssureWrites(s, w)
  BY AssureSteps
<1>3. job = [v \in Cast[s].workers |-> job[v]] /\ \A v \in Cast[s].workers : v = w
  BY <1>2 DEF Assurance!IInv, Assurance!InTurn
<1>4. K \in DOMAIN db /\ Len(db[K]) \in Nat /\ DOMAIN db[K] = 1..Len(db[K])
  BY AssureTables DEF Assurance!IInv
<1>5. CASE AssureMoves(s, w)
  <2>1. PICK j : job' = [job EXCEPT ![w] = j] /\ UNCHANGED db /\ Assurance(s)!Fresh(j)
    BY <1>1, <1>5 DEF AssureMoves
  <2>2. \A v \in Cast[s].workers : job'[v] = j
    BY <1>3, <2>1, CarryMoves
  <2>3. Assurance(s)!Fresh(j)'
    BY <2>1 DEF Assurance!Fresh, Assurance!Accepting, Assurance!InStatus
  <2>4. Assurance(s)!CertifiedOnActive
    BY <1>4, <2>1 DEF Assurance!CertifiedOnActive
  <2> QED BY <2>2, <2>3, <2>4
<1>6. CASE AssureWrites(s, w)
  <2>1. PICK h, j : /\ AssureMakes(s, w, h, j) /\ job' = [job EXCEPT ![w] = j]
                    /\ Assurance(s)!Admits(h) /\ db' = Assurance(s)!Written(h)
    BY <1>6 DEF AssureWrites
  <2>2. /\ Assurance(s)!WriteSound(h) /\ Assurance(s)!Fresh(j)'
        /\ h.op = "append" /\ h.c = K => Assurance(s)!Accepting(h.row.decision)
    BY <1>1, <2>1, AssureMade
  <2>3. \A v \in Cast[s].workers : job'[v] = j
    BY <1>3, <2>1, CarryMoves
  <2>4. Lands(db, db', h) /\ h.op \in {"append", "replace"}
    BY <2>1, <2>2, AssureLands DEF Assurance!IInv, Assurance!WriteSound, Assurance!WriteTyped
  <2>5. Assurance(s)!CertifiedOnActive
    <3> SUFFICES ASSUME Len(db'[K]) > Len(db[K])
                 PROVE  Assurance(s)!Accepting(db'[K][Len(db'[K])].decision)
      BY DEF Assurance!CertifiedOnActive, Assurance!Accepting
    <3>1. h.c = K /\ h.op = "append" /\ Len(db'[K]) = Len(db[K]) + 1
      BY <1>4, <2>4 DEF Lands
    <3>2. db'[K][Len(db'[K])] = h.row
      BY <2>4, <3>1 DEF Lands, Place
    <3> QED BY <2>2, <3>1, <3>2
  <2> QED BY <2>2, <2>3, <2>5
<1> QED BY <1>2, <1>5, <1>6

LEMMA AssureKeeps ==
  ASSUME NEW s \in CompletionScenes, Assurance(s)!IInv, Assurance(s)!ReliableInv, [Assurance(s)!Next]_<<db, job>>
  PROVE  Assurance(s)!ReliableInv'
<1> DEFINE A == "acceptanceDecisions"
<1> SUFFICES ASSUME Assurance(s)!Reliable
             PROVE  /\ \A y \in DOMAIN db'[A] : db'[A][y].prior \in {0} \cup DOMAIN db'[A]
                    /\ \A v \in Cast[s].workers :
                         /\ Assurance(s)!Kept(job[v])' /\ Assurance(s)!IssuesFollow(job[v])'
                         /\ Assurance(s)!SuccessorsFollow(job[v])'
  BY DEF Assurance!ReliableInv, Assurance!Reliable, Assurance!Deathless, Assurance!InTurn, Assurance!Ids
<1>1. AssureReliable(s)
  BY DEF AssureReliable
<1>2. PICK w \in Cast[s].workers : AssureMoves(s, w) \/ AssureWrites(s, w)
  BY AssureSteps
<1>3. job = [v \in Cast[s].workers |-> job[v]] /\ \A v \in Cast[s].workers : v = w
  BY <1>2 DEF Assurance!IInv, Assurance!InTurn, Assurance!Reliable, Assurance!Deathless
<1>4. CASE AssureMoves(s, w)
  <2>1. PICK j : /\ job' = [job EXCEPT ![w] = j] /\ UNCHANGED db
                 /\ Assurance(s)!Kept(j) /\ AssureFollows(s, j)
    BY <1>1, <1>4 DEF AssureMoves
  <2>2. \A v \in Cast[s].workers : job'[v] = j
    BY <1>3, <2>1, CarryMoves
  <2>3. Assurance(s)!Kept(j)'
    BY <2>1 DEF Assurance!Kept, Assurance!LastKept, Assurance!PairKept, Assurance!Room, Assurance!Active,
       Assurance!InStatus, Assurance!Ids
  <2>4. Assurance(s)!IssuesFollow(j)'
    BY <2>1 DEF AssureFollows, Assurance!IssuesFollow, Assurance!Opening, Assurance!Resolving, Assurance!OnlyWrite,
       Assurance!Capa, Assurance!Resolution, Assurance!Put, Assurance!Ids
  <2>5. Assurance(s)!SuccessorsFollow(j)'
    BY <2>1 DEF AssureFollows, Assurance!SuccessorsFollow, Assurance!Replacing, Assurance!InStatus, Assurance!Ids
  <2>6. \A y \in DOMAIN db'[A] : db'[A][y].prior \in {0} \cup DOMAIN db'[A]
    BY <1>1, <2>1 DEF AssureReliable, Assurance!ReliableInv, Assurance!Ids
  <2> QED BY <2>2, <2>3, <2>4, <2>5, <2>6
<1>5. CASE AssureWrites(s, w)
  <2>1. PICK h, j : /\ AssureMakes(s, w, h, j) /\ job' = [job EXCEPT ![w] = j]
                    /\ Assurance(s)!Admits(h) /\ db' = Assurance(s)!Written(h)
    BY <1>5 DEF AssureWrites
  <2>2. /\ Assurance(s)!Kept(j)' /\ Assurance(s)!IssuesFollow(j)' /\ Assurance(s)!SuccessorsFollow(j)'
        /\ \A y \in DOMAIN db'[A] : db'[A][y].prior \in {0} \cup DOMAIN db'[A]
    BY <1>1, <2>1, AssureSettles
  <2>3. \A v \in Cast[s].workers : job'[v] = j
    BY <1>3, <2>1, CarryMoves
  <2> QED BY <2>2, <2>3
<1> QED BY <1>2, <1>4, <1>5

(* At rest nothing is half done.                                           *)
LEMMA AssureAtRest ==
  ASSUME NEW s \in CompletionScenes, Assurance(s)!ReliableInv, Assurance(s)!Reliable, Cast[s].workers # {}
  PROVE  Assurance(s)!IssueFollowsPlans /\ Assurance(s)!SupersededBySuccessor
<1> SUFFICES ASSUME Assurance(s)!Quiet PROVE Assurance(s)!IssueFollowsPlans /\ Assurance(s)!SupersededBySuccessor
  BY DEF Assurance!IssueFollowsPlans, Assurance!SupersededBySuccessor
<1>1. PICK w \in Cast[s].workers : TRUE
  OBVIOUS
<1>2. /\ Assurance(s)!IssuesFollow(job[w]) /\ Assurance(s)!SuccessorsFollow(job[w])
      /\ AssureWhole(s, job[w])
  BY AssureElsewhere DEF Assurance!ReliableInv, Assurance!Quiet, Assurance!At
<1> QED BY <1>2 DEF AssureWhole, Assurance!IssueFollowsPlans, Assurance!SupersededBySuccessor,
           Assurance!IssuesFollow, Assurance!SuccessorsFollow, Assurance!InStatus

----------------------------------------------------------------------------
(* Engines 06 to 10.                                                       *)
LEMMA GovCardinality ==
  ASSUME NEW s, NEW S PROVE Govern(s)!Cardinality(S) = Cardinality(S)
  BY DEF Govern!Cardinality, Cardinality

LEMMA GovFinite ==
  ASSUME NEW s \in GovernanceScenes PROVE IsFiniteSet(Cast[s].workers)
<1>1. Govern(s)!IsFiniteSet(Cast[s].workers)
  BY DeliveryAssumption DEF Govern!GovernanceAssumption
<1> QED BY <1>1 DEF Govern!IsFiniteSet, IsFiniteSet

LEMMA GovTables ==
  ASSUME NEW s \in GovernanceScenes, Govern(s)!TablesTyped(Govern(s)!RowType)
  PROVE  /\ DOMAIN db = {"governedExecutions", "executionHistory", "governedMilestones",
                         "milestoneDependencies", "dodVersions", "dodEvaluations",
                         "certificationRequests", "certificationDecisions", "digitalCertifications",
                         "paymentTriggerDefinitions", "paymentAuthorizationProposals", "releaseIntents"}
         /\ Govern(s)!Collections = DOMAIN db
         /\ \A c \in DOMAIN db : /\ DOMAIN db[c] = 1..Len(db[c]) /\ Len(db[c]) \in Nat
                                 /\ \A x \in DOMAIN db[c] : db[c][x] \in Govern(s)!RowType[c]
<1>1. DOMAIN db = Govern(s)!Collections /\ Govern(s)!Collections = DOMAIN Govern(s)!RowType
  BY DeliveryAssumption DEF Govern!TablesTyped, Govern!GovernanceAssumption
<1>2. \A c \in DOMAIN db : db[c] \in Seq(Govern(s)!RowType[c])
  BY <1>1 DEF Govern!TablesTyped
<1>3. \A c \in DOMAIN db : /\ DOMAIN db[c] = 1..Len(db[c]) /\ Len(db[c]) \in Nat
                           /\ \A x \in DOMAIN db[c] : db[c][x] \in Govern(s)!RowType[c]
  BY <1>2
<1>4. DOMAIN Govern(s)!RowType =
        {"governedExecutions", "executionHistory", "governedMilestones", "milestoneDependencies",
         "dodVersions", "dodEvaluations", "certificationRequests", "certificationDecisions",
         "digitalCertifications", "paymentTriggerDefinitions", "paymentAuthorizationProposals",
         "releaseIntents"}
  BY DEF Govern!RowType
<1> QED BY <1>1, <1>3, <1>4

LEMMA GovLands ==
  ASSUME NEW s \in GovernanceScenes, Govern(s)!TablesTyped(Govern(s)!RowType),
         NEW h, Govern(s)!WriteTyped(h, Govern(s)!RowType), db' = Govern(s)!Written(h)
  PROVE  /\ Govern(s)!TablesTyped(Govern(s)!RowType)'
         /\ Lands(db, db', h) /\ Keeps(db, db', h) /\ Adds(db, db', h)
<1> DEFINE T == Govern(s)!RowType
           C == Govern(s)!Collections
<1>1. Fitting(db, C, T, h) /\ db' = Holding(db, h)
  BY DEF Govern!TablesTyped, Govern!WriteTyped, Govern!Ids, Govern!Written, Tabled, Fitting, Holding
<1>2. Tabled(db', C, T) /\ Lands(db, db', h) /\ Keeps(db, db', h) /\ Adds(db, db', h)
  <2> HIDE DEF T, C
  <2> QED BY <1>1, Landing
<1> QED BY <1>2 DEF Tabled, Govern!TablesTyped

(* A change of an execution, which is not one of a list of writes.         *)
GovMoving(s, h) ==
  /\ Govern(s)!WriteTyped(h, Govern(s)!RowType) /\ h.c = "governedExecutions"
  /\ h.op = "replace" => h.row.state \in Govern(s)!Allowed[db["governedExecutions"][h.id].state]

GovBacked(s, h) ==
  h.c = "certificationRequests" /\ h.op = "replace" => Govern(s)!Backed(h.id, h.row)

(* The tables that are only appended to, and how the others change.        *)
GovGrows ==
  /\ DOMAIN db' = DOMAIN db /\ \A c \in DOMAIN db : DOMAIN db[c] \subseteq DOMAIN db'[c]
  /\ \A x \in DOMAIN db["governedExecutions"] :
       LET old == db["governedExecutions"][x]
           now == db'["governedExecutions"][x]
       IN now = old \/ (now.version \in Nat /\ now.version > old.version)
  /\ \A c \in {"executionHistory", "milestoneDependencies", "dodEvaluations", "certificationDecisions",
               "digitalCertifications", "paymentTriggerDefinitions", "paymentAuthorizationProposals",
               "releaseIntents"} : \A x \in DOMAIN db[c] : db'[c][x] = db[c][x]
  /\ \A x \in DOMAIN db["dodVersions"] :
       db'["dodVersions"][x].milestone = db["dodVersions"][x].milestone
  /\ \A x \in DOMAIN db["certificationRequests"] :
       LET old == db["certificationRequests"][x]
           now == db'["certificationRequests"][x]
       IN now.by = old.by /\ now.reviewers = old.reviewers

LEMMA GovGrowing ==
  ASSUME NEW s \in GovernanceScenes, Govern(s)!TablesTyped(Govern(s)!RowType), NEW h,
         Govern(s)!WriteSound(h) \/ GovMoving(s, h), Govern(s)!Admits(h), db' = Govern(s)!Written(h)
  PROVE  GovGrows /\ Govern(s)!MovesAreAllowed
<1>1. Govern(s)!WriteTyped(h, Govern(s)!RowType)
  BY DEF Govern!WriteSound, GovMoving
<1>2. /\ DOMAIN db = {"governedExecutions", "executionHistory", "governedMilestones",
                         "milestoneDependencies", "dodVersions", "dodEvaluations",
                         "certificationRequests", "certificationDecisions", "digitalCertifications",
                         "paymentTriggerDefinitions", "paymentAuthorizationProposals", "releaseIntents"}
      /\ Govern(s)!Collections = DOMAIN db
  BY GovTables
<1>3. /\ Govern(s)!TablesTyped(Govern(s)!RowType)'
      /\ Lands(db, db', h) /\ Keeps(db, db', h) /\ Adds(db, db', h)
  BY <1>1, GovLands
<1>4. DOMAIN db' = DOMAIN db /\ \A c \in DOMAIN db : DOMAIN db[c] \subseteq DOMAIN db'[c]
  BY <1>2, <1>3 DEF Keeps, Govern!TablesTyped
<1>5. h.op = "replace" =>
        h.c \in {"governedExecutions", "governedMilestones", "dodVersions", "certificationRequests"}
  BY DEF Govern!WriteSound, Govern!ReplaceSound, GovMoving
<1>6. \A c \in {"executionHistory", "milestoneDependencies", "dodEvaluations", "certificationDecisions",
               "digitalCertifications", "paymentTriggerDefinitions", "paymentAuthorizationProposals",
               "releaseIntents"} : \A x \in DOMAIN db[c] : db'[c][x] = db[c][x]
  BY <1>2, <1>3, <1>5 DEF Keeps
<1>7. h.op = "replace" /\ h.c # "governedExecutions" => Govern(s)!ReplaceSound(h)
  BY DEF Govern!WriteSound, GovMoving
<1>8. \A x \in DOMAIN db["dodVersions"] :
        db'["dodVersions"][x].milestone = db["dodVersions"][x].milestone
  BY <1>2, <1>3, <1>7 DEF Keeps, Govern!ReplaceSound
<1>9. \A x \in DOMAIN db["certificationRequests"] :
        LET old == db["certificationRequests"][x]
            now == db'["certificationRequests"][x]
        IN now.by = old.by /\ now.reviewers = old.reviewers
  BY <1>2, <1>3, <1>7 DEF Keeps, Govern!ReplaceSound
<1>10. \A x \in DOMAIN db["governedExecutions"] :
        LET old == db["governedExecutions"][x]
            now == db'["governedExecutions"][x]
        IN now = old \/ (/\ now.version \in Nat /\ now.version > old.version
                          /\ now.state \in Govern(s)!Allowed[old.state])
  <2> DEFINE E == "governedExecutions"
  <2> SUFFICES ASSUME NEW x \in DOMAIN db[E], db'[E][x] # db[E][x]
               PROVE  /\ db'[E][x].version \in Nat /\ db'[E][x].version > db[E][x].version
                      /\ db'[E][x].state \in Govern(s)!Allowed[db[E][x].state]
    OBVIOUS
  <2>1. h.op = "replace" /\ h.c = E /\ h.id = x /\ db'[E][x] = h.row
    BY <1>2, <1>3 DEF Keeps
  <2>2. GovMoving(s, h)
    BY <2>1 DEF Govern!WriteSound, Govern!ReplaceSound
  <2>3. h.row.version \in Nat
    BY <1>1, <2>1 DEF Govern!WriteTyped, Govern!RowType, Govern!Execution
  <2> QED BY <2>1, <2>2, <2>3 DEF GovMoving, Govern!Admits, Govern!Advances, Govern!Versioned
<1>11. GovGrows
  BY <1>4, <1>6, <1>8, <1>9, <1>10 DEF GovGrows
<1>12. Govern(s)!MovesAreAllowed
  BY <1>10 DEF Govern!MovesAreAllowed, Govern!Ids
<1> QED BY <1>11, <1>12

LEMMA GovSame ==
  ASSUME UNCHANGED db PROVE GovGrows
  BY DEF GovGrows

(* What was true of the tables stays true.                                 *)
LEMMA GovSteady ==
  ASSUME NEW s \in GovernanceScenes, Govern(s)!TablesTyped(Govern(s)!RowType), GovGrows
  PROVE  /\ \A r : Govern(s)!ApprovalOf(r) => Govern(s)!ApprovalOf(r)'
         /\ \A r, row : Govern(s)!Backed(r, row) => Govern(s)!Backed(r, row)'
         /\ \A t \in DOMAIN db["paymentTriggerDefinitions"] :
              /\ Govern(s)!Passed(t) => Govern(s)!Passed(t)'
              /\ Govern(s)!CertificatesFor(t) # {} => Govern(s)!CertificatesFor(t)' # {}
              /\ Govern(s)!ReleaseDue(t) => Govern(s)!ReleaseDue(t)'
         /\ \A h : Govern(s)!WriteSound(h) => Govern(s)!WriteSound(h)'
         /\ \A j : Govern(s)!JobSound(j) => Govern(s)!JobSound(j)'
<1> USE DEF Govern!Ids, Govern!InStatus
<1>1. /\ DOMAIN db = {"governedExecutions", "executionHistory", "governedMilestones",
                         "milestoneDependencies", "dodVersions", "dodEvaluations",
                         "certificationRequests", "certificationDecisions", "digitalCertifications",
                         "paymentTriggerDefinitions", "paymentAuthorizationProposals", "releaseIntents"}
      /\ Govern(s)!Collections = DOMAIN db
      /\ \A x \in DOMAIN db["governedExecutions"] : db["governedExecutions"][x] \in Govern(s)!Execution
  BY GovTables DEF Govern!RowType
<1>2. /\ \A c \in DOMAIN db : \A x \in DOMAIN db[c] : x \in DOMAIN db'[c]
      /\ \A c \in {"executionHistory", "milestoneDependencies", "dodEvaluations", "certificationDecisions",
               "digitalCertifications", "paymentTriggerDefinitions", "paymentAuthorizationProposals",
               "releaseIntents"} : \A x \in DOMAIN db[c] : db'[c][x] = db[c][x]
  BY DEF GovGrows
<1>3. \A r : Govern(s)!ApprovalOf(r) => Govern(s)!ApprovalOf(r)'
  BY <1>1, <1>2 DEF Govern!ApprovalOf
<1>4. \A r, row : Govern(s)!Backed(r, row) => Govern(s)!Backed(r, row)'
  BY <1>1, <1>2 DEF Govern!Backed, Govern!Backing
<1>5. ASSUME NEW t \in DOMAIN db["paymentTriggerDefinitions"]
      PROVE  /\ Govern(s)!Passed(t) => Govern(s)!Passed(t)'
             /\ Govern(s)!CertificatesFor(t) # {} => Govern(s)!CertificatesFor(t)' # {}
             /\ Govern(s)!ReleaseDue(t) => Govern(s)!ReleaseDue(t)'
  <2>1. db'["paymentTriggerDefinitions"][t] = db["paymentTriggerDefinitions"][t]
    BY <1>2
  <2>2. Govern(s)!Passed(t) => Govern(s)!Passed(t)'
    BY <1>1, <1>2, <2>1 DEF Govern!Passed
  <2>3. Govern(s)!CertificatesFor(t) # {} => Govern(s)!CertificatesFor(t)' # {}
    BY <1>1, <1>2, <2>1 DEF Govern!CertificatesFor
  <2> QED BY <2>1, <2>2, <2>3 DEF Govern!ReleaseDue
<1>6. ASSUME NEW h, Govern(s)!WriteSound(h) PROVE Govern(s)!WriteSound(h)'
  <2>1. h.c \in DOMAIN db /\ (h.op = "replace" => h.id \in DOMAIN db[h.c])
    BY <1>1, <1>6 DEF Govern!WriteSound, Govern!WriteTyped
  <2>2. Govern(s)!WriteTyped(h, Govern(s)!RowType)'
    BY <1>2, <1>6, <2>1 DEF Govern!WriteSound, Govern!WriteTyped
  <2>3. Govern(s)!ReplaceSound(h) /\ h.op = "replace" => Govern(s)!ReplaceSound(h)'
    BY <1>1, <2>1 DEF Govern!ReplaceSound, GovGrows
  <2>4. Govern(s)!AppendSound(h) => Govern(s)!AppendSound(h)'
    <3> SUFFICES ASSUME Govern(s)!AppendSound(h) PROVE Govern(s)!AppendSound(h)'
      OBVIOUS
    <3>1. h.c = "releaseIntents" =>
            /\ h.row.proposal \in DOMAIN db'["paymentAuthorizationProposals"]
            /\ db'["paymentAuthorizationProposals"][h.row.proposal].status \in {"PROPOSED"}
      BY <1>1, <1>2 DEF Govern!AppendSound
    <3>2. h.c = "paymentAuthorizationProposals" =>
            /\ h.row.trigger \in DOMAIN db'["paymentTriggerDefinitions"]
            /\ h.row.status = "PROPOSED" => Govern(s)!ReleaseDue(h.row.trigger)'
      BY <1>1, <1>2, <1>5 DEF Govern!AppendSound
    <3>3. h.c = "digitalCertifications" => Govern(s)!ApprovalOf(h.row.request)'
      BY <1>3 DEF Govern!AppendSound
    <3> QED BY <1>1, <1>2, <3>1, <3>2, <3>3 DEF Govern!AppendSound
  <2> QED BY <1>6, <2>2, <2>3, <2>4 DEF Govern!WriteSound
<1>7. ASSUME NEW j, Govern(s)!JobSound(j) PROVE Govern(s)!JobSound(j)'
  <2>1. j.at = "record" => j.id \in DOMAIN db'["governedExecutions"]
    BY <1>1, <1>2, <1>7 DEF Govern!JobSound
  <2>2. j.at = "move" =>
          /\ j.id \in DOMAIN db'["governedExecutions"]
          /\ j.row.version <= db'["governedExecutions"][j.id].version
          /\ j.row.version = db'["governedExecutions"][j.id].version => j.row = db'["governedExecutions"][j.id]
    <3> SUFFICES ASSUME j.at = "move"
                 PROVE  /\ j.id \in DOMAIN db'["governedExecutions"]
                        /\ j.row.version <= db'["governedExecutions"][j.id].version
                        /\ j.row.version = db'["governedExecutions"][j.id].version
                             => j.row = db'["governedExecutions"][j.id]
      OBVIOUS
    <3> DEFINE old == db["governedExecutions"][j.id]
               now == db'["governedExecutions"][j.id]
    <3>1. /\ j.id \in DOMAIN db["governedExecutions"] /\ j.row.version \in Nat
          /\ j.row.version <= old.version /\ (j.row.version = old.version => j.row = old)
      BY <1>7 DEF Govern!JobSound, Govern!Execution
    <3>2. old.version \in Nat /\ (now = old \/ (now.version \in Nat /\ now.version > old.version))
      BY <1>1, <3>1 DEF GovGrows, Govern!Execution
    <3> QED BY <1>1, <1>2, <3>1, <3>2
  <2>3. j.at \in {"edges", "predecessors", "ready"} =>
          /\ j.at = "edges" => {j.row.pred, j.row.succ} \subseteq DOMAIN db'["governedMilestones"]
          /\ j.at # "edges" => j.id \in DOMAIN db'["governedMilestones"]
    BY <1>1, <1>2, <1>7 DEF Govern!JobSound
  <2>4. j.at = "published" => /\ j.id \in DOMAIN db'["dodVersions"]
                              /\ j.row.milestone = db'["dodVersions"][j.id].milestone
    BY <1>1, <1>2, <1>7 DEF Govern!JobSound, GovGrows
  <2>5. j.at = "decisions" => /\ j.id \in DOMAIN db'["certificationRequests"]
                              /\ j.row.by = db'["certificationRequests"][j.id].by
                              /\ j.row.reviewers = db'["certificationRequests"][j.id].reviewers
    BY <1>1, <1>2, <1>7 DEF Govern!JobSound, GovGrows
  <2>6. j.at \in {"issued", "number"} => Govern(s)!ApprovalOf(j.row.request)'
    BY <1>3, <1>7 DEF Govern!JobSound
  <2>7. j.at \in {"evaluation", "certificate", "key"} =>
          /\ j.trigger \in DOMAIN db'["paymentTriggerDefinitions"]
          /\ j.at \in {"certificate", "key"} /\ j.passed => Govern(s)!Passed(j.trigger)'
          /\ j.at = "key" /\ j.certificate # 0 => Govern(s)!CertificatesFor(j.trigger)' # {}
    BY <1>1, <1>2, <1>5, <1>7 DEF Govern!JobSound
  <2>8. j.at = "write" => \A n \in DOMAIN j.todo : Govern(s)!WriteSound(j.todo[n])' /\ Govern(s)!Waits(j.todo, n)'
    BY <1>4, <1>6, <1>7 DEF Govern!JobSound, Govern!Waits, Govern!Backing
  <2> QED BY <1>7, <2>1, <2>2, <2>3, <2>4, <2>5, <2>6, <2>7, <2>8 DEF Govern!JobSound
<1> QED BY <1>3, <1>4, <1>5, <1>6, <1>7

LEMMA GovSound ==
  ASSUME NEW s \in GovernanceScenes, Govern(s)!TablesTyped(Govern(s)!RowType), Govern(s)!TablesSound, NEW h,
         Govern(s)!WriteSound(h) \/ GovMoving(s, h), GovBacked(s, h),
         Govern(s)!Admits(h), db' = Govern(s)!Written(h)
  PROVE  Govern(s)!TablesSound'
<1> DEFINE C == "certificationRequests"
           D == "certificationDecisions"
           K == "digitalCertifications"
           P == "paymentAuthorizationProposals"
           R == "releaseIntents"
           T == "paymentTriggerDefinitions"
<1> USE DEF Govern!Ids, Govern!InStatus
<1>1. Govern(s)!WriteTyped(h, Govern(s)!RowType)
  BY DEF Govern!WriteSound, GovMoving
<1>2. /\ DOMAIN db = {"governedExecutions", "executionHistory", "governedMilestones",
                         "milestoneDependencies", "dodVersions", "dodEvaluations", C, D, K, T, P, R}
      /\ \A c \in DOMAIN db : DOMAIN db[c] = 1..Len(db[c]) /\ Len(db[c]) \in Nat
  BY GovTables
<1>3. Lands(db, db', h) /\ Keeps(db, db', h) /\ Adds(db, db', h)
  BY <1>1, GovLands
<1>4. GovGrows
  BY GovGrowing
<1>5. /\ \A c \in DOMAIN db : \A x \in DOMAIN db[c] : x \in DOMAIN db'[c]
      /\ \A c \in {"executionHistory", "milestoneDependencies", "dodEvaluations", D, K, T, P, R} :
           \A x \in DOMAIN db[c] : db'[c][x] = db[c][x]
  BY <1>4 DEF GovGrows
<1>6. /\ \A r : Govern(s)!ApprovalOf(r) => Govern(s)!ApprovalOf(r)'
      /\ \A r, row : Govern(s)!Backed(r, row) => Govern(s)!Backed(r, row)'
      /\ \A t \in DOMAIN db[T] : /\ Govern(s)!Passed(t) => Govern(s)!Passed(t)'
                                 /\ Govern(s)!ReleaseDue(t) => Govern(s)!ReleaseDue(t)'
  BY <1>4, GovSteady
(* A row that was not there is the one that was appended.                  *)
<1>7. \A c \in DOMAIN db : \A x \in DOMAIN db'[c] :
        \/ x \in DOMAIN db[c]
        \/ h.op = "append" /\ h.c = c /\ x = Len(db[c]) + 1 /\ db'[c][x] = h.row
  BY <1>3 DEF Adds
<1>8. h.op = "append" /\ h.c # "governedExecutions" => Govern(s)!AppendSound(h) /\ Govern(s)!KeyFree(h)
  BY DEF Govern!WriteSound, GovMoving, Govern!Admits
<1>9. Govern(s)!StatusIsDecided'
  <2>1. ASSUME NEW r \in DOMAIN db'[C], NEW row, row = db'[C][r], row.status # "PENDING"
        PROVE  Govern(s)!Backed(r, row)'
    <3>1. CASE r \in DOMAIN db[C] /\ row = db[C][r]
      <4>1. Govern(s)!Backed(r, row)
        BY <2>1, <3>1 DEF Govern!TablesSound, Govern!StatusIsDecided, Govern!Backed, Govern!Backing
      <4> QED BY <1>6, <4>1
    <3>2. CASE r \in DOMAIN db[C] /\ row # db[C][r]
      <4>1. h.op = "replace" /\ h.c = C /\ h.id = r /\ row = h.row
        BY <1>2, <1>3, <2>1, <3>2 DEF Keeps
      <4>2. Govern(s)!Backed(r, row)
        BY <4>1 DEF GovBacked
      <4> QED BY <1>6, <4>2
    <3>3. CASE r \notin DOMAIN db[C]
      BY <1>2, <1>7, <1>8, <2>1, <3>3 DEF Govern!AppendSound
    <3> QED BY <3>1, <3>2, <3>3
  <2>2. ASSUME NEW x \in DOMAIN db'[D], NEW y \in DOMAIN db'[D],
               db'[D][x].request = db'[D][y].request, db'[D][x].reviewer = db'[D][y].reviewer
        PROVE  x = y
    <3>1. h.op = "append" /\ h.c = D =>
            \A z \in DOMAIN db[D] : db[D][z].request # h.row.request \/ db[D][z].reviewer # h.row.reviewer
      BY <1>8 DEF Govern!KeyFree, Govern!Keyed, Govern!Key
    <3>2. \A a, b \in DOMAIN db[D] :
            db[D][a].request = db[D][b].request /\ db[D][a].reviewer = db[D][b].reviewer => a = b
      BY DEF Govern!TablesSound, Govern!StatusIsDecided, Govern!Key
    <3>3. \A z \in DOMAIN db'[D] :
            \/ z \in DOMAIN db[D] /\ db'[D][z] = db[D][z]
            \/ h.op = "append" /\ h.c = D /\ z = Len(db[D]) + 1 /\ db'[D][z] = h.row
      BY <1>2, <1>5, <1>7
    <3> QED BY <2>2, <3>1, <3>2, <3>3
  <2> QED BY <2>1, <2>2 DEF Govern!StatusIsDecided, Govern!Backed, Govern!Backing, Govern!Key
<1>10. Govern(s)!CertifiedOnApproval'
  <2> SUFFICES ASSUME NEW x \in DOMAIN db'[K]
               PROVE  /\ \E d \in DOMAIN db'[D] : /\ db'[D][d].request = db'[K][x].request
                                                  /\ db'[D][d].decision = "APPROVED"
                      /\ \A y \in DOMAIN db'[K] \ {x} : /\ db'[K][y].request # db'[K][x].request
                                                        /\ db'[K][y].number # db'[K][x].number
    BY DEF Govern!CertifiedOnApproval
  <2>1. ASSUME NEW r, r = db'[K][x].request PROVE Govern(s)!ApprovalOf(r)'
    <3>1. Govern(s)!ApprovalOf(r)
      <4>1. CASE x \in DOMAIN db[K]
        BY <1>2, <1>5, <2>1, <4>1 DEF Govern!TablesSound, Govern!CertifiedOnApproval, Govern!ApprovalOf
      <4>2. CASE x \notin DOMAIN db[K]
        BY <1>2, <1>7, <1>8, <2>1, <4>2 DEF Govern!AppendSound
      <4> QED BY <4>1, <4>2
    <3> QED BY <1>6, <3>1
  <2>2. ASSUME NEW y \in DOMAIN db'[K], y # x
        PROVE  db'[K][y].request # db'[K][x].request /\ db'[K][y].number # db'[K][x].number
    <3>1. h.op = "append" /\ h.c = K =>
            \A z \in DOMAIN db[K] : db[K][z].request # h.row.request /\ db[K][z].number # h.row.number
      BY <1>8 DEF Govern!KeyFree
    <3>2. \A a \in DOMAIN db[K] : \A b \in DOMAIN db[K] \ {a} :
            db[K][b].request # db[K][a].request /\ db[K][b].number # db[K][a].number
      BY DEF Govern!TablesSound, Govern!CertifiedOnApproval
    <3>3. \A z \in DOMAIN db'[K] :
            \/ z \in DOMAIN db[K] /\ db'[K][z] = db[K][z]
            \/ h.op = "append" /\ h.c = K /\ z = Len(db[K]) + 1 /\ db'[K][z] = h.row
      BY <1>2, <1>5, <1>7
    <3> QED BY <2>2, <3>1, <3>2, <3>3
  <2> QED BY <2>1, <2>2 DEF Govern!ApprovalOf
<1>11. Govern(s)!ProposedOnce'
  <2> SUFFICES ASSUME NEW x \in DOMAIN db'[P], NEW y \in DOMAIN db'[P], db'[P][x].key = db'[P][y].key
               PROVE  x = y
    BY DEF Govern!ProposedOnce
  <2>1. h.op = "append" /\ h.c = P => \A z \in DOMAIN db[P] : db[P][z].key # h.row.key
    BY <1>8 DEF Govern!KeyFree, Govern!Keyed, Govern!Key
  <2>2. \A a, b \in DOMAIN db[P] : db[P][a].key = db[P][b].key => a = b
    BY DEF Govern!TablesSound, Govern!ProposedOnce
  <2>3. \A z \in DOMAIN db'[P] :
          \/ z \in DOMAIN db[P] /\ db'[P][z] = db[P][z]
          \/ h.op = "append" /\ h.c = P /\ z = Len(db[P]) + 1 /\ db'[P][z] = h.row
    BY <1>2, <1>5, <1>7
  <2> QED BY <2>1, <2>2, <2>3
<1>12. ASSUME NEW p \in DOMAIN db'[P], NEW t, t = db'[P][p].trigger
       PROVE  /\ t \in DOMAIN db'[T] /\ db'[T][t] = db[T][t]
              /\ db'[P][p].status = "PROPOSED" => Govern(s)!ReleaseDue(t)'
  <2>1. t \in DOMAIN db[T] /\ (db'[P][p].status = "PROPOSED" => Govern(s)!ReleaseDue(t))
    <3>1. CASE p \in DOMAIN db[P]
      BY <1>2, <1>5, <1>12, <3>1 DEF Govern!TablesSound
    <3>2. CASE p \notin DOMAIN db[P]
      BY <1>2, <1>7, <1>8, <1>12, <3>2 DEF Govern!AppendSound
    <3> QED BY <3>1, <3>2
  <2> QED BY <1>2, <1>5, <1>6, <2>1
<1>13. \A x \in DOMAIN db'[R] : /\ db'[R][x].proposal \in DOMAIN db'[P]
                                /\ db'[P][db'[R][x].proposal].status = "PROPOSED"
  <2> SUFFICES ASSUME NEW x \in DOMAIN db'[R], NEW p, p = db'[R][x].proposal
               PROVE  p \in DOMAIN db'[P] /\ db'[P][p].status = "PROPOSED"
    OBVIOUS
  <2>1. p \in DOMAIN db[P] /\ db[P][p].status = "PROPOSED"
    <3>1. CASE x \in DOMAIN db[R]
      BY <1>2, <1>5, <3>1 DEF Govern!TablesSound
    <3>2. CASE x \notin DOMAIN db[R]
      BY <1>2, <1>7, <1>8, <3>2 DEF Govern!AppendSound
    <3> QED BY <3>1, <3>2
  <2> QED BY <1>2, <1>5, <2>1
<1>14. Govern(s)!ReleasedWhenDue'
  <2> DEFINE Met(t) ==
        /\ \E e \in DOMAIN db'["dodEvaluations"] :
             /\ db'["dodEvaluations"][e].passed
             /\ db'["dodEvaluations"][e].milestone = db'[T][t].milestone
             /\ db'["dodEvaluations"][e].definition = db'[T][t].definition
        /\ db'[T][t].certified => \E c \in DOMAIN db'[K] : db'[K][c].milestone = db'[T][t].milestone
  <2>1. ASSUME NEW t, Govern(s)!ReleaseDue(t)' PROVE Met(t)
    <3>1. /\ \E e \in DOMAIN db'["dodEvaluations"] :
               db'["dodEvaluations"][e] = [milestone |-> db'[T][t].milestone,
                                           definition |-> db'[T][t].definition, passed |-> TRUE]
          /\ db'[T][t].certified => {x \in DOMAIN db'[K] : db'[K][x].milestone = db'[T][t].milestone} # {}
      BY <2>1 DEF Govern!ReleaseDue, Govern!Passed, Govern!CertificatesFor
    <3>2. \E e \in DOMAIN db'["dodEvaluations"] :
                    /\ db'["dodEvaluations"][e].passed
                    /\ db'["dodEvaluations"][e].milestone = db'[T][t].milestone
                    /\ db'["dodEvaluations"][e].definition = db'[T][t].definition
      BY <3>1
    <3> QED BY <3>1, <3>2
  <2>2. ASSUME NEW x \in DOMAIN db'[R], NEW p, p = db'[R][x].proposal, NEW t, t = db'[P][p].trigger
        PROVE  Met(t)
    <3>1. Govern(s)!ReleaseDue(t)'
      BY <1>12, <1>13, <2>2
    <3> QED BY <2>1, <3>1
  <2>3. \A x \in DOMAIN db'[R] : Met(db'[P][db'[R][x].proposal].trigger)
    <3> HIDE DEF Met
    <3> QED BY <2>2
  <2> QED BY <2>3, Zenon DEF Govern!ReleasedWhenDue
<1>15. /\ \A n \in DOMAIN db'["executionHistory"] :
            db'["executionHistory"][n].execution \in DOMAIN db'["governedExecutions"]
       /\ \A e \in DOMAIN db'["milestoneDependencies"] :
            {db'["milestoneDependencies"][e].pred, db'["milestoneDependencies"][e].succ}
              \subseteq DOMAIN db'["governedMilestones"]
  <2>1. ASSUME NEW n \in DOMAIN db'["executionHistory"]
        PROVE  db'["executionHistory"][n].execution \in DOMAIN db["governedExecutions"]
    <3>1. CASE n \in DOMAIN db["executionHistory"]
      BY <1>5, <3>1 DEF Govern!TablesSound
    <3>2. CASE n \notin DOMAIN db["executionHistory"]
      BY <1>2, <1>7, <1>8, <3>2 DEF Govern!AppendSound
    <3> QED BY <3>1, <3>2
  <2>2. ASSUME NEW e \in DOMAIN db'["milestoneDependencies"]
        PROVE  {db'["milestoneDependencies"][e].pred, db'["milestoneDependencies"][e].succ}
                 \subseteq DOMAIN db["governedMilestones"]
    <3>1. CASE e \in DOMAIN db["milestoneDependencies"]
      BY <1>5, <3>1 DEF Govern!TablesSound
    <3>2. CASE e \notin DOMAIN db["milestoneDependencies"]
      <4>1. h.op = "append" /\ h.c = "milestoneDependencies" /\ db'["milestoneDependencies"][e] = h.row
        BY <1>2, <1>7, <2>2, <3>2
      <4>2. Govern(s)!AppendSound(h)
        BY <1>8, <4>1
      <4>3. {h.row.pred, h.row.succ} \subseteq DOMAIN db["governedMilestones"]
        BY <4>1, <4>2 DEF Govern!AppendSound
      <4> QED BY <4>1, <4>3
    <3> QED BY <3>1, <3>2
  <2>3. /\ DOMAIN db["governedExecutions"] \subseteq DOMAIN db'["governedExecutions"]
        /\ DOMAIN db["governedMilestones"] \subseteq DOMAIN db'["governedMilestones"]
    BY <1>2, <1>5
  <2> QED BY <2>1, <2>2, <2>3
<1>16. \A r \in DOMAIN db'[C] : db'[C][r].by \notin db'[C][r].reviewers
  <2>1. \A r \in DOMAIN db[C] : db'[C][r].by = db[C][r].by /\ db'[C][r].reviewers = db[C][r].reviewers
    BY <1>4 DEF GovGrows
  <2> SUFFICES ASSUME NEW r \in DOMAIN db'[C] PROVE db'[C][r].by \notin db'[C][r].reviewers
    OBVIOUS
  <2>2. CASE r \in DOMAIN db[C]
    <3>1. db[C][r].by \notin db[C][r].reviewers
      BY <2>2 DEF Govern!TablesSound
    <3> QED BY <2>1, <2>2, <3>1
  <2>3. CASE r \notin DOMAIN db[C]
    <3>1. h.op = "append" /\ h.c = C /\ db'[C][r] = h.row
      BY <1>2, <1>7, <2>3
    <3>2. Govern(s)!AppendSound(h)
      BY <1>8, <3>1
    <3>3. h.row.by \notin h.row.reviewers
      BY <3>1, <3>2 DEF Govern!AppendSound
    <3> QED BY <3>1, <3>3
  <2> QED BY <2>2, <2>3
<1> QED BY <1>9, <1>10, <1>11, <1>12, <1>13, <1>14, <1>15, <1>16 DEF Govern!TablesSound

----------------------------------------------------------------------------
(* Rows of history and requests that are about to write one, never more    *)
(* than the version counts.                                                *)
LEMMA CountBounded ==
  ASSUME NEW A, IsFiniteSet(A), NEW B, IsFiniteSet(B), NEW v \in Nat, NEW u \in Nat, NEW k, NEW w,
         NEW A2, NEW B2, Cardinality(A) + Cardinality(B) <= v,
         \/ A2 \subseteq A /\ B2 \subseteq B /\ v <= u
         \/ A2 \subseteq A /\ B2 \subseteq B \cup {w} /\ v + 1 <= u
         \/ A2 \subseteq A \cup {k} /\ B2 \subseteq B \ {w} /\ w \in B /\ v <= u
  PROVE  Cardinality(A2) + Cardinality(B2) <= u
<1>1. /\ Cardinality(A) \in Nat /\ Cardinality(B) \in Nat
      /\ \A S : S \in SUBSET A => IsFiniteSet(S) /\ Cardinality(S) <= Cardinality(A) /\ Cardinality(S) \in Nat
      /\ \A S : S \in SUBSET B => IsFiniteSet(S) /\ Cardinality(S) <= Cardinality(B) /\ Cardinality(S) \in Nat
  BY FS_Subset, FS_CardinalityType
<1>2. ASSUME NEW S, S \in SUBSET (A \cup {k})
      PROVE  Cardinality(S) <= Cardinality(A) + 1 /\ Cardinality(S) \in Nat
  <2>1. /\ IsFiniteSet(A \cup {k})
        /\ Cardinality(A \cup {k}) = IF k \in A THEN Cardinality(A) ELSE Cardinality(A) + 1
    BY FS_AddElement
  <2>2. Cardinality(A \cup {k}) <= Cardinality(A) + 1 /\ Cardinality(A \cup {k}) \in Nat
    BY <1>1, <2>1
  <2>3. IsFiniteSet(S) /\ Cardinality(S) <= Cardinality(A \cup {k})
    BY <1>2, <2>1, FS_Subset
  <2>4. Cardinality(S) \in Nat
    BY <2>3, FS_CardinalityType
  <2> QED BY <1>1, <2>2, <2>3, <2>4
<1>3. ASSUME NEW S, S \in SUBSET (B \cup {w})
      PROVE  Cardinality(S) <= Cardinality(B) + 1 /\ Cardinality(S) \in Nat
  <2>1. /\ IsFiniteSet(B \cup {w})
        /\ Cardinality(B \cup {w}) = IF w \in B THEN Cardinality(B) ELSE Cardinality(B) + 1
    BY FS_AddElement
  <2>2. Cardinality(B \cup {w}) <= Cardinality(B) + 1 /\ Cardinality(B \cup {w}) \in Nat
    BY <1>1, <2>1
  <2>3. IsFiniteSet(S) /\ Cardinality(S) <= Cardinality(B \cup {w})
    BY <1>3, <2>1, FS_Subset
  <2>4. Cardinality(S) \in Nat
    BY <2>3, FS_CardinalityType
  <2> QED BY <1>1, <2>2, <2>3, <2>4
<1>4. w \in B => \A S : S \in SUBSET (B \ {w}) => Cardinality(S) <= Cardinality(B) - 1 /\ Cardinality(S) \in Nat
  <2> SUFFICES ASSUME w \in B
               PROVE  \A S : S \in SUBSET (B \ {w}) => Cardinality(S) <= Cardinality(B) - 1 /\ Cardinality(S) \in Nat
    OBVIOUS
  <2>1. IsFiniteSet(B \ {w}) /\ Cardinality(B \ {w}) = Cardinality(B) - 1
    BY FS_RemoveElement
  <2> QED BY <2>1, FS_Subset, FS_CardinalityType
<1>5. CASE A2 \subseteq A /\ B2 \subseteq B /\ v <= u
  <2>1. /\ Cardinality(A2) <= Cardinality(A) /\ Cardinality(A2) \in Nat
        /\ Cardinality(B2) <= Cardinality(B) /\ Cardinality(B2) \in Nat
    BY <1>1, <1>5
  <2> QED BY <1>1, <1>5, <2>1
<1>6. CASE A2 \subseteq A /\ B2 \subseteq B \cup {w} /\ v + 1 <= u
  <2>1. /\ Cardinality(A2) <= Cardinality(A) /\ Cardinality(A2) \in Nat
        /\ Cardinality(B2) <= Cardinality(B) + 1 /\ Cardinality(B2) \in Nat
    BY <1>1, <1>3, <1>6
  <2> QED BY <1>1, <1>6, <2>1
<1>7. CASE A2 \subseteq A \cup {k} /\ B2 \subseteq B \ {w} /\ w \in B /\ v <= u
  <2>1. /\ Cardinality(A2) <= Cardinality(A) + 1 /\ Cardinality(A2) \in Nat
        /\ Cardinality(B2) <= Cardinality(B) - 1 /\ Cardinality(B2) \in Nat
    BY <1>2, <1>4, <1>7
  <2> QED BY <1>1, <1>7, <2>1
<1> QED BY <1>5, <1>6, <1>7

(* Who is recording records a change of an execution there is.             *)
LEMMA GovRecorded ==
  ASSUME NEW s \in GovernanceScenes, NEW j, Govern(s)!JobSound(j), NEW x, Govern(s)!Recording(j, x)
  PROVE  x \in DOMAIN db["governedExecutions"]
<1>1. CASE j.at = "record" /\ j.id = x
  BY <1>1 DEF Govern!JobSound, Govern!Ids
<1>2. CASE j.at = "write" /\ Head(j.todo).c = "executionHistory" /\ Head(j.todo).row.execution = x
  <2> PICK t : t = j.todo
    OBVIOUS
  <2>1. ListedTodo(t) /\ \A n \in DOMAIN t : Govern(s)!WriteSound(t[n])
    BY <1>2 DEF Govern!JobSound, Govern!Listed, ListedTodo
  <2>2. 1 \in DOMAIN t /\ Head(t) = t[1]
    BY <2>1, TodoHead
  <2>3. Govern(s)!WriteSound(t[1]) /\ t[1].c = "executionHistory" /\ t[1].row.execution = x
    BY <1>2, <2>1, <2>2
  <2> QED BY <2>3 DEF Govern!WriteSound, Govern!WriteTyped, Govern!ReplaceSound, Govern!AppendSound, Govern!Ids
<1> QED BY <1>1, <1>2 DEF Govern!Recording

(* The changes of executions and of their history that are counted: who    *)
(* changed one is to record it, and who recorded it is done.               *)
GovCounting(s, w, h, j) ==
  /\ h.c # "governedExecutions" => \A x : ~Govern(s)!Recording(j, x)
  /\ h.c = "governedExecutions" => \A x : Govern(s)!Recording(j, x) => x = Place(db, h)
  /\ h.c = "executionHistory" => Govern(s)!Recording(job[w], h.row.execution)

LEMMA GovCounts ==
  ASSUME NEW s \in GovernanceScenes, Govern(s)!IInv, NEW w \in Cast[s].workers, NEW h, NEW j,
         Govern(s)!WriteSound(h) \/ GovMoving(s, h), Govern(s)!Admits(h), db' = Govern(s)!Written(h),
         job' = [job EXCEPT ![w] = j], GovCounting(s, w, h, j)
  PROVE  Govern(s)!HistoryCounted'
<1> DEFINE E == "governedExecutions"
           H == "executionHistory"
<1> USE DEF Govern!Ids
<1>1. /\ E \in DOMAIN db /\ H \in DOMAIN db /\ DOMAIN db[H] = 1..Len(db[H]) /\ Len(db[H]) \in Nat
      /\ \A x \in DOMAIN db[E] : db[E][x] \in Govern(s)!Execution
  BY GovTables DEF Govern!IInv, Govern!RowType
<1>2. Govern(s)!WriteTyped(h, Govern(s)!RowType)
  BY DEF Govern!WriteSound, GovMoving
<1>3. Lands(db, db', h) /\ Keeps(db, db', h) /\ Adds(db, db', h)
  BY <1>2, GovLands DEF Govern!IInv
<1>4. GovGrows
  BY GovGrowing DEF Govern!IInv
<1>5. /\ job' = [v \in Cast[s].workers |-> job'[v]] /\ job'[w] = j
      /\ \A v \in Cast[s].workers \ {w} : job'[v] = job[v]
  BY CarryMoves DEF Govern!IInv
<1>6. h.c = H => h.op = "append" /\ h.c # E
  BY DEF Govern!WriteSound, Govern!WriteTyped, Govern!ReplaceSound, GovMoving
<1>7. h.c # H => db'[H] = db[H]
  BY <1>1, <1>3 DEF Lands
<1>8. \A x : Govern(s)!Recorders(x) = {v \in Cast[s].workers : Govern(s)!Recording(job[v], x)}
  BY DEF Govern!Recorders
<1>9. ASSUME NEW x PROVE Govern(s)!Recorders(x)' = {v \in Cast[s].workers : Govern(s)!Recording(job'[v], x)}
  BY DEF Govern!Recorders, Govern!Recording
<1>10. \A x : Govern(s)!HistoryOf(x) = {n \in DOMAIN db[H] : db[H][n].execution = x}
  BY DEF Govern!HistoryOf
<1>11. ASSUME NEW x PROVE Govern(s)!HistoryOf(x)' = {n \in DOMAIN db'[H] : db'[H][n].execution = x}
  BY DEF Govern!HistoryOf
<1>12. ASSUME NEW x \in DOMAIN db'[E], x \notin DOMAIN db[E]
       PROVE  Cardinality(Govern(s)!HistoryOf(x)') + Cardinality(Govern(s)!Recorders(x)')
                <= db'[E][x].version
  <2>1. h.c = E /\ db'[E][x] = h.row
    BY <1>1, <1>3, <1>12 DEF Adds
  <2>2. h.row.version \in Nat \ {0}
    BY <1>2, <2>1 DEF Govern!WriteTyped, Govern!RowType, Govern!Execution
  <2>3. Govern(s)!HistoryOf(x)' = {}
    BY <1>7, <1>11, <1>12, <2>1 DEF Govern!IInv, Govern!TablesSound
  <2>4. \A v \in Cast[s].workers : ~Govern(s)!Recording(job[v], x)
    BY <1>12, GovRecorded DEF Govern!IInv
  <2>5. Govern(s)!Recorders(x)' \subseteq {} \cup {w}
    BY <1>5, <1>9, <2>4
  <2>6. IsFiniteSet({}) /\ Cardinality({}) + Cardinality({}) <= 0
    BY FS_EmptySet
  <2> DEFINE A2 == Govern(s)!HistoryOf(x)'
             B2 == Govern(s)!Recorders(x)'
             u == db'[E][x].version
  <2>7. A2 \subseteq {} /\ B2 \subseteq {} \cup {w} /\ u \in Nat /\ 0 + 1 <= u
    BY <2>1, <2>2, <2>3, <2>5
  <2> HIDE DEF A2, B2, u
  <2>8. Cardinality(A2) + Cardinality(B2) <= u
    BY <2>6, <2>7, CountBounded
  <2> QED BY <2>8 DEF A2, B2, u
<1>13. ASSUME NEW x \in DOMAIN db[E]
       PROVE  Cardinality(Govern(s)!HistoryOf(x)') + Cardinality(Govern(s)!Recorders(x)')
                <= db'[E][x].version
  <2> DEFINE A == Govern(s)!HistoryOf(x)
             B == Govern(s)!Recorders(x)
             A2 == Govern(s)!HistoryOf(x)'
             B2 == Govern(s)!Recorders(x)'
             k == Len(db[H]) + 1
             n == db[E][x].version
             u == db'[E][x].version
  <2>1. n \in Nat /\ u \in Nat /\ n <= u
    BY <1>1, <1>4 DEF GovGrows, Govern!Execution
  <2>2. Cardinality(A) + Cardinality(B) <= n
    BY GovCardinality DEF Govern!IInv, Govern!HistoryCounted
  <2>3. IsFiniteSet(A) /\ IsFiniteSet(B)
    <3>1. A \in SUBSET (1..Len(db[H])) /\ B \in SUBSET Cast[s].workers
      BY <1>1, <1>8, <1>10
    <3>2. IsFiniteSet(1..Len(db[H])) /\ IsFiniteSet(Cast[s].workers)
      BY <1>1, FS_Interval, GovFinite
    <3> QED BY <3>1, <3>2, FS_Subset
  <2>4. h.c # H => A2 \subseteq A
    <3>1. ASSUME h.c # H, NEW y \in A2 PROVE y \in A
      BY <1>7, <1>10, <1>11, <3>1
    <3> QED BY <3>1
  <2>5. (\A y : Govern(s)!Recording(j, y) => y # x) => B2 \subseteq B \ {w}
    BY <1>5, <1>8, <1>9
  <2>6. B2 \subseteq B \cup {w}
    BY <1>5, <1>8, <1>9
  <2>7. CASE h.c = E /\ x = Place(db, h)
    <3>1. h.op = "replace" /\ h.id = x /\ u = h.row.version
      <4>1. h.op # "append"
        BY <1>1, <1>3, <2>7, GovTables DEF Place, Govern!IInv
      <4> QED BY <1>2, <1>3, <2>7, <4>1 DEF Place, Lands, Govern!WriteTyped
    <3>2. n + 1 <= u
      BY <2>1, <2>7, <3>1 DEF Govern!Admits, Govern!Advances, Govern!Versioned
    <3> HIDE DEF A, B, A2, B2, k, n, u
    <3>3. Cardinality(A2) + Cardinality(B2) <= u
      BY <2>1, <2>2, <2>3, <2>4, <2>6, <2>7, <3>2, CountBounded
    <3> QED BY <3>3 DEF A2, B2, u
  <2>8. CASE h.c = H /\ h.row.execution = x
    <3>1. w \in B /\ B2 \subseteq B \ {w}
      BY <1>6, <1>8, <2>5, <2>8 DEF GovCounting
    <3>2. A2 \subseteq A \cup {k}
      <4>1. DOMAIN db'[H] = DOMAIN db[H] \cup {k} /\ \A y \in DOMAIN db[H] \ {k} : db'[H][y] = db[H][y]
        BY <1>1, <1>3, <1>6, <2>8 DEF Lands, Place
      <4> QED BY <1>10, <1>11, <4>1
    <3> HIDE DEF A, B, A2, B2, k, n, u
    <3>3. Cardinality(A2) + Cardinality(B2) <= u
      BY <2>1, <2>2, <2>3, <3>1, <3>2, CountBounded
    <3> QED BY <3>3 DEF A2, B2, u
  <2>9. CASE ~(h.c = E /\ x = Place(db, h)) /\ ~(h.c = H /\ h.row.execution = x)
    <3>1. B2 \subseteq B
      BY <2>5, <2>9 DEF GovCounting
    <3>2. A2 \subseteq A
      <4>1. CASE h.c # H
        BY <2>4, <4>1
      <4>2. CASE h.c = H
        <5>1. /\ DOMAIN db'[H] = DOMAIN db[H] \cup {k} /\ db'[H][k] = h.row
              /\ \A y \in DOMAIN db[H] \ {k} : db'[H][y] = db[H][y]
          BY <1>1, <1>3, <1>6, <4>2 DEF Lands, Place
        <5> QED BY <1>10, <1>11, <2>9, <4>2, <5>1
      <4> QED BY <4>1, <4>2
    <3> HIDE DEF A, B, A2, B2, k, n, u
    <3>3. Cardinality(A2) + Cardinality(B2) <= u
      BY <2>1, <2>2, <2>3, <3>1, <3>2, CountBounded
    <3> QED BY <3>3 DEF A2, B2, u
  <2> QED BY <2>7, <2>8, <2>9
<1>14. \A x \in DOMAIN db'[E] : Cardinality(Govern(s)!HistoryOf(x)') + Cardinality(Govern(s)!Recorders(x)')
                <= db'[E][x].version
  BY <1>12, <1>13
<1>15. \A S : Govern(s)!Cardinality(S) = Cardinality(S)
  BY GovCardinality
<1> QED BY <1>14, <1>15 DEF Govern!HistoryCounted

----------------------------------------------------------------------------
(* Orders: to is reached from from unless a set of milestones, which the   *)
(* edges do not leave, has the successors of from and not to.              *)
AfterIn(E, M) == {e.succ : e \in {e \in E : e.pred \in M}}
PathIn(E, I, from, to) == \A S \in SUBSET I : AfterIn(E, S \cup {from}) \subseteq S => to \in S
NoCycle(E, I) == \A m \in I : ~PathIn(E, I, m, m)

LEMMA EdgeAdded ==
  ASSUME NEW E, NEW I, NoCycle(E, I), NEW p, NEW q \in I, p # q, ~PathIn(E, I, q, p)
  PROVE  NoCycle(E \cup {[pred |-> p, succ |-> q]}, I)
<1> DEFINE new == [pred |-> p, succ |-> q]
           F == E \cup {new}
<1>1. PICK R \in SUBSET I : AfterIn(E, R \cup {q}) \subseteq R /\ p \notin R
  BY DEF PathIn
<1>2. \A e \in E : e.pred \in R \cup {q} => e.succ \in R
  BY <1>1 DEF AfterIn
<1> SUFFICES ASSUME NEW m \in I PROVE ~PathIn(F, I, m, m)
  BY DEF NoCycle
<1>3. PICK S \in SUBSET I : AfterIn(E, S \cup {m}) \subseteq S /\ m \notin S
  BY DEF NoCycle, PathIn
<1>4. \A e \in E : e.pred \in S \cup {m} => e.succ \in S
  BY <1>3 DEF AfterIn
<1>5. new.pred = p /\ new.succ = q
  OBVIOUS
<1> HIDE DEF new
<1>6. ASSUME NEW Q \in SUBSET I, m \notin Q, \A e \in F : e.pred \in Q \cup {m} => e.succ \in Q
      PROVE  ~PathIn(F, I, m, m)
  BY <1>6 DEF PathIn, AfterIn
<1>7. CASE m \in R \cup {q}
  <2>1. m \notin S \cap R /\ S \cap R \in SUBSET I
    BY <1>3
  <2>2. \A e \in F : e.pred \in (S \cap R) \cup {m} => e.succ \in S \cap R
    BY <1>1, <1>2, <1>4, <1>5, <1>7
  <2> QED BY <1>6, <2>1, <2>2
<1>8. CASE m \notin R \cup {q}
  <2> DEFINE Q == S \cup {q} \cup R
  <2>1. m \notin Q /\ Q \in SUBSET I
    BY <1>3, <1>8
  <2>2. \A e \in F : e.pred \in Q \cup {m} => e.succ \in Q
    BY <1>1, <1>2, <1>4, <1>5, <1>8
  <2> QED BY <1>6, <2>1, <2>2
<1> QED BY <1>7, <1>8

LEMMA MilestoneAdded ==
  ASSUME NEW E, NEW I, NoCycle(E, I), \A e \in E : e.pred \in I, NEW J, I \subseteq J
  PROVE  NoCycle(E, J)
<1> SUFFICES ASSUME NEW m \in J PROVE ~PathIn(E, J, m, m)
  BY DEF NoCycle
<1>1. CASE m \in I
  <2>1. PICK S \in SUBSET I : AfterIn(E, S \cup {m}) \subseteq S /\ m \notin S
    BY <1>1 DEF NoCycle, PathIn
  <2>2. S \in SUBSET J
    BY <2>1
  <2> QED BY <2>1, <2>2 DEF PathIn
<1>2. CASE m \notin I
  <2>1. AfterIn(E, {} \cup {m}) \subseteq {}
    BY <1>2 DEF AfterIn
  <2>2. {} \in SUBSET J /\ m \notin {}
    OBVIOUS
  <2> QED BY <2>1, <2>2 DEF PathIn
<1> QED BY <1>1, <1>2

----------------------------------------------------------------------------
(* A request goes from one call to the next, or makes a write.             *)
GovInTurn(s) == Govern(s)!InTurn /\ Govern(s)!SerialInv

GovMoves(s, w) ==
  \E j : /\ job' = [job EXCEPT ![w] = j] /\ UNCHANGED db
         /\ Govern(s)!JobSound(j)
         /\ GovInTurn(s) => Govern(s)!Fresh(j)
         /\ \A x : Govern(s)!Recording(j, x) => Govern(s)!Recording(job[w], x)

(* What is so of the tables when a request that came in turn writes.       *)
GovTimely(s, h) ==
  /\ Govern(s)!Publishing(h) => Govern(s)!PublishedOf(h.row.milestone) = {}
  /\ h.c = "milestoneDependencies" => ~Govern(s)!HasPath(h.row.succ, h.row.pred)
  /\ h.c = "governedMilestones" /\ h.op = "replace" =>
       Govern(s)!AllReady(Govern(s)!Predecessors(h.id))

GovWrites(s, w) ==
  \E h, j : /\ job' = [job EXCEPT ![w] = j] /\ Govern(s)!Admits(h) /\ db' = Govern(s)!Written(h)
            /\ Govern(s)!WriteSound(h) \/ GovMoving(s, h)
            /\ GovBacked(s, h) /\ GovCounting(s, w, h, j)
            /\ Govern(s)!JobSound(j)'
            /\ GovInTurn(s) => GovTimely(s, h) /\ Govern(s)!Fresh(j)'

LEMMA GovAsks ==
  ASSUME NEW s \in GovernanceScenes, NEW w \in Cast[s].workers, NEW h,
         Govern(s)!Ask(w, <<h>>) \/ Govern(s)!Decide(w, <<h>>),
         Govern(s)!WriteSound(h), GovBacked(s, h), GovInTurn(s) => GovTimely(s, h),
         h.c = "executionHistory" => Govern(s)!Recording(job[w], h.row.execution)
  PROVE  GovMoves(s, w)
<1> DEFINE j == [at |-> "write", todo |-> <<h>>]
<1>1. job' = [job EXCEPT ![w] = j] /\ UNCHANGED db
  BY DEF Govern!Ask, Govern!Decide, Govern!Then, Govern!Receive, Govern!Carry
<1>2. j.at = "write" /\ j.todo = <<h>>
  OBVIOUS
<1> HIDE DEF j
<1>3. Govern(s)!Waits(<<h>>, 1)
  BY TodoOfOne DEF Govern!Waits, GovBacked
<1>4. Govern(s)!JobSound(j)
  BY <1>2, <1>3, TodoOfOne DEF Govern!JobSound, Govern!Listed, ListedTodo
<1>5. GovInTurn(s) => Govern(s)!Fresh(j)
  <2>1. GovTimely(s, h) => Govern(s)!FreshAt(<<h>>, 1)
    BY TodoOfOne DEF Govern!FreshAt, GovTimely
  <2> QED BY <1>2, <2>1, TodoOfOne DEF Govern!Fresh
<1>6. \A x : Govern(s)!Recording(j, x) => Govern(s)!Recording(job[w], x)
  <2> SUFFICES ASSUME NEW x, Govern(s)!Recording(j, x) PROVE Govern(s)!Recording(job[w], x)
    OBVIOUS
  <2>1. h.c = "executionHistory" /\ h.row.execution = x
    BY <1>2, TodoOfOne DEF Govern!Recording
  <2> QED BY <2>1
<1> QED BY <1>1, <1>4, <1>5, <1>6 DEF GovMoves

LEMMA GovReads ==
  ASSUME NEW s \in GovernanceScenes, NEW w \in Cast[s].workers, NEW j,
         \/ Govern(s)!Look(w, j) \/ Govern(s)!Then(w, j),
         j.at \notin {"write", "record"}, Govern(s)!JobSound(j), GovInTurn(s) => Govern(s)!Fresh(j)
  PROVE  GovMoves(s, w)
<1>1. job' = [job EXCEPT ![w] = j] /\ UNCHANGED db
  BY DEF Govern!Look, Govern!Then, Govern!Receive, Govern!Carry
<1> QED BY <1>1 DEF GovMoves, Govern!Recording

LEMMA GovGivesUp ==
  ASSUME NEW s \in GovernanceScenes, NEW w \in Cast[s].workers, Govern(s)!GiveUp(w)
  PROVE  GovMoves(s, w)
<1> DEFINE j == Govern(s)!Idle
<1>1. j.at = "idle" /\ job' = [job EXCEPT ![w] = j] /\ UNCHANGED db
  BY DEF Govern!GiveUp, Govern!Return, Govern!Carry, Govern!Idle
<1> HIDE DEF j
<1>2. Govern(s)!JobSound(j) /\ Govern(s)!Fresh(j)
  BY <1>1 DEF Govern!JobSound, Govern!Fresh
<1> QED BY <1>1, <1>2 DEF GovMoves, Govern!Recording

LEMMA GovCreates ==
  ASSUME NEW s \in GovernanceScenes, Govern(s)!IInv, NEW w \in Cast[s].workers, Govern(s)!CreateExecution(w)
  PROVE  GovWrites(s, w)
<1> DEFINE E == "governedExecutions"
<1> PICK h, j : /\ h = Govern(s)!New(E, [state |-> "DRAFT", version |-> 1])
                /\ j = [at |-> "record", id |-> Len(db[E]) + 1, from |-> "none", to |-> "DRAFT"]
  OBVIOUS
<1>1. job' = [job EXCEPT ![w] = j] /\ db' = Govern(s)!Written(h)
  BY DEF Govern!CreateExecution, Govern!Receive, Govern!Carry, Govern!Written, Govern!New
<1>2. h.op = "append" /\ h.c = E /\ h.row \in Govern(s)!Execution
  BY DEF Govern!New, Govern!Execution, Govern!ExecutionState
<1>3. j.at = "record" /\ j.id = Len(db[E]) + 1 /\ j.from = "none" /\ j.to = "DRAFT"
  OBVIOUS
<1>4. /\ E \in DOMAIN db /\ Govern(s)!Collections = DOMAIN db
      /\ Govern(s)!TablesTyped(Govern(s)!RowType)
  BY GovTables DEF Govern!IInv
<1>5. Govern(s)!WriteTyped(h, Govern(s)!RowType)
  BY <1>2, <1>4 DEF Govern!WriteTyped, Govern!RowType
<1>6. GovMoving(s, h) /\ GovBacked(s, h) /\ GovTimely(s, h) /\ Govern(s)!Admits(h)
  BY <1>2, <1>5 DEF GovMoving, GovBacked, GovTimely, Govern!Publishing, Govern!Admits, Govern!KeyFree, Govern!Keyed
<1>7. j.id \in DOMAIN db'[E] /\ j.id = Place(db, h)
  <2>1. Lands(db, db', h)
    BY <1>1, <1>4, <1>5, GovLands
  <2> QED BY <1>2, <1>3, <2>1 DEF Lands, Place
<1>8. Govern(s)!JobSound(j)'
  BY <1>3, <1>7 DEF Govern!JobSound, Govern!ExecutionState, Govern!Ids
<1>9. Govern(s)!Fresh(j)' /\ GovCounting(s, w, h, j)
  BY <1>2, <1>3, <1>7 DEF Govern!Fresh, GovCounting, Govern!Recording
<1> QED BY <1>1, <1>6, <1>8, <1>9 DEF GovWrites

LEMMA GovMove ==
  ASSUME NEW s \in GovernanceScenes, Govern(s)!IInv, NEW w \in Cast[s].workers, Govern(s)!Move(w)
  PROVE  GovMoves(s, w) \/ GovWrites(s, w)
<1> DEFINE E == "governedExecutions"
<1> PICK x, to, row : x = job[w].id /\ to = job[w].to /\ row = job[w].row
  OBVIOUS
<1> DEFINE h == Govern(s)!PutExecution(x, [Govern(s)!Bumped(row) EXCEPT !.state = to])
           j == [at |-> "record", id |-> x, from |-> row.state, to |-> to]
<1>1. CASE Govern(s)!GiveUp(w)
  BY <1>1, GovGivesUp
<1>2. CASE Govern(s)!Admits(h) /\ db' = Govern(s)!Written(h) /\ Govern(s)!Carry(w, j)
  <2>1. /\ E \in DOMAIN db /\ Govern(s)!Collections = DOMAIN db
        /\ Govern(s)!TablesTyped(Govern(s)!RowType)
        /\ \A y \in DOMAIN db[E] : db[E][y] \in Govern(s)!Execution
    BY GovTables DEF Govern!IInv, Govern!RowType
  <2>2. /\ x \in DOMAIN db[E] /\ row \in Govern(s)!Execution /\ to \in Govern(s)!Allowed[row.state]
        /\ row.version <= db[E][x].version
        /\ row.version = db[E][x].version => row = db[E][x]
    BY DEF Govern!IInv, Govern!JobSound, Govern!Move, Govern!At, Govern!Ids
  <2>3. to \in Govern(s)!ExecutionState
    BY <2>2 DEF Govern!Allowed, Govern!Execution, Govern!ExecutionState
  <2>4. /\ h.op = "replace" /\ h.c = E /\ h.id = x /\ h.row \in Govern(s)!Execution
        /\ h.row.state = to /\ h.row.version = row.version + 1
    <3>1. h = [op |-> "replace", c |-> E, id |-> x, row |-> [Govern(s)!Bumped(row) EXCEPT !.state = to]]
      BY DEF Govern!PutExecution, Govern!Put
    <3>2. row = [state |-> row.state, version |-> row.version] /\ row.version \in Nat
      BY <2>2 DEF Govern!Execution
    <3>3. [Govern(s)!Bumped(row) EXCEPT !.state = to] = [state |-> to, version |-> row.version + 1]
      <4>1. Govern(s)!Bumped(row) = [state |-> row.state, version |-> row.version + 1]
        <5> PICK a, v : a = row.state /\ v = row.version
          OBVIOUS
        <5>1. row = [state |-> a, version |-> v]
          BY <3>2
        <5>2. [row EXCEPT !.version = @ + 1] = [state |-> a, version |-> v + 1]
          BY <5>1
        <5> QED BY <5>2 DEF Govern!Bumped
      <4> QED BY <4>1
    <3>4. [state |-> to, version |-> row.version + 1] \in Govern(s)!Execution
      BY <2>3, <3>2 DEF Govern!Execution
    <3> QED BY <3>1, <3>3, <3>4
  <2>5. j.at = "record" /\ j.id = x /\ j.from = row.state /\ j.to = to
    OBVIOUS
  <2>6. job' = [job EXCEPT ![w] = j]
    BY <1>2 DEF Govern!Carry
  <2> HIDE DEF h, j
  <2>7. h.row.version > db[E][x].version
    BY <1>2, <2>4 DEF Govern!Admits, Govern!Advances, Govern!Versioned
  <2>8. row = db[E][x]
    BY <2>1, <2>2, <2>4, <2>7 DEF Govern!Execution
  <2>9. Govern(s)!WriteTyped(h, Govern(s)!RowType)
    BY <2>1, <2>2, <2>4 DEF Govern!WriteTyped, Govern!RowType, Govern!Ids
  <2>10. GovMoving(s, h) /\ GovBacked(s, h) /\ GovTimely(s, h)
    BY <2>2, <2>4, <2>8, <2>9 DEF GovMoving, GovBacked, GovTimely, Govern!Publishing
  <2>11. x \in DOMAIN db'[E] /\ x = Place(db, h)
    <3>1. Lands(db, db', h)
      BY <1>2, <2>1, <2>9, GovLands
    <3> QED BY <2>4, <3>1 DEF Lands, Place
  <2>12. Govern(s)!JobSound(j)'
    BY <2>2, <2>3, <2>5, <2>11 DEF Govern!JobSound, Govern!ExecutionState, Govern!Ids, Govern!Execution
  <2>13. Govern(s)!Fresh(j)' /\ GovCounting(s, w, h, j)
    BY <2>4, <2>5, <2>11 DEF Govern!Fresh, GovCounting, Govern!Recording
  <2> QED BY <1>2, <2>6, <2>10, <2>12, <2>13 DEF GovWrites
<1> QED BY <1>1, <1>2 DEF Govern!Move

LEMMA GovExecutes ==
  ASSUME NEW s \in GovernanceScenes, Govern(s)!IInv, NEW w \in Cast[s].workers,
         Govern(s)!Transition(w) \/ Govern(s)!Record(w)
  PROVE  GovMoves(s, w)
<1> DEFINE E == "governedExecutions"
           H == "executionHistory"
<1> USE DEF Govern!Ids
<1>1. /\ E \in DOMAIN db /\ H \in DOMAIN db /\ Govern(s)!Collections = DOMAIN db
      /\ DOMAIN db[E] = 1..Len(db[E]) /\ DOMAIN db[H] = 1..Len(db[H]) /\ Len(db[H]) \in Nat
      /\ \A x \in DOMAIN db[E] : db[E][x] \in Govern(s)!Execution
  BY GovTables DEF Govern!IInv, Govern!RowType
<1>2. CASE Govern(s)!Transition(w)
  <2>1. PICK x \in DOMAIN db[E] : \E to \in Govern(s)!Allowed[db[E][x].state] :
          Govern(s)!Look(w, [at |-> "move", id |-> x, to |-> to, row |-> db[E][x]])
    BY <1>2 DEF Govern!Transition
  <2>2. PICK to \in Govern(s)!Allowed[db[E][x].state] :
          Govern(s)!Look(w, [at |-> "move", id |-> x, to |-> to, row |-> db[E][x]])
    BY <2>1
  <2> PICK j : j = [at |-> "move", id |-> x, to |-> to, row |-> db[E][x]]
    OBVIOUS
  <2>3. j.at = "move" /\ j.id = x /\ j.to = to /\ j.row = db[E][x] /\ Govern(s)!Look(w, j)
    BY <2>2
  <2>4. j.row \in Govern(s)!Execution /\ j.row.version \in Nat
    BY <1>1, <2>3 DEF Govern!Execution
  <2>5. Govern(s)!JobSound(j) /\ Govern(s)!Fresh(j)
    BY <1>1, <2>3, <2>4 DEF Govern!JobSound, Govern!Fresh
  <2> QED BY <2>3, <2>5, GovReads
<1>3. CASE Govern(s)!Record(w)
  <2> PICK x, from, to : x = job[w].id /\ from = job[w].from /\ to = job[w].to
    OBVIOUS
  <2> DEFINE n == Cardinality(Govern(s)!HistoryOf(x))
             row == [execution |-> x, from |-> from, to |-> to, sequence |-> n + 1]
             h == Govern(s)!NewHistory(row)
  <2>1. job[w].at = "record" /\ Govern(s)!Decide(w, <<h>>)
    BY <1>3, GovCardinality DEF Govern!Record, Govern!At
  <2>2. /\ x \in DOMAIN db[E] /\ to \in Govern(s)!ExecutionState
        /\ from \in Govern(s)!ExecutionState \cup {"none"}
    BY <2>1 DEF Govern!IInv, Govern!JobSound
  <2>3. n \in Nat
    <3>1. Govern(s)!HistoryOf(x) \in SUBSET (1..Len(db[H])) /\ IsFiniteSet(1..Len(db[H]))
      BY <1>1, FS_Interval DEF Govern!HistoryOf
    <3> QED BY <3>1, FS_Subset, FS_CardinalityType
  <2> HIDE DEF n
  <2>4. x \in Nat /\ n + 1 \in Nat \ {0}
    BY <1>1, <2>2, <2>3
  <2>5. row \in Govern(s)!ExecutionHistory
    BY <2>2, <2>4 DEF Govern!ExecutionHistory
  <2>6. /\ h.op = "append" /\ h.c = H /\ h.row \in Govern(s)!ExecutionHistory
        /\ h.row.execution = x
    BY <2>5 DEF Govern!NewHistory, Govern!New
  <2> HIDE DEF h
  <2>7. Govern(s)!WriteSound(h)
    BY <1>1, <2>2, <2>6 DEF Govern!WriteSound, Govern!WriteTyped, Govern!AppendSound, Govern!RowType
  <2>8. GovBacked(s, h) /\ GovTimely(s, h) /\ Govern(s)!Recording(job[w], x)
    BY <2>1, <2>6 DEF GovBacked, GovTimely, Govern!Publishing, Govern!Recording
  <2> QED BY <2>1, <2>6, <2>7, <2>8, GovAsks
<1> QED BY <1>2, <1>3

LEMMA GovOrders ==
  ASSUME NEW s \in GovernanceScenes, Govern(s)!IInv, NEW w \in Cast[s].workers,
         \/ Govern(s)!CreateMilestone(w) \/ Govern(s)!AddDependency(w) \/ Govern(s)!ReadEdges(w)
         \/ Govern(s)!Complete(w) \/ Govern(s)!ReadPredecessors(w) \/ Govern(s)!ReadReadiness(w)
  PROVE  GovMoves(s, w)
<1> DEFINE M == "governedMilestones"
           D == "milestoneDependencies"
<1> USE DEF Govern!Ids
<1>1. /\ M \in DOMAIN db /\ D \in DOMAIN db /\ Govern(s)!Collections = DOMAIN db
      /\ DOMAIN db[M] = 1..Len(db[M])
      /\ \A x \in DOMAIN db[M] : db[M][x] \in Govern(s)!MilestoneNode
  BY GovTables DEF Govern!IInv, Govern!RowType
<1>2. Govern(s)!JobSound(job[w]) /\ (GovInTurn(s) => Govern(s)!Fresh(job[w]))
  BY DEF Govern!IInv, GovInTurn, Govern!SerialInv
<1>3. CASE Govern(s)!CreateMilestone(w)
  <2> DEFINE h == Govern(s)!New(M, [state |-> "PLANNED", version |-> 1])
  <2>1. Govern(s)!Ask(w, <<h>>)
    BY <1>3 DEF Govern!CreateMilestone
  <2>2. h.op = "append" /\ h.c = M /\ h.row \in Govern(s)!MilestoneNode /\ h.row.state = "PLANNED"
    BY DEF Govern!New, Govern!MilestoneNode
  <2> HIDE DEF h
  <2>3. Govern(s)!WriteSound(h) /\ GovBacked(s, h) /\ GovTimely(s, h)
    BY <1>1, <2>2 DEF Govern!WriteSound, Govern!WriteTyped, Govern!AppendSound, Govern!RowType, GovBacked,
       GovTimely, Govern!Publishing
  <2> QED BY <2>1, <2>2, <2>3, GovAsks
<1>4. CASE Govern(s)!AddDependency(w)
  <2>1. PICK m \in DOMAIN db[M], n \in DOMAIN db[M] :
          m # n /\ Govern(s)!Look(w, [at |-> "edges", row |-> [pred |-> m, succ |-> n]])
    BY <1>4 DEF Govern!AddDependency
  <2> PICK j : j = [at |-> "edges", row |-> [pred |-> m, succ |-> n]]
    OBVIOUS
  <2>2. j.at = "edges" /\ j.row = [pred |-> m, succ |-> n] /\ Govern(s)!Look(w, j)
    BY <2>1
  <2>3. m \in Nat /\ n \in Nat
    BY <1>1
  <2>4. Govern(s)!JobSound(j) /\ Govern(s)!Fresh(j)
    BY <2>1, <2>2, <2>3 DEF Govern!JobSound, Govern!Fresh, Govern!MilestoneDependency
  <2> QED BY <2>2, <2>4, GovReads
<1>5. CASE Govern(s)!ReadEdges(w)
  <2> PICK edge : edge = job[w].row
    OBVIOUS
  <2> DEFINE h == Govern(s)!NewDependency(edge)
  <2>1. job[w].at = "edges" /\ edge \in Govern(s)!MilestoneDependency /\ edge.pred # edge.succ
        /\ {edge.pred, edge.succ} \subseteq DOMAIN db[M]
    BY <1>2, <1>5 DEF Govern!ReadEdges, Govern!At, Govern!JobSound
  <2>2. CASE Govern(s)!GiveUp(w)
    BY <2>2, GovGivesUp
  <2>3. CASE ~Govern(s)!HasPath(edge.succ, edge.pred) /\ Govern(s)!Decide(w, <<h>>)
    <3>1. h.op = "append" /\ h.c = D /\ h.row = edge
      BY DEF Govern!NewDependency, Govern!New
    <3>2. Govern(s)!Decide(w, <<h>>)
      BY <2>3
    <3> HIDE DEF h
    <3>3. Govern(s)!WriteSound(h)
      BY <1>1, <2>1, <3>1 DEF Govern!WriteSound, Govern!WriteTyped, Govern!AppendSound, Govern!RowType
    <3>4. GovBacked(s, h) /\ GovTimely(s, h)
      BY <2>3, <3>1 DEF GovBacked, GovTimely, Govern!Publishing
    <3> QED BY <3>1, <3>2, <3>3, <3>4, GovAsks
  <2> QED BY <1>5, <2>2, <2>3 DEF Govern!ReadEdges
<1>6. CASE Govern(s)!Complete(w)
  <2>1. PICK m \in DOMAIN db[M] :
          Govern(s)!Look(w, [at |-> "predecessors", id |-> m, row |-> db[M][m]])
    BY <1>6 DEF Govern!Complete
  <2> PICK j : j = [at |-> "predecessors", id |-> m, row |-> db[M][m]]
    OBVIOUS
  <2>2. j.at = "predecessors" /\ j.id = m /\ j.row = db[M][m] /\ Govern(s)!Look(w, j)
    BY <2>1
  <2>3. Govern(s)!JobSound(j) /\ Govern(s)!Fresh(j)
    BY <1>1, <2>2 DEF Govern!JobSound, Govern!Fresh
  <2> QED BY <2>2, <2>3, GovReads
<1>7. CASE Govern(s)!ReadPredecessors(w)
  <2> PICK m, row : m = job[w].id /\ row = job[w].row
    OBVIOUS
  <2>1. job[w].at = "predecessors" /\ m \in DOMAIN db[M] /\ row \in Govern(s)!MilestoneNode
    BY <1>2, <1>7 DEF Govern!ReadPredecessors, Govern!At, Govern!JobSound
  <2> PICK j : j = [at |-> "ready", id |-> m, row |-> row, preds |-> Govern(s)!Predecessors(m)]
    OBVIOUS
  <2>2. /\ j.at = "ready" /\ j.id = m /\ j.row = row /\ j.preds = Govern(s)!Predecessors(m)
        /\ Govern(s)!Then(w, j)
    BY <1>7 DEF Govern!ReadPredecessors
  <2>3. Govern(s)!JobSound(j) /\ Govern(s)!Fresh(j)
    BY <2>1, <2>2 DEF Govern!JobSound, Govern!Fresh
  <2> QED BY <2>2, <2>3, GovReads
<1>8. CASE Govern(s)!ReadReadiness(w)
  <2> PICK m, row, preds : m = job[w].id /\ row = job[w].row /\ preds = job[w].preds
    OBVIOUS
  <2> DEFINE h == Govern(s)!PutMilestone(m, [Govern(s)!Bumped(row) EXCEPT !.state = "COMPLETED"])
  <2>1. job[w].at = "ready" /\ m \in DOMAIN db[M] /\ row \in Govern(s)!MilestoneNode
    BY <1>2, <1>8 DEF Govern!ReadReadiness, Govern!At, Govern!JobSound
  <2>2. CASE Govern(s)!GiveUp(w)
    BY <2>2, GovGivesUp
  <2>3. CASE Govern(s)!AllReady(preds) /\ Govern(s)!Decide(w, <<h>>)
    <3>1. h.op = "replace" /\ h.c = M /\ h.id = m /\ h.row \in Govern(s)!MilestoneNode
      <4>1. PICK a, v : row = [state |-> a, version |-> v] /\ v \in Nat
        BY <2>1 DEF Govern!MilestoneNode
      <4>2. [row EXCEPT !.version = @ + 1] = [state |-> a, version |-> v + 1]
        BY <4>1
      <4>3. Govern(s)!Bumped(row) = [state |-> a, version |-> v + 1]
        BY <4>2 DEF Govern!Bumped
      <4>4. [state |-> "COMPLETED", version |-> v + 1] \in Govern(s)!MilestoneNode
        BY <4>1 DEF Govern!MilestoneNode
      <4> QED BY <4>3, <4>4 DEF Govern!PutMilestone, Govern!Put
    <3>2. Govern(s)!Decide(w, <<h>>)
      BY <2>3
    <3> HIDE DEF h
    <3>3. Govern(s)!WriteSound(h) /\ GovBacked(s, h)
      BY <1>1, <2>1, <3>1 DEF Govern!WriteSound, Govern!WriteTyped, Govern!ReplaceSound, Govern!RowType, GovBacked
    <3>4. GovInTurn(s) => preds = Govern(s)!Predecessors(m)
      BY <1>2, <2>1 DEF Govern!Fresh
    <3>5. GovInTurn(s) => GovTimely(s, h)
      BY <2>3, <3>1, <3>4 DEF GovTimely, Govern!Publishing
    <3> QED BY <3>1, <3>2, <3>3, <3>5, GovAsks
  <2> QED BY <1>8, <2>2, <2>3 DEF Govern!ReadReadiness
<1> QED BY <1>3, <1>4, <1>5, <1>6, <1>7, <1>8

LEMMA GovDefines ==
  ASSUME NEW s \in GovernanceScenes, Govern(s)!IInv, NEW w \in Cast[s].workers,
         Govern(s)!CreateVersion(w) \/ Govern(s)!Publish(w) \/ Govern(s)!Evaluate(w)
  PROVE  GovMoves(s, w)
<1> DEFINE M == "governedMilestones"
           D == "dodVersions"
           V == "dodEvaluations"
<1> USE DEF Govern!Ids
<1>1. /\ {M, D, V} \subseteq DOMAIN db /\ Govern(s)!Collections = DOMAIN db
      /\ DOMAIN db[M] = 1..Len(db[M]) /\ DOMAIN db[D] = 1..Len(db[D]) /\ Len(db[D]) \in Nat
      /\ \A x \in DOMAIN db[D] : db[D][x] \in Govern(s)!DefinitionOfDoneVersion
  BY GovTables DEF Govern!IInv, Govern!RowType
<1>2. CASE Govern(s)!CreateVersion(w)
  <2> DEFINE n(m) == Cardinality(Govern(s)!VersionsOf(m))
             row(m) == [status |-> "DRAFT", milestone |-> m, version |-> n(m) + 1]
  <2>1. PICK m \in DOMAIN db[M] : Govern(s)!Ask(w, <<Govern(s)!New(D, row(m))>>)
    BY <1>2, GovCardinality DEF Govern!CreateVersion
  <2>2. n(m) \in Nat
    <3>1. Govern(s)!VersionsOf(m) \in SUBSET (1..Len(db[D])) /\ IsFiniteSet(1..Len(db[D]))
      BY <1>1, FS_Interval DEF Govern!VersionsOf
    <3> QED BY <3>1, FS_Subset, FS_CardinalityType
  <2> HIDE DEF n
  <2>3. m \in Nat /\ n(m) + 1 \in Nat \ {0}
    BY <1>1, <2>2
  <2>4. row(m) \in Govern(s)!DefinitionOfDoneVersion /\ row(m).status = "DRAFT"
    BY <2>3 DEF Govern!DefinitionOfDoneVersion
  <2> DEFINE h == Govern(s)!New(D, row(m))
  <2>5. /\ h.op = "append" /\ h.c = D /\ h.row \in Govern(s)!DefinitionOfDoneVersion
        /\ h.row.status = "DRAFT" /\ Govern(s)!Ask(w, <<h>>)
    BY <2>1, <2>4 DEF Govern!New
  <2> HIDE DEF h
  <2>6. Govern(s)!WriteSound(h) /\ GovBacked(s, h) /\ GovTimely(s, h)
    BY <1>1, <2>5 DEF Govern!WriteSound, Govern!WriteTyped, Govern!AppendSound, Govern!RowType, GovBacked,
       GovTimely, Govern!Publishing
  <2> QED BY <2>5, <2>6, GovAsks
<1>3. CASE Govern(s)!Publish(w)
  <2>1. PICK d \in DOMAIN db[D] :
          Govern(s)!Look(w, [at |-> "published", id |-> d, row |-> db[D][d]])
    BY <1>3 DEF Govern!Publish
  <2> PICK j : j = [at |-> "published", id |-> d, row |-> db[D][d]]
    OBVIOUS
  <2>2. j.at = "published" /\ j.id = d /\ j.row = db[D][d] /\ Govern(s)!Look(w, j)
    BY <2>1
  <2>3. Govern(s)!JobSound(j) /\ Govern(s)!Fresh(j)
    BY <1>1, <2>2 DEF Govern!JobSound, Govern!Fresh
  <2> QED BY <2>2, <2>3, GovReads
<1>4. CASE Govern(s)!Evaluate(w)
  <2> DEFINE row(d, p) == [milestone |-> db[D][d].milestone, definition |-> d, passed |-> p]
             h(d, p) == Govern(s)!NewEvaluation(row(d, p))
  <2>1. PICK d \in DOMAIN db[D], p \in BOOLEAN : Govern(s)!Ask(w, <<h(d, p)>>)
    BY <1>4 DEF Govern!Evaluate
  <2>2. db[D][d].milestone \in Nat /\ d \in Nat
    BY <1>1 DEF Govern!DefinitionOfDoneVersion
  <2>3. row(d, p) \in Govern(s)!DodEvaluation
    BY <2>2 DEF Govern!DodEvaluation
  <2> PICK g : g = h(d, p)
    OBVIOUS
  <2>4. g.op = "append" /\ g.c = V /\ g.row \in Govern(s)!DodEvaluation /\ Govern(s)!Ask(w, <<g>>)
    BY <2>1, <2>3 DEF Govern!NewEvaluation, Govern!New
  <2>5. Govern(s)!WriteSound(g) /\ GovBacked(s, g) /\ GovTimely(s, g)
    BY <1>1, <2>4 DEF Govern!WriteSound, Govern!WriteTyped, Govern!AppendSound, Govern!RowType, GovBacked,
       GovTimely, Govern!Publishing
  <2> QED BY <2>4, <2>5, GovAsks
<1> QED BY <1>2, <1>3, <1>4

(* Who publishes a definition supersedes first all it finds published.     *)
LEMMA GovPublishes ==
  ASSUME NEW s \in GovernanceScenes, Govern(s)!IInv, NEW w \in Cast[s].workers, Govern(s)!ReadPublished(w)
  PROVE  GovMoves(s, w)
<1> DEFINE D == "dodVersions"
<1> USE DEF Govern!Ids
<1>1. /\ D \in DOMAIN db /\ Govern(s)!Collections = DOMAIN db
      /\ DOMAIN db[D] = 1..Len(db[D]) /\ Len(db[D]) \in Nat
      /\ \A x \in DOMAIN db[D] : db[D][x] \in Govern(s)!DefinitionOfDoneVersion
  BY GovTables DEF Govern!IInv, Govern!RowType
<1> PICK x, row : x = job[w].id /\ row = job[w].row
  OBVIOUS
<1> DEFINE m == row.milestone
           S == Govern(s)!PublishedOf(m)
           n == Cardinality(S)
           h == Govern(s)!PutVersion(x, [row EXCEPT !.status = "PUBLISHED"])
<1>2. /\ job[w].at = "published" /\ x \in DOMAIN db[D] /\ row \in Govern(s)!DefinitionOfDoneVersion
      /\ m = db[D][x].milestone
  BY DEF Govern!ReadPublished, Govern!At, Govern!IInv, Govern!JobSound
<1>3. PICK found \in [1..n -> S] : Govern(s)!Decide(w, Govern(s)!Supersede(found) \o <<h>>)
  <2>1. \A T : Govern(s)!Cardinality(T) = Cardinality(T)
    BY GovCardinality
  <2> QED BY <2>1 DEF Govern!ReadPublished, Govern!Listing
<1>4. S \subseteq 1..Len(db[D]) /\ n \in Nat
  <2>1. S \in SUBSET (1..Len(db[D])) /\ IsFiniteSet(1..Len(db[D]))
    BY <1>1, FS_Interval DEF Govern!PublishedOf, Govern!VersionsOf
  <2> QED BY <2>1, FS_Subset, FS_CardinalityType
<1>5. \A y \in S : y \in DOMAIN db[D] /\ db[D][y].milestone = m /\ db[D][y].status = "PUBLISHED"
  BY DEF Govern!PublishedOf, Govern!VersionsOf, Govern!InStatus
<1>6. GovInTurn(s) => \A y, z \in S : y = z
  BY <1>5 DEF GovInTurn, Govern!SerialInv, Govern!PublishedApart, Govern!InStatus
<1> DEFINE f == Govern(s)!Supersede(found)
<1>7. /\ DOMAIN f = 1..n
      /\ \A i \in 1..n : /\ found[i] \in S
                         /\ f[i] = Govern(s)!PutVersion(found[i], [db[D][found[i]] EXCEPT !.status = "SUPERSEDED"])
  BY <1>3 DEF Govern!Supersede
<1>8. PICK T : f \in [1..n -> T]
  <2>1. f \in [1..n -> {f[i] : i \in 1..n}]
    BY <1>7 DEF Govern!Supersede
  <2> QED BY <2>1
<1>9. ASSUME NEW i \in 1..n
      PROVE  /\ f[i].op = "replace" /\ f[i].c = D /\ f[i].id = found[i]
             /\ f[i].row \in Govern(s)!DefinitionOfDoneVersion
             /\ f[i].row.status = "SUPERSEDED" /\ f[i].row.milestone = db[D][found[i]].milestone
  <2> PICK y, r : y = found[i] /\ r = db[D][y]
    OBVIOUS
  <2>1. y \in S /\ r \in Govern(s)!DefinitionOfDoneVersion /\ f[i] = Govern(s)!PutVersion(y, [r EXCEPT !.status = "SUPERSEDED"])
    BY <1>1, <1>5, <1>7
  <2>2. /\ [r EXCEPT !.status = "SUPERSEDED"] \in Govern(s)!DefinitionOfDoneVersion
        /\ [r EXCEPT !.status = "SUPERSEDED"].status = "SUPERSEDED"
        /\ [r EXCEPT !.status = "SUPERSEDED"].milestone = r.milestone
    BY <2>1 DEF Govern!DefinitionOfDoneVersion
  <2>3. f[i] = [op |-> "replace", c |-> D, id |-> y, row |-> [r EXCEPT !.status = "SUPERSEDED"]]
    BY <2>1 DEF Govern!PutVersion, Govern!Put
  <2> HIDE DEF f
  <2>4. /\ f[i].op = "replace" /\ f[i].c = D /\ f[i].id = y
        /\ f[i].row = [r EXCEPT !.status = "SUPERSEDED"]
    BY <2>3
  <2> QED BY <2>2, <2>4
<1>10. /\ h.op = "replace" /\ h.c = D /\ h.id = x /\ h.row \in Govern(s)!DefinitionOfDoneVersion
       /\ h.row.status = "PUBLISHED" /\ h.row.milestone = m
  <2>1. /\ [row EXCEPT !.status = "PUBLISHED"] \in Govern(s)!DefinitionOfDoneVersion
        /\ [row EXCEPT !.status = "PUBLISHED"].status = "PUBLISHED"
        /\ [row EXCEPT !.status = "PUBLISHED"].milestone = m
    BY <1>2 DEF Govern!DefinitionOfDoneVersion
  <2> QED BY <2>1 DEF Govern!PutVersion, Govern!Put
<1> PICK t : t = f \o <<h>>
  OBVIOUS
<1>11. /\ ListedTodo(t) /\ DOMAIN t = 1..(n + 1) /\ Len(t) = n + 1 /\ t[n + 1] = h
       /\ \A i \in 1..n : t[i] = f[i]
  <2> HIDE DEF f, h, n, S
  <2>1. TodoOf(f \o <<h>>, n, f, h)
    BY <1>4, <1>8, TodoAppended
  <2> QED BY <2>1 DEF TodoOf
<1> PICK j : j = [at |-> "write", todo |-> t]
  OBVIOUS
<1>12. j.at = "write" /\ j.todo = t /\ job' = [job EXCEPT ![w] = j] /\ UNCHANGED db
  BY <1>3 DEF Govern!Decide, Govern!Then, Govern!Carry
<1> HIDE DEF f, h, n, S
<1>13. ASSUME NEW i \in DOMAIN t
       PROVE  /\ t[i].op = "replace" /\ t[i].c = D /\ t[i].id \in DOMAIN db[D]
              /\ t[i].row \in Govern(s)!DefinitionOfDoneVersion
              /\ t[i].row.milestone = db[D][t[i].id].milestone
              /\ t[i].row.status = "PUBLISHED" => i = n + 1
  <2>1. CASE i \in 1..n
    <3>1. t[i] = f[i] /\ found[i] \in S
      BY <1>7, <1>11, <2>1
    <3> QED BY <1>5, <1>9, <2>1, <3>1
  <2>2. CASE i = n + 1
    <3>1. t[i] = h
      BY <1>11, <2>2
    <3> QED BY <1>2, <1>10, <2>2, <3>1
  <2> QED BY <1>4, <1>11, <2>1, <2>2
<1>14. \A i \in DOMAIN t : Govern(s)!WriteSound(t[i]) /\ Govern(s)!Waits(t, i)
  <2> SUFFICES ASSUME NEW i \in DOMAIN t
               PROVE  Govern(s)!WriteSound(t[i]) /\ Govern(s)!Waits(t, i)
    OBVIOUS
  <2> PICK g : g = t[i]
    OBVIOUS
  <2>1. /\ g.op = "replace" /\ g.c = D /\ g.id \in DOMAIN db[D]
        /\ g.row \in Govern(s)!DefinitionOfDoneVersion /\ g.row.milestone = db[D][g.id].milestone
    BY <1>13
  <2>2. Govern(s)!WriteTyped(g, Govern(s)!RowType)
    BY <1>1, <2>1 DEF Govern!WriteTyped, Govern!RowType
  <2>3. Govern(s)!ReplaceSound(g)
    BY <2>1 DEF Govern!ReplaceSound
  <2>4. Govern(s)!Waits(t, i)
    BY <2>1 DEF Govern!Waits
  <2> QED BY <2>1, <2>2, <2>3, <2>4 DEF Govern!WriteSound
<1>15. Govern(s)!JobSound(j)
  BY <1>11, <1>12, <1>14 DEF Govern!JobSound, Govern!Listed, ListedTodo
<1>16. GovInTurn(s) => Govern(s)!Fresh(j)
  <2> SUFFICES ASSUME GovInTurn(s), NEW i \in DOMAIN t PROVE Govern(s)!FreshAt(t, i)
    BY <1>12 DEF Govern!Fresh
  <2>1. \A y \in S : \E k \in 1..n : found[k] = y
    BY <1>1, <1>3, <1>4, <1>6, ListedAll DEF n
  <2>2. ASSUME Govern(s)!Publishing(t[i])
        PROVE  /\ i = Len(t)
               /\ \A y \in Govern(s)!PublishedOf(t[i].row.milestone) :
                    \E k \in 1..(i - 1) : Govern(s)!Superseding(t[k], y)
    <3>1. i = n + 1 /\ i - 1 = n
      BY <1>4, <1>13, <2>2 DEF Govern!Publishing
    <3>2. t[i].row.milestone = m /\ Govern(s)!PublishedOf(m) = S
      BY <1>10, <1>11, <3>1 DEF S
    <3>3. ASSUME NEW y \in S PROVE \E k \in 1..n : Govern(s)!Superseding(t[k], y)
      <4>1. PICK k \in 1..n : found[k] = y
        BY <2>1
      <4>2. t[k] = f[k]
        BY <1>11
      <4> QED BY <1>9, <4>1, <4>2 DEF Govern!Superseding
    <3> QED BY <1>11, <3>1, <3>2, <3>3
  <2>3. t[i].c = D
    BY <1>13
  <2> QED BY <2>2, <2>3 DEF Govern!FreshAt
<1>17. \A y : ~Govern(s)!Recording(j, y)
  <2>1. 1 \in DOMAIN t /\ Head(t) = t[1]
    BY <1>11, TodoHead
  <2>2. t[1].c = D
    BY <1>13, <2>1
  <2> QED BY <1>12, <2>1, <2>2 DEF Govern!Recording
<1> QED BY <1>12, <1>15, <1>16, <1>17 DEF GovMoves

LEMMA GovCertifies ==
  ASSUME NEW s \in GovernanceScenes, Govern(s)!IInv, NEW w \in Cast[s].workers,
         \/ Govern(s)!RequestCertification(w) \/ Govern(s)!DecideCertification(w)
         \/ Govern(s)!Issue(w) \/ Govern(s)!ReadIssued(w) \/ Govern(s)!NumberCertificate(w)
  PROVE  GovMoves(s, w)
<1> DEFINE C == "certificationRequests"
           K == "digitalCertifications"
           M == "governedMilestones"
           V == "dodEvaluations"
<1> USE DEF Govern!Ids
<1>1. /\ {C, K, M, V} \subseteq DOMAIN db /\ Govern(s)!Collections = DOMAIN db
      /\ DOMAIN db[C] = 1..Len(db[C]) /\ DOMAIN db[M] = 1..Len(db[M]) /\ DOMAIN db[V] = 1..Len(db[V])
      /\ Len(db[K]) \in Nat
      /\ \A x \in DOMAIN db[C] : db[C][x] \in Govern(s)!CertificationRequest
  BY GovTables DEF Govern!IInv, Govern!RowType
<1>2. Govern(s)!JobSound(job[w])
  BY DEF Govern!IInv
<1>3. CASE Govern(s)!RequestCertification(w)
  <2> DEFINE row(e, m, u, rs) == [status |-> "PENDING", milestone |-> m, evaluation |-> e, by |-> u,
                                  reviewers |-> rs, version |-> 1]
  <2>1. PICK e \in DOMAIN db[V], m \in DOMAIN db[M], u \in Cast[s].people :
          \E rs \in SUBSET (Cast[s].people \ {u}) \ {{}} :
            Govern(s)!Ask(w, <<Govern(s)!New(C, row(e, m, u, rs))>>)
    BY <1>3 DEF Govern!RequestCertification
  <2>2. PICK rs \in SUBSET (Cast[s].people \ {u}) :
          Govern(s)!Ask(w, <<Govern(s)!New(C, row(e, m, u, rs))>>)
    BY <2>1
  <2>3. e \in Nat /\ m \in Nat
    BY <1>1
  <2>4. /\ row(e, m, u, rs) \in Govern(s)!CertificationRequest
        /\ row(e, m, u, rs).status = "PENDING"
        /\ row(e, m, u, rs).by \notin row(e, m, u, rs).reviewers
    BY <2>2, <2>3 DEF Govern!CertificationRequest
  <2> PICK h : h = Govern(s)!New(C, row(e, m, u, rs))
    OBVIOUS
  <2>5. /\ h.op = "append" /\ h.c = C /\ h.row \in Govern(s)!CertificationRequest
        /\ h.row.status = "PENDING" /\ h.row.by \notin h.row.reviewers /\ Govern(s)!Ask(w, <<h>>)
    BY <2>2, <2>4 DEF Govern!New
  <2>6. Govern(s)!WriteSound(h) /\ GovBacked(s, h) /\ GovTimely(s, h)
    BY <1>1, <2>5 DEF Govern!WriteSound, Govern!WriteTyped, Govern!AppendSound, Govern!RowType, GovBacked,
       GovTimely, Govern!Publishing
  <2> QED BY <2>5, <2>6, GovAsks
<1>4. CASE Govern(s)!DecideCertification(w)
  <2>1. PICK r \in DOMAIN db[C], to \in {"APPROVED", "REJECTED"} :
          \E u \in db[C][r].reviewers :
            Govern(s)!Look(w, [at |-> "decisions", id |-> r, row |-> db[C][r],
                               decision |-> [request |-> r, reviewer |-> u, decision |-> to]])
    BY <1>4 DEF Govern!DecideCertification
  <2>2. PICK u \in db[C][r].reviewers :
            Govern(s)!Look(w, [at |-> "decisions", id |-> r, row |-> db[C][r],
                               decision |-> [request |-> r, reviewer |-> u, decision |-> to]])
    BY <2>1
  <2> PICK d : d = [request |-> r, reviewer |-> u, decision |-> to]
    OBVIOUS
  <2> PICK j : j = [at |-> "decisions", id |-> r, row |-> db[C][r], decision |-> d]
    OBVIOUS
  <2>3. /\ j.at = "decisions" /\ j.id = r /\ j.row = db[C][r] /\ j.decision = d /\ Govern(s)!Look(w, j)
    BY <2>2
  <2>4. r \in Nat /\ u \in Cast[s].people
    BY <1>1 DEF Govern!CertificationRequest
  <2>5. d \in Govern(s)!CertificationDecision /\ d.request = r /\ d.reviewer = u
    BY <2>4 DEF Govern!CertificationDecision
  <2>6. Govern(s)!JobSound(j) /\ Govern(s)!Fresh(j)
    BY <1>1, <2>3, <2>5 DEF Govern!JobSound, Govern!Fresh
  <2> QED BY <2>3, <2>6, GovReads
<1>5. CASE Govern(s)!Issue(w)
  <2>1. PICK r \in DOMAIN db[C] :
          /\ db[C][r].status = "APPROVED"
          /\ Govern(s)!Look(w, [at |-> "issued", row |-> [request |-> r, milestone |-> db[C][r].milestone]])
    BY <1>5 DEF Govern!Issue, Govern!InStatus, Govern!Issuable
  <2> PICK row : row = [request |-> r, milestone |-> db[C][r].milestone]
    OBVIOUS
  <2> PICK j : j = [at |-> "issued", row |-> row]
    OBVIOUS
  <2>2. j.at = "issued" /\ j.row = row /\ Govern(s)!Look(w, j)
    BY <2>1
  <2>3. r \in Nat /\ db[C][r].milestone \in Nat
    BY <1>1 DEF Govern!CertificationRequest
  <2>4. row \in [request : Nat, milestone : Nat] /\ row.request = r
    BY <2>3
  <2>5. Govern(s)!ApprovalOf(r)
    BY <2>1 DEF Govern!IInv, Govern!TablesSound, Govern!StatusIsDecided, Govern!ApprovalOf
  <2>6. Govern(s)!JobSound(j) /\ Govern(s)!Fresh(j)
    BY <2>2, <2>4, <2>5 DEF Govern!JobSound, Govern!Fresh
  <2> QED BY <2>2, <2>6, GovReads
<1>6. CASE Govern(s)!ReadIssued(w)
  <2> PICK row : row = job[w].row
    OBVIOUS
  <2> PICK j : j = [at |-> "number", row |-> row]
    OBVIOUS
  <2>1. job[w].at = "issued" /\ row \in [request : Nat, milestone : Nat] /\ Govern(s)!ApprovalOf(row.request)
    BY <1>2, <1>6 DEF Govern!ReadIssued, Govern!At, Govern!JobSound
  <2>2. CASE Govern(s)!GiveUp(w)
    BY <2>2, GovGivesUp
  <2>3. CASE Govern(s)!Then(w, j)
    <3>1. j.at = "number" /\ j.row = row
      OBVIOUS
    <3>2. Govern(s)!JobSound(j) /\ Govern(s)!Fresh(j)
      BY <2>1, <3>1 DEF Govern!JobSound, Govern!Fresh
    <3> QED BY <2>3, <3>1, <3>2, GovReads
  <2> QED BY <1>6, <2>2, <2>3 DEF Govern!ReadIssued
<1>7. CASE Govern(s)!NumberCertificate(w)
  <2> PICK r, m : r = job[w].row.request /\ m = job[w].row.milestone
    OBVIOUS
  <2> DEFINE row == [request |-> r, milestone |-> m, number |-> Len(db[K]) + 1]
  <2>1. r \in Nat /\ m \in Nat /\ Govern(s)!ApprovalOf(r)
    BY <1>2, <1>7 DEF Govern!NumberCertificate, Govern!At, Govern!JobSound
  <2>2. Len(db[K]) + 1 \in Nat \ {0}
    BY <1>1
  <2>3. row \in Govern(s)!DigitalCertificationRecord /\ row.request = r
    BY <2>1, <2>2 DEF Govern!DigitalCertificationRecord
  <2> PICK h : h = Govern(s)!NewCertificate(row)
    OBVIOUS
  <2>4. /\ h.op = "append" /\ h.c = K /\ h.row \in Govern(s)!DigitalCertificationRecord
        /\ h.row.request = r /\ Govern(s)!Decide(w, <<h>>)
    BY <1>7, <2>3 DEF Govern!NumberCertificate, Govern!NewCertificate, Govern!New
  <2>5. Govern(s)!WriteSound(h) /\ GovBacked(s, h) /\ GovTimely(s, h)
    <3>1. Govern(s)!WriteTyped(h, Govern(s)!RowType)
      BY <1>1, <2>4 DEF Govern!WriteTyped, Govern!RowType
    <3>2. Govern(s)!AppendSound(h)
      BY <2>1, <2>4 DEF Govern!AppendSound
    <3>3. GovBacked(s, h) /\ GovTimely(s, h)
      BY <2>4 DEF GovBacked, GovTimely, Govern!Publishing
    <3> QED BY <2>4, <3>1, <3>2, <3>3 DEF Govern!WriteSound
  <2> QED BY <2>4, <2>5, GovAsks
<1> QED BY <1>3, <1>4, <1>5, <1>6, <1>7

(* Who decides writes the decision, and then the status it backs.          *)
LEMMA GovDecides ==
  ASSUME NEW s \in GovernanceScenes, Govern(s)!IInv, NEW w \in Cast[s].workers, Govern(s)!ReadDecisions(w)
  PROVE  GovMoves(s, w)
<1> DEFINE C == "certificationRequests"
           D == "certificationDecisions"
<1> USE DEF Govern!Ids
<1> PICK i : i = job[w]
  OBVIOUS
<1> PICK r, d, row : r = i.id /\ d = i.decision /\ row = i.row
  OBVIOUS
<1>1. {C, D} \subseteq DOMAIN db /\ Govern(s)!Collections = DOMAIN db
  BY GovTables DEF Govern!IInv
<1>2. /\ i.at = "decisions" /\ r \in DOMAIN db[C] /\ row \in Govern(s)!CertificationRequest
      /\ row.by = db[C][r].by /\ row.reviewers = db[C][r].reviewers
      /\ d \in Govern(s)!CertificationDecision /\ d.request = r /\ d.reviewer \in row.reviewers
  BY DEF Govern!IInv, Govern!JobSound, Govern!ReadDecisions, Govern!At
<1>3. row.by \notin row.reviewers
  BY <1>2 DEF Govern!IInv, Govern!TablesSound
<1>4. CASE Govern(s)!GiveUp(w)
  BY <1>4, GovGivesUp
<1>5. CASE Govern(s)!Decide(w, Govern(s)!Verdicts(i))
  <2> PICK h, g : h = Govern(s)!NewDecision(d) /\ g = Govern(s)!Verdict(i)
    OBVIOUS
  <2> PICK j : j = [at |-> "write", todo |-> <<h, g>>]
    OBVIOUS
  <2>1. j.at = "write" /\ j.todo = <<h, g>> /\ job' = [job EXCEPT ![w] = j] /\ UNCHANGED db
    BY <1>5 DEF Govern!Decide, Govern!Then, Govern!Carry, Govern!Verdicts
  <2>2. h.op = "append" /\ h.c = D /\ h.row = d
    BY DEF Govern!NewDecision, Govern!New
  <2>3. /\ g.op = "replace" /\ g.c = C /\ g.id = r /\ g.row \in Govern(s)!CertificationRequest
        /\ g.row.status = d.decision /\ g.row.by = row.by /\ g.row.reviewers = row.reviewers
    <3> PICK b : b = Govern(s)!Bumped(row)
      OBVIOUS
    <3>1. b \in Govern(s)!CertificationRequest /\ b.by = row.by /\ b.reviewers = row.reviewers
      <4>1. row.version + 1 \in Nat \ {0}
        BY <1>2 DEF Govern!CertificationRequest
      <4> QED BY <1>2, <4>1 DEF Govern!Bumped, Govern!CertificationRequest
    <3>2. d.decision \in {"APPROVED", "REJECTED"}
      BY <1>2 DEF Govern!CertificationDecision
    <3>3. /\ [b EXCEPT !.status = d.decision] \in Govern(s)!CertificationRequest
          /\ [b EXCEPT !.status = d.decision].status = d.decision
          /\ [b EXCEPT !.status = d.decision].by = row.by
          /\ [b EXCEPT !.status = d.decision].reviewers = row.reviewers
      BY <3>1, <3>2 DEF Govern!CertificationRequest
    <3>4. g = [op |-> "replace", c |-> C, id |-> r, row |-> [b EXCEPT !.status = d.decision]]
      BY DEF Govern!Verdict, Govern!PutRequest, Govern!Put
    <3> PICK v : v = [b EXCEPT !.status = d.decision]
      OBVIOUS
    <3>5. g = [op |-> "replace", c |-> C, id |-> r, row |-> v]
      BY <3>4
    <3>6. g.op = "replace" /\ g.c = C /\ g.id = r /\ g.row = v
      BY <3>5
    <3> QED BY <3>3, <3>6
  <2>4. Govern(s)!WriteSound(h) /\ Govern(s)!WriteSound(g)
    BY <1>1, <1>2, <2>2, <2>3 DEF Govern!WriteSound, Govern!WriteTyped, Govern!AppendSound, Govern!ReplaceSound,
       Govern!RowType
  <2>5. Govern(s)!Waits(<<h, g>>, 1)
    BY <2>2, TodoOfTwo DEF Govern!Waits
  <2>6. Govern(s)!Waits(<<h, g>>, 2)
    <3>1. Govern(s)!Backing(d, r, g.row)
      BY <1>2, <1>3, <2>3 DEF Govern!Backing
    <3>2. 2 - 1 = 1 /\ <<h, g>>[1] = h /\ <<h, g>>[2] = g /\ 1 \in DOMAIN <<h, g>>
      BY TodoOfTwo
    <3> HIDE DEF C, D
    <3> QED BY <2>2, <2>3, <3>1, <3>2 DEF Govern!Waits, C, D
  <2>7. Govern(s)!JobSound(j)
    BY <2>1, <2>4, <2>5, <2>6, TodoOfTwo DEF Govern!JobSound, Govern!Listed, ListedTodo
  <2>8. Govern(s)!Fresh(j)
    BY <2>1, <2>2, <2>3, TodoOfTwo DEF Govern!Fresh, Govern!FreshAt, Govern!Publishing
  <2>9. \A x : ~Govern(s)!Recording(j, x)
    BY <2>1, <2>2, TodoOfTwo DEF Govern!Recording
  <2> QED BY <2>1, <2>7, <2>8, <2>9 DEF GovMoves
<1> QED BY <1>4, <1>5 DEF Govern!ReadDecisions

LEMMA GovPays ==
  ASSUME NEW s \in GovernanceScenes, Govern(s)!IInv, NEW w \in Cast[s].workers,
         \/ Govern(s)!DefineTrigger(w) \/ Govern(s)!Propose(w) \/ Govern(s)!ReadEvaluation(w)
         \/ Govern(s)!ReadCertificate(w) \/ Govern(s)!ReadKey(w) \/ Govern(s)!Release(w)
  PROVE  GovMoves(s, w)
<1> DEFINE M == "governedMilestones"
           D == "dodVersions"
           K == "digitalCertifications"
           T == "paymentTriggerDefinitions"
           P == "paymentAuthorizationProposals"
           R == "releaseIntents"
<1> USE DEF Govern!Ids
<1>1. /\ {M, D, K, T, P, R} \subseteq DOMAIN db /\ Govern(s)!Collections = DOMAIN db
      /\ DOMAIN db[M] = 1..Len(db[M]) /\ DOMAIN db[D] = 1..Len(db[D]) /\ DOMAIN db[K] = 1..Len(db[K])
      /\ DOMAIN db[T] = 1..Len(db[T]) /\ DOMAIN db[P] = 1..Len(db[P])
  BY GovTables DEF Govern!IInv
<1>2. Govern(s)!JobSound(job[w])
  BY DEF Govern!IInv
<1>3. CASE Govern(s)!DefineTrigger(w)
  <2> DEFINE row(m, d, c) == [milestone |-> m, definition |-> d, certified |-> c]
  <2>1. PICK m \in DOMAIN db[M], d \in DOMAIN db[D], c \in BOOLEAN :
          Govern(s)!Ask(w, <<Govern(s)!NewTrigger(row(m, d, c))>>)
    BY <1>3 DEF Govern!DefineTrigger
  <2>2. m \in Nat /\ d \in Nat
    BY <1>1
  <2>3. row(m, d, c) \in Govern(s)!PaymentTriggerDefinition
    BY <2>2 DEF Govern!PaymentTriggerDefinition
  <2> PICK h : h = Govern(s)!NewTrigger(row(m, d, c))
    OBVIOUS
  <2>4. h.op = "append" /\ h.c = T /\ h.row \in Govern(s)!PaymentTriggerDefinition /\ Govern(s)!Ask(w, <<h>>)
    BY <2>1, <2>3 DEF Govern!NewTrigger, Govern!New
  <2>5. Govern(s)!WriteSound(h) /\ GovBacked(s, h) /\ GovTimely(s, h)
    BY <1>1, <2>4 DEF Govern!WriteSound, Govern!WriteTyped, Govern!AppendSound, Govern!RowType, GovBacked,
       GovTimely, Govern!Publishing
  <2> QED BY <2>4, <2>5, GovAsks
<1>4. CASE Govern(s)!Propose(w)
  <2>1. PICK t \in DOMAIN db[T], k \in Cast[s].keys :
          Govern(s)!Look(w, [at |-> "evaluation", trigger |-> t, key |-> k])
    BY <1>4 DEF Govern!Propose
  <2> PICK j : j = [at |-> "evaluation", trigger |-> t, key |-> k]
    OBVIOUS
  <2>2. j.at = "evaluation" /\ j.trigger = t /\ j.key = k /\ Govern(s)!Look(w, j)
    BY <2>1
  <2>3. Govern(s)!JobSound(j) /\ Govern(s)!Fresh(j)
    BY <2>2 DEF Govern!JobSound, Govern!Fresh
  <2> QED BY <2>2, <2>3, GovReads
<1>5. CASE Govern(s)!ReadEvaluation(w)
  <2> PICK t, k : t = job[w].trigger /\ k = job[w].key
    OBVIOUS
  <2> PICK j : j = [at |-> "certificate", trigger |-> t, key |-> k, passed |-> Govern(s)!Passed(t)]
    OBVIOUS
  <2>1. t \in DOMAIN db[T] /\ k \in Cast[s].keys
    BY <1>2, <1>5 DEF Govern!ReadEvaluation, Govern!At, Govern!JobSound
  <2>2. j.at = "certificate" /\ j.trigger = t /\ j.key = k /\ j.passed = Govern(s)!Passed(t)
    OBVIOUS
  <2>3. Govern(s)!Then(w, j)
    BY <1>5 DEF Govern!ReadEvaluation
  <2>4. j.passed \in BOOLEAN /\ (j.passed => Govern(s)!Passed(t))
    BY <2>2 DEF Govern!Passed
  <2>5. Govern(s)!JobSound(j) /\ Govern(s)!Fresh(j)
    BY <2>1, <2>2, <2>4 DEF Govern!JobSound, Govern!Fresh
  <2> QED BY <2>2, <2>3, <2>5, GovReads
<1>6. CASE Govern(s)!ReadCertificate(w)
  <2> PICK t, k, p : t = job[w].trigger /\ k = job[w].key /\ p = job[w].passed
    OBVIOUS
  <2>1. PICK x \in Govern(s)!CertificateFor(t) :
          Govern(s)!Then(w, [at |-> "key", trigger |-> t, key |-> k, passed |-> p, certificate |-> x])
    BY <1>6 DEF Govern!ReadCertificate
  <2> PICK j : j = [at |-> "key", trigger |-> t, key |-> k, passed |-> p, certificate |-> x]
    OBVIOUS
  <2>2. /\ t \in DOMAIN db[T] /\ k \in Cast[s].keys /\ p \in BOOLEAN /\ (p => Govern(s)!Passed(t))
    BY <1>2, <1>6 DEF Govern!ReadCertificate, Govern!At, Govern!JobSound
  <2>3. /\ j.at = "key" /\ j.trigger = t /\ j.key = k /\ j.passed = p /\ j.certificate = x
        /\ Govern(s)!Then(w, j)
    BY <2>1
  <2>4. x \in Nat /\ (x # 0 => Govern(s)!CertificatesFor(t) # {})
    BY <1>1, <2>1 DEF Govern!CertificateFor, Govern!CertificatesFor
  <2>5. Govern(s)!JobSound(j) /\ Govern(s)!Fresh(j)
    BY <2>2, <2>3, <2>4 DEF Govern!JobSound, Govern!Fresh
  <2> QED BY <2>3, <2>5, GovReads
<1>7. CASE Govern(s)!ReadKey(w)
  <2> PICK i : i = job[w]
    OBVIOUS
  <2> PICK t, x : t = i.trigger /\ x = i.certificate
    OBVIOUS
  <2> DEFINE row == [status |-> IF Govern(s)!Eligible(i) THEN "PROPOSED" ELSE "BLOCKED",
                     trigger |-> t, certificate |-> x, key |-> i.key]
  <2>1. /\ t \in DOMAIN db[T] /\ i.key \in Cast[s].keys /\ i.passed \in BOOLEAN
        /\ (i.passed => Govern(s)!Passed(t)) /\ x \in Nat
        /\ (x # 0 => Govern(s)!CertificatesFor(t) # {})
    BY <1>2, <1>7 DEF Govern!ReadKey, Govern!At, Govern!JobSound
  <2>2. CASE Govern(s)!GiveUp(w)
    BY <2>2, GovGivesUp
  <2>3. CASE Govern(s)!Decide(w, <<Govern(s)!NewProposal(row)>>)
    <3>1. t \in Nat
      BY <1>1, <2>1
    <3>2. row \in Govern(s)!PaymentAuthorizationProposal
      BY <2>1, <3>1 DEF Govern!PaymentAuthorizationProposal
    <3>3. row.trigger = t /\ (row.status = "PROPOSED" => Govern(s)!ReleaseDue(t))
      BY <2>1 DEF Govern!ReleaseDue, Govern!Eligible
    <3> HIDE DEF row
    <3> PICK h : h = Govern(s)!NewProposal(row)
      OBVIOUS
    <3>4. h.op = "append" /\ h.c = P /\ h.row = row /\ Govern(s)!Decide(w, <<h>>)
      BY <2>3 DEF Govern!NewProposal, Govern!New
    <3>5. Govern(s)!WriteSound(h) /\ GovBacked(s, h) /\ GovTimely(s, h)
      BY <1>1, <2>1, <3>2, <3>3, <3>4 DEF Govern!WriteSound, Govern!WriteTyped, Govern!AppendSound, Govern!RowType,
         GovBacked, GovTimely, Govern!Publishing
    <3> QED BY <3>4, <3>5, GovAsks
  <2> QED BY <1>7, <2>2, <2>3 DEF Govern!ReadKey
<1>8. CASE Govern(s)!Release(w)
  <2>1. PICK p \in DOMAIN db[P] :
          /\ Govern(s)!InStatus(P, p, {"PROPOSED"})
          /\ Govern(s)!Ask(w, <<Govern(s)!AskProvider([proposal |-> p])>>)
    BY <1>8 DEF Govern!Release
  <2>2. p \in Nat
    BY <1>1
  <2> PICK h : h = Govern(s)!AskProvider([proposal |-> p])
    OBVIOUS
  <2>3. /\ h.op = "append" /\ h.c = R /\ h.row.proposal = p /\ h.row \in [proposal : Nat]
        /\ Govern(s)!Ask(w, <<h>>)
    BY <2>1, <2>2 DEF Govern!AskProvider, Govern!New
  <2>4. Govern(s)!RowType[R] = [proposal : Nat]
    BY DEF Govern!RowType
  <2>5. Govern(s)!WriteTyped(h, Govern(s)!RowType)
    BY <1>1, <2>3, <2>4 DEF Govern!WriteTyped
  <2>6. Govern(s)!AppendSound(h)
    BY <2>1, <2>3 DEF Govern!AppendSound
  <2>7. GovBacked(s, h) /\ GovTimely(s, h)
    BY <2>3 DEF GovBacked, GovTimely, Govern!Publishing
  <2>8. Govern(s)!WriteSound(h)
    BY <2>3, <2>5, <2>6 DEF Govern!WriteSound
  <2> QED BY <2>3, <2>7, <2>8, GovAsks
<1> QED BY <1>3, <1>4, <1>5, <1>6, <1>7, <1>8

(* What others, or the same request before, still publish.                 *)
LEMMA GovPublished ==
  ASSUME NEW s \in GovernanceScenes, Govern(s)!IInv, NEW h, Govern(s)!WriteSound(h), ~Govern(s)!Publishing(h),
         db' = Govern(s)!Written(h), NEW m, NEW x, x \in Govern(s)!PublishedOf(m)'
  PROVE  x \in Govern(s)!PublishedOf(m) /\ ~Govern(s)!Superseding(h, x)
<1> DEFINE D == "dodVersions"
<1> USE DEF Govern!Ids, Govern!InStatus
<1>1. D \in DOMAIN db
  BY GovTables DEF Govern!IInv
<1>2. Govern(s)!WriteTyped(h, Govern(s)!RowType)
  BY DEF Govern!WriteSound
<1>3. Lands(db, db', h) /\ Keeps(db, db', h) /\ Adds(db, db', h)
  BY <1>2, GovLands DEF Govern!IInv
<1>4. x \in DOMAIN db'[D] /\ db'[D][x].milestone = m /\ db'[D][x].status = "PUBLISHED"
  BY DEF Govern!PublishedOf, Govern!VersionsOf
<1>5. x \in DOMAIN db[D]
  BY <1>1, <1>3, <1>4 DEF Adds, Govern!WriteSound, Govern!AppendSound
<1>6. db'[D][x] = db[D][x]
  BY <1>1, <1>3, <1>4, <1>5 DEF Keeps, Govern!Publishing
<1>7. ~Govern(s)!Superseding(h, x)
  <2> SUFFICES ASSUME Govern(s)!Superseding(h, x) PROVE FALSE
    OBVIOUS
  <2>1. h.op = "replace" /\ h.c = D /\ h.id = x /\ h.row.status = "SUPERSEDED"
    BY DEF Govern!Superseding
  <2>2. db'[D][x] = h.row
    BY <1>3, <2>1 DEF Lands, Place
  <2> QED BY <1>4, <2>1, <2>2
<1> QED BY <1>4, <1>5, <1>6, <1>7 DEF Govern!PublishedOf, Govern!VersionsOf

LEMMA GovCommits ==
  ASSUME NEW s \in GovernanceScenes, Govern(s)!IInv, NEW w \in Cast[s].workers,
         Govern(s)!Commit(w, Govern(s)!Admits(Govern(s)!Due(w)))
  PROVE  GovMoves(s, w) \/ GovWrites(s, w)
<1> PICK t : t = job[w].todo
  OBVIOUS
<1> PICK u, h : u = Tail(t) /\ h = Head(t)
  OBVIOUS
<1> PICK j : j = IF u = <<>> THEN Govern(s)!Idle ELSE [at |-> "write", todo |-> u]
  OBVIOUS
<1>1. CASE Govern(s)!GiveUp(w)
  BY <1>1, GovGivesUp
<1>2. CASE /\ Govern(s)!Admits(h) /\ db' = Govern(s)!Written(h)
           /\ IF u = <<>> THEN Govern(s)!Return(w) ELSE Govern(s)!Carry(w, [at |-> "write", todo |-> u])
  <2>1. job[w].at = "write" /\ job' = [job EXCEPT ![w] = j]
    BY <1>2 DEF Govern!Commit, Govern!At, Govern!Return, Govern!Carry
  <2>2. ListedTodo(t) /\ \A n \in DOMAIN t : Govern(s)!WriteSound(t[n]) /\ Govern(s)!Waits(t, n)
    <3>1. Govern(s)!JobSound(job[w])
      BY DEF Govern!IInv
    <3> QED BY <2>1, <3>1 DEF Govern!JobSound, Govern!Listed, ListedTodo
  <2>3. /\ DOMAIN t = 1..Len(t) /\ Len(t) \in Nat /\ 1 \in DOMAIN t /\ h = t[1]
        /\ 1 - 1 \notin DOMAIN t
    BY <2>2, TodoHead
  <2>4. Govern(s)!WriteSound(h) /\ GovBacked(s, h)
    BY <2>2, <2>3 DEF Govern!Waits, GovBacked
  <2>5. Govern(s)!WriteTyped(h, Govern(s)!RowType) /\ Govern(s)!TablesTyped(Govern(s)!RowType)
    BY <2>4 DEF Govern!WriteSound, Govern!IInv
  <2>6. h.c # "governedExecutions"
    BY <2>4, <2>5 DEF Govern!WriteSound, Govern!WriteTyped, Govern!AppendSound, Govern!ReplaceSound
  <2>7. h.c = "executionHistory" => Govern(s)!Recording(job[w], h.row.execution)
    BY <2>1 DEF Govern!Recording
  <2>8. GovInTurn(s) => \A n \in DOMAIN t : Govern(s)!FreshAt(t, n)
    BY <2>1 DEF GovInTurn, Govern!SerialInv, Govern!Fresh
  <2>9. GovInTurn(s) => GovTimely(s, h) /\ (Govern(s)!Publishing(h) => Len(t) = 1)
    <3> SUFFICES ASSUME GovInTurn(s) PROVE GovTimely(s, h) /\ (Govern(s)!Publishing(h) => Len(t) = 1)
      OBVIOUS
    <3>1. Govern(s)!FreshAt(t, 1)
      BY <2>3, <2>8
    <3>2. 1..(1 - 1) = {}
      OBVIOUS
    <3>3. Govern(s)!Publishing(h) => Govern(s)!PublishedOf(h.row.milestone) = {} /\ Len(t) = 1
      BY <2>3, <3>1, <3>2 DEF Govern!FreshAt
    <3> QED BY <2>3, <3>1, <3>3 DEF Govern!FreshAt, GovTimely
  <2>10. CASE u = <<>>
    <3>1. j.at = "idle"
      BY <2>10 DEF Govern!Idle
    <3>2. Govern(s)!JobSound(j)' /\ Govern(s)!Fresh(j)' /\ \A x : ~Govern(s)!Recording(j, x)
      BY <3>1 DEF Govern!JobSound, Govern!Fresh, Govern!Recording
    <3>3. GovCounting(s, w, h, j)
      BY <2>6, <2>7, <3>2 DEF GovCounting
    <3> QED BY <1>2, <2>1, <2>4, <2>9, <3>2, <3>3 DEF GovWrites
  <2>11. CASE u # <<>>
    <3>1. j.at = "write" /\ j.todo = u
      BY <2>11
    <3>2. /\ ListedTodo(u) /\ Len(u) = Len(t) - 1
          /\ \A n \in DOMAIN u : n \in Nat \ {0} /\ n + 1 \in DOMAIN t /\ u[n] = t[n + 1]
      BY <2>2, <2>11, TodoTail
    <3>3. DOMAIN u = 1..Len(u) /\ Len(u) \in Nat \ {0} /\ 1 \in DOMAIN u /\ Head(u) = u[1]
      BY <3>2, TodoHead
    <3>4. /\ \A g : Govern(s)!WriteSound(g) => Govern(s)!WriteSound(g)'
          /\ \A r, row : Govern(s)!Backed(r, row) => Govern(s)!Backed(r, row)'
      BY <1>2, <2>4, <2>5, GovGrowing, GovSteady
    <3>5. ASSUME NEW n \in DOMAIN u PROVE Govern(s)!WriteSound(u[n])' /\ Govern(s)!Waits(u, n)'
      <4>1. n \in Nat \ {0} /\ n + 1 \in DOMAIN t /\ u[n] = t[n + 1] /\ n + 1 - 1 = n /\ n + 1 # 1
        BY <3>2
      <4>2. Govern(s)!WriteSound(u[n]) /\ Govern(s)!Waits(t, n + 1)
        BY <2>2, <4>1
      <4> PICK e : e = u[n]
        OBVIOUS
      <4>3. e.c # "executionHistory"
        BY <4>1, <4>2 DEF Govern!Waits
      <4>4. ASSUME e.c = "certificationRequests", e.op = "replace"
            PROVE  \/ Govern(s)!Backed(e.id, e.row)'
                   \/ /\ n - 1 \in DOMAIN u
                      /\ u[n - 1].op = "append" /\ u[n - 1].c = "certificationDecisions"
                      /\ Govern(s)!Backing(u[n - 1].row, e.id, e.row)
        <5>1. \/ Govern(s)!Backed(e.id, e.row)
              \/ /\ t[n].op = "append" /\ t[n].c = "certificationDecisions"
                 /\ Govern(s)!Backing(t[n].row, e.id, e.row)
          <6> PICK k : k = n + 1
            OBVIOUS
          <6>1. Govern(s)!Waits(t, k) /\ t[k] = e /\ k - 1 = n
            BY <4>1, <4>2
          <6> QED BY <4>4, <6>1 DEF Govern!Waits
        <5>2. CASE Govern(s)!Backed(e.id, e.row)
          BY <3>4, <5>2
        <5>3. CASE /\ t[n].op = "append" /\ t[n].c = "certificationDecisions"
                   /\ Govern(s)!Backing(t[n].row, e.id, e.row)
          <6>1. CASE n = 1
            <7>1. Lands(db, db', h)
              BY <1>2, <2>5, GovLands
            <7> DEFINE k == Place(db, h)
            <7>2. h = t[n]
              BY <2>3, <6>1
            <7>3. k \in DOMAIN db'["certificationDecisions"] /\ db'["certificationDecisions"][k] = h.row
              BY <5>3, <7>1, <7>2 DEF Lands
            <7> PICK d, i, row : d = h.row /\ i = e.id /\ row = e.row
              OBVIOUS
            <7>4. Govern(s)!Backing(d, i, row)
              BY <5>3, <7>2
            <7>5. Govern(s)!Backed(i, row)'
              BY <7>3, <7>4 DEF Govern!Backed, Govern!Backing, Govern!Ids
            <7> QED BY <7>5
          <6>2. CASE n # 1
            <7>1. n - 1 \in DOMAIN u /\ n - 1 + 1 = n
              BY <3>3, <4>1, <6>2
            <7>2. u[n - 1] = t[n]
              BY <3>2, <7>1
            <7> QED BY <5>3, <7>1, <7>2
          <6> QED BY <6>1, <6>2
        <5> QED BY <5>1, <5>2, <5>3
      <4>5. Govern(s)!Waits(u, n)'
        BY <4>3, <4>4 DEF Govern!Waits, Govern!Backing
      <4> QED BY <3>4, <4>2, <4>5
    <3>6. Govern(s)!JobSound(j)'
      <4>1. Govern(s)!Listed(u)
        BY <3>2 DEF Govern!Listed, ListedTodo
      <4> QED BY <3>1, <3>5, <4>1 DEF Govern!JobSound, Govern!Listed
    <3>7. \A x : ~Govern(s)!Recording(j, x)
      <4>1. 1 + 1 \in DOMAIN t /\ u[1] = t[1 + 1]
        BY <3>2, <3>3
      <4>2. Govern(s)!Waits(t, 1 + 1)
        BY <2>2, <4>1
      <4>3. u[1].c # "executionHistory"
        BY <4>1, <4>2 DEF Govern!Waits
      <4> QED BY <3>1, <3>3, <4>3 DEF Govern!Recording
    <3>8. GovInTurn(s) => Govern(s)!Fresh(j)'
      <4> SUFFICES ASSUME GovInTurn(s), NEW n \in DOMAIN u PROVE Govern(s)!FreshAt(u, n)'
        BY <3>1 DEF Govern!Fresh
      <4>1. n \in Nat \ {0} /\ n + 1 \in DOMAIN t /\ u[n] = t[n + 1] /\ n + 1 - 1 = n /\ n + 1 # 1
        BY <3>2
      <4>2. Govern(s)!FreshAt(t, n + 1)
        BY <2>8, <4>1
      <4>3. ~Govern(s)!Publishing(h)
        <5>1. Len(t) # 1
          BY <3>2, <3>3
        <5> QED BY <2>9, <5>1
      <4> PICK m : m = u[n].row.milestone
        OBVIOUS
      <4>4. ASSUME Govern(s)!Publishing(u[n])
            PROVE  /\ n = Len(u)
                   /\ \A x \in Govern(s)!PublishedOf(m)' : \E k \in 1..(n - 1) : Govern(s)!Superseding(u[k], x)
        <5>1. /\ n + 1 = Len(t)
              /\ \A x \in Govern(s)!PublishedOf(m) : \E k \in 1..n : Govern(s)!Superseding(t[k], x)
          <6> PICK i, e : i = n + 1 /\ e = u[n]
            OBVIOUS
          <6>1. Govern(s)!FreshAt(t, i) /\ t[i] = e /\ i - 1 = n /\ e.row.milestone = m
            BY <4>1, <4>2
          <6> QED BY <4>4, <6>1 DEF Govern!FreshAt
        <5>2. n = Len(u)
          BY <3>2, <4>1, <5>1
        <5>3. ASSUME NEW x \in Govern(s)!PublishedOf(m)'
              PROVE  \E k \in 1..(n - 1) : Govern(s)!Superseding(u[k], x)
          <6>1. x \in Govern(s)!PublishedOf(m) /\ ~Govern(s)!Superseding(h, x)
            BY <1>2, <2>4, <4>3, <5>3, GovPublished
          <6>2. PICK k \in 1..n : Govern(s)!Superseding(t[k], x)
            BY <5>1, <6>1
          <6>3. k # 1
            BY <2>3, <6>1, <6>2
          <6>4. k - 1 \in 1..(n - 1) /\ k - 1 \in DOMAIN u /\ k - 1 + 1 = k
            BY <3>3, <4>1, <5>2, <6>2, <6>3
          <6>5. u[k - 1] = t[k]
            BY <3>2, <6>4
          <6> QED BY <6>2, <6>4, <6>5
        <5> QED BY <5>2, <5>3
      <4>5. /\ u[n].c # "milestoneDependencies"
            /\ ~(u[n].c = "governedMilestones" /\ u[n].op = "replace")
        BY <4>1, <4>2 DEF Govern!FreshAt
      <4> QED BY <4>4, <4>5 DEF Govern!FreshAt, Govern!Publishing, Govern!Superseding
    <3>9. GovCounting(s, w, h, j)
      BY <2>6, <2>7, <3>7 DEF GovCounting
    <3> QED BY <1>2, <2>1, <2>4, <2>9, <3>6, <3>8, <3>9 DEF GovWrites
  <2> QED BY <2>10, <2>11
<1> QED BY <1>1, <1>2 DEF Govern!Commit, Govern!Due

LEMMA GovSteps ==
  ASSUME NEW s \in GovernanceScenes, Govern(s)!IInv, [Govern(s)!Next]_<<db, job>>
  PROVE  \E w \in Cast[s].workers : GovMoves(s, w) \/ GovWrites(s, w)
<1>1. CASE \E w \in Cast[s].workers : Govern(s)!Handle(w)
  <2>1. PICK w \in Cast[s].workers : Govern(s)!Handle(w)
    BY <1>1
  <2>2. \/ Govern(s)!CreateExecution(w) \/ Govern(s)!Move(w)
        \/ Govern(s)!Transition(w) \/ Govern(s)!Record(w)
        \/ Govern(s)!CreateMilestone(w) \/ Govern(s)!AddDependency(w) \/ Govern(s)!ReadEdges(w)
        \/ Govern(s)!Complete(w) \/ Govern(s)!ReadPredecessors(w) \/ Govern(s)!ReadReadiness(w)
        \/ Govern(s)!CreateVersion(w) \/ Govern(s)!Publish(w) \/ Govern(s)!Evaluate(w)
        \/ Govern(s)!ReadPublished(w) \/ Govern(s)!ReadDecisions(w)
        \/ Govern(s)!RequestCertification(w) \/ Govern(s)!DecideCertification(w)
        \/ Govern(s)!Issue(w) \/ Govern(s)!ReadIssued(w) \/ Govern(s)!NumberCertificate(w)
        \/ Govern(s)!DefineTrigger(w) \/ Govern(s)!Propose(w) \/ Govern(s)!ReadEvaluation(w)
        \/ Govern(s)!ReadCertificate(w) \/ Govern(s)!ReadKey(w) \/ Govern(s)!Release(w)
    BY <2>1 DEF Govern!Handle
  <2> QED BY <2>2, GovCreates, GovMove, GovExecutes, GovOrders, GovDefines, GovPublishes, GovCertifies,
             GovDecides, GovPays
<1>2. CASE \E w \in Cast[s].workers : Govern(s)!Commit(w, Govern(s)!Admits(Govern(s)!Due(w)))
  BY <1>2, GovCommits
<1>3. CASE \E w \in Cast[s].mortals : Govern(s)!Die(w)
  <2>1. PICK w \in Cast[s].mortals : Govern(s)!Die(w)
    BY <1>3
  <2>2. w \in Cast[s].workers /\ Govern(s)!GiveUp(w)
    BY <2>1, DeliveryAssumption DEF Govern!GovernanceAssumption, Govern!Die, Govern!Crash, Govern!GiveUp
  <2> QED BY <2>2, GovGivesUp
<1>4. CASE UNCHANGED <<db, job>>
  <2>1. PICK w \in Cast[s].workers : TRUE
    BY DeliveryAssumption DEF Govern!GovernanceAssumption
  <2>2. job' = [job EXCEPT ![w] = job[w]] /\ Govern(s)!JobSound(job[w])
    BY <1>4, CarryStays DEF Govern!IInv
  <2>3. GovMoves(s, w)
    BY <1>4, <2>2 DEF GovMoves, GovInTurn, Govern!SerialInv
  <2> QED BY <2>3
<1> QED BY <1>1, <1>2, <1>3, <1>4 DEF Govern!Next, Govern!Proceed

LEMMA GovInit ==
  ASSUME NEW s \in GovernanceScenes, Govern(s)!Empty
  PROVE  Govern(s)!IInv /\ Govern(s)!SerialInv
<1>1. /\ db = [c \in Govern(s)!Collections |-> <<>>]
      /\ job = [w \in Cast[s].workers |-> Govern(s)!Idle]
      /\ Govern(s)!Collections = DOMAIN Govern(s)!RowType
  BY DeliveryAssumption DEF Govern!Empty, Govern!GovernanceAssumption
<1>2. /\ DOMAIN db = Govern(s)!Collections /\ \A c \in Govern(s)!Collections : db[c] = <<>>
      /\ \A c \in {"governedExecutions", "executionHistory", "governedMilestones",
                   "milestoneDependencies", "dodVersions", "dodEvaluations",
                   "certificationRequests", "certificationDecisions", "digitalCertifications",
                   "paymentTriggerDefinitions", "paymentAuthorizationProposals", "releaseIntents"} :
           db[c] = <<>>
  BY <1>1 DEF Govern!RowType
<1>3. Govern(s)!TablesTyped(Govern(s)!RowType)
  <2>1. \A T : <<>> \in Seq(T)
    OBVIOUS
  <2> QED BY <1>2, <2>1 DEF Govern!TablesTyped
<1>4. Govern(s)!TablesSound /\ Govern(s)!HistoryCounted /\ Govern(s)!PublishedApart /\ Govern(s)!OrderIsAcyclic
  <2>1. \A c \in {"governedExecutions", "executionHistory", "governedMilestones",
                  "milestoneDependencies", "dodVersions", "dodEvaluations",
                  "certificationRequests", "certificationDecisions", "digitalCertifications",
                  "paymentTriggerDefinitions", "paymentAuthorizationProposals", "releaseIntents"} :
          Govern(s)!Ids(c) = {}
    BY <1>2 DEF Govern!Ids
  <2>2. Govern(s)!HistoryCounted /\ Govern(s)!PublishedApart /\ Govern(s)!OrderIsAcyclic
    BY <2>1 DEF Govern!HistoryCounted, Govern!PublishedApart, Govern!OrderIsAcyclic
  <2>3. Govern(s)!StatusIsDecided /\ Govern(s)!CertifiedOnApproval
    BY <2>1 DEF Govern!StatusIsDecided, Govern!CertifiedOnApproval
  <2>4. Govern(s)!ReleasedWhenDue /\ Govern(s)!ProposedOnce
    BY <2>1 DEF Govern!ReleasedWhenDue, Govern!ProposedOnce
  <2> QED BY <2>1, <2>2, <2>3, <2>4 DEF Govern!TablesSound
<1>5. ASSUME NEW w \in Cast[s].workers PROVE Govern(s)!JobSound(job[w]) /\ Govern(s)!Fresh(job[w])
  <2>1. job[w].at = "idle"
    BY <1>1 DEF Govern!Idle
  <2> QED BY <2>1 DEF Govern!JobSound, Govern!Fresh
<1>6. job = [w \in Cast[s].workers |-> job[w]]
  BY <1>1
<1> QED BY <1>3, <1>4, <1>5, <1>6 DEF Govern!IInv, Govern!SerialInv

(* What is counted does not grow when nothing is written.                  *)
LEMMA GovUncounted ==
  ASSUME NEW s \in GovernanceScenes, Govern(s)!IInv, NEW w \in Cast[s].workers, NEW j,
         job' = [job EXCEPT ![w] = j], UNCHANGED db,
         \A x : Govern(s)!Recording(j, x) => Govern(s)!Recording(job[w], x)
  PROVE  Govern(s)!HistoryCounted'
<1> USE DEF Govern!Ids
<1>1. ASSUME NEW x \in DOMAIN db["governedExecutions"]
      PROVE  Cardinality(Govern(s)!HistoryOf(x)) + Cardinality(Govern(s)!Recorders(x)')
               <= db["governedExecutions"][x].version
  <2> DEFINE A == Govern(s)!HistoryOf(x)
             B == Govern(s)!Recorders(x)
             B2 == Govern(s)!Recorders(x)'
             v == db["governedExecutions"][x].version
  <2>1. Cardinality(A) + Cardinality(B) <= v
    BY GovCardinality DEF Govern!IInv, Govern!HistoryCounted
  <2>2. /\ job' = [u \in Cast[s].workers |-> job'[u]] /\ job'[w] = j
        /\ \A u \in Cast[s].workers \ {w} : job'[u] = job[u]
    BY CarryMoves DEF Govern!IInv
  <2>3. B = {u \in Cast[s].workers : Govern(s)!Recording(job[u], x)}
    BY DEF Govern!Recorders
  <2>4. B2 = {u \in Cast[s].workers : Govern(s)!Recording(job'[u], x)}
    BY DEF Govern!Recorders, Govern!Recording
  <2>5. B2 \in SUBSET B
    BY <2>2, <2>3, <2>4
  <2>6. A \in SUBSET (1..Len(db["executionHistory"])) /\ Len(db["executionHistory"]) \in Nat
        /\ B \in SUBSET Cast[s].workers
    BY <2>3, GovTables DEF Govern!IInv, Govern!HistoryOf
  <2>7. IsFiniteSet(A) /\ IsFiniteSet(B)
    <3> PICK n : n = Len(db["executionHistory"])
      OBVIOUS
    <3>1. n \in Nat /\ A \in SUBSET (1..n)
      BY <2>6
    <3>2. IsFiniteSet(1..n) /\ IsFiniteSet(Cast[s].workers)
      BY <3>1, FS_Interval, GovFinite
    <3> QED BY <2>6, <3>1, <3>2, FS_Subset
  <2>8. v \in Nat
    BY GovTables DEF Govern!IInv, Govern!RowType, Govern!Execution
  <2> HIDE DEF A, B, B2, v
  <2>9. A \subseteq A /\ B2 \subseteq B /\ v <= v
    BY <2>5, <2>8
  <2>10. Cardinality(A) + Cardinality(B2) <= v
    BY <2>1, <2>7, <2>8, <2>9, CountBounded
  <2> QED BY <2>10 DEF A, B2, v
<1>2. ASSUME NEW x PROVE Govern(s)!HistoryOf(x)' = Govern(s)!HistoryOf(x)
  BY DEF Govern!HistoryOf
<1>3. \A S : Govern(s)!Cardinality(S) = Cardinality(S)
  BY GovCardinality
<1> QED BY <1>1, <1>2, <1>3 DEF Govern!HistoryCounted

LEMMA GovPreserves ==
  ASSUME NEW s \in GovernanceScenes, Govern(s)!IInv, [Govern(s)!Next]_<<db, job>>
  PROVE  Govern(s)!IInv' /\ Govern(s)!MovesAreAllowed
<1>1. PICK w \in Cast[s].workers : GovMoves(s, w) \/ GovWrites(s, w)
  BY GovSteps
<1>2. /\ job = [v \in Cast[s].workers |-> job[v]] /\ \A v \in Cast[s].workers : Govern(s)!JobSound(job[v])
      /\ Govern(s)!TablesTyped(Govern(s)!RowType) /\ Govern(s)!TablesSound
  BY DEF Govern!IInv
<1>3. CASE GovMoves(s, w)
  <2>1. PICK j : /\ job' = [job EXCEPT ![w] = j] /\ UNCHANGED db /\ Govern(s)!JobSound(j)
                 /\ \A x : Govern(s)!Recording(j, x) => Govern(s)!Recording(job[w], x)
    BY <1>3 DEF GovMoves
  <2>2. job' = [v \in Cast[s].workers |-> job'[v]] /\ \A v \in Cast[s].workers : Govern(s)!JobSound(job'[v])
    BY <1>2, <2>1, CarryMoves
  <2>3. \A i : Govern(s)!JobSound(i) => Govern(s)!JobSound(i)'
    BY <1>2, <2>1, GovSame, GovSteady
  <2>4. Govern(s)!TablesTyped(Govern(s)!RowType)'
    BY <1>2, <2>1 DEF Govern!TablesTyped
  <2>5. Govern(s)!TablesSound'
    <3>1. /\ Govern(s)!StatusIsDecided /\ Govern(s)!CertifiedOnApproval /\ Govern(s)!ReleasedWhenDue
          /\ Govern(s)!ProposedOnce
      BY <1>2 DEF Govern!TablesSound
    <3>2. Govern(s)!StatusIsDecided'
      BY <2>1, <3>1 DEF Govern!StatusIsDecided, Govern!Key, Govern!Ids
    <3>3. Govern(s)!CertifiedOnApproval' /\ Govern(s)!ReleasedWhenDue' /\ Govern(s)!ProposedOnce'
      <4>1. Govern(s)!CertifiedOnApproval'
        BY <2>1, <3>1 DEF Govern!CertifiedOnApproval, Govern!Ids
      <4>2. Govern(s)!ReleasedWhenDue'
        BY <2>1, <3>1 DEF Govern!ReleasedWhenDue, Govern!Ids
      <4>3. Govern(s)!ProposedOnce'
        BY <2>1, <3>1 DEF Govern!ProposedOnce, Govern!Ids
      <4> QED BY <4>1, <4>2, <4>3
    <3>4. ASSUME NEW t, Govern(s)!ReleaseDue(t) PROVE Govern(s)!ReleaseDue(t)'
      BY <2>1, <3>4 DEF Govern!ReleaseDue, Govern!Passed, Govern!CertificatesFor, Govern!Ids
    <3> QED BY <1>2, <2>1, <3>2, <3>3, <3>4 DEF Govern!TablesSound, Govern!Ids, Govern!InStatus
  <2>6. Govern(s)!HistoryCounted'
    BY <2>1, GovUncounted
  <2>7. Govern(s)!MovesAreAllowed
    BY <2>1 DEF Govern!MovesAreAllowed
  <2> QED BY <2>2, <2>3, <2>4, <2>5, <2>6, <2>7 DEF Govern!IInv
<1>4. CASE GovWrites(s, w)
  <2>1. PICK h, j : /\ job' = [job EXCEPT ![w] = j] /\ Govern(s)!Admits(h) /\ db' = Govern(s)!Written(h)
                    /\ Govern(s)!WriteSound(h) \/ GovMoving(s, h)
                    /\ GovBacked(s, h) /\ GovCounting(s, w, h, j) /\ Govern(s)!JobSound(j)'
    BY <1>4 DEF GovWrites
  <2>2. Govern(s)!WriteTyped(h, Govern(s)!RowType)
    BY <2>1 DEF Govern!WriteSound, GovMoving
  <2>3. Govern(s)!TablesTyped(Govern(s)!RowType)'
    BY <1>2, <2>1, <2>2, GovLands
  <2>4. GovGrows /\ Govern(s)!MovesAreAllowed
    BY <1>2, <2>1, GovGrowing
  <2>5. Govern(s)!TablesSound'
    BY <1>2, <2>1, GovSound
  <2>6. Govern(s)!HistoryCounted'
    BY <2>1, GovCounts
  <2>7. \A i : Govern(s)!JobSound(i) => Govern(s)!JobSound(i)'
    BY <1>2, <2>4, GovSteady
  <2>8. /\ job' = [v \in Cast[s].workers |-> job'[v]] /\ job'[w] = j
        /\ \A v \in Cast[s].workers \ {w} : job'[v] = job[v]
    BY <1>2, <2>1, CarryMoves
  <2>9. \A v \in Cast[s].workers : Govern(s)!JobSound(job[v])'
    <3> SUFFICES ASSUME NEW v \in Cast[s].workers PROVE Govern(s)!JobSound(job[v])'
      OBVIOUS
    <3> PICK i : i = job'[v]
      OBVIOUS
    <3>1. i = j \/ (i = job[v] /\ Govern(s)!JobSound(i))
      BY <1>2, <2>8
    <3>2. Govern(s)!JobSound(i)'
      BY <2>1, <2>7, <3>1
    <3> QED BY <3>2
  <2> QED BY <2>3, <2>4, <2>5, <2>6, <2>8, <2>9 DEF Govern!IInv
<1> QED BY <1>1, <1>3, <1>4

(* The order of the milestones, as a set of edges.                         *)
LEMMA GovOrdered ==
  ASSUME NEW s \in GovernanceScenes
  PROVE  /\ \A p, q : Govern(s)!HasPath(p, q)
                        <=> PathIn(Govern(s)!EdgeSet, DOMAIN db["governedMilestones"], p, q)
         /\ Govern(s)!OrderIsAcyclic <=> NoCycle(Govern(s)!EdgeSet, DOMAIN db["governedMilestones"])
         /\ Govern(s)!OrderIsAcyclic' <=> NoCycle(Govern(s)!EdgeSet', DOMAIN db'["governedMilestones"])
<1>1. \A p, q : Govern(s)!HasPath(p, q)
                  <=> PathIn(Govern(s)!EdgeSet, DOMAIN db["governedMilestones"], p, q)
  BY DEF Govern!HasPath, Govern!After, PathIn, AfterIn, Govern!Ids
<1>2. ASSUME NEW m
      PROVE  Govern(s)!HasPath(m, m)' <=> PathIn(Govern(s)!EdgeSet', DOMAIN db'["governedMilestones"], m, m)
  BY DEF Govern!HasPath, Govern!After, PathIn, AfterIn, Govern!Ids
<1>3. Govern(s)!OrderIsAcyclic <=> NoCycle(Govern(s)!EdgeSet, DOMAIN db["governedMilestones"])
  BY <1>1 DEF Govern!OrderIsAcyclic, NoCycle, Govern!Ids
<1>4. Govern(s)!OrderIsAcyclic' <=> NoCycle(Govern(s)!EdgeSet', DOMAIN db'["governedMilestones"])
  BY <1>2 DEF Govern!OrderIsAcyclic, NoCycle, Govern!Ids
<1> QED BY <1>1, <1>3, <1>4

LEMMA GovStaysOrdered ==
  ASSUME NEW s \in GovernanceScenes, Govern(s)!IInv, NEW h, Govern(s)!OrderIsAcyclic,
         Govern(s)!WriteSound(h) \/ GovMoving(s, h), GovTimely(s, h), db' = Govern(s)!Written(h)
  PROVE  Govern(s)!OrderIsAcyclic'
<1> DEFINE M == "governedMilestones"
           D == "milestoneDependencies"
           E == Govern(s)!EdgeSet
           F == Govern(s)!EdgeSet'
<1>1. Govern(s)!WriteTyped(h, Govern(s)!RowType)
  BY DEF Govern!WriteSound, GovMoving
<1>2. /\ M \in DOMAIN db /\ D \in DOMAIN db
      /\ \A x \in DOMAIN db[D] : db[D][x] \in Govern(s)!MilestoneDependency
  BY GovTables DEF Govern!IInv, Govern!RowType
<1>3. Lands(db, db', h)
  BY <1>1, GovLands DEF Govern!IInv
<1>4. E = {db[D][x] : x \in DOMAIN db[D]} /\ F = {db'[D][x] : x \in DOMAIN db'[D]}
  BY DEF Govern!EdgeSet, Govern!Ids
<1>5. NoCycle(E, DOMAIN db[M])
  BY GovOrdered
<1>6. CASE h.c = D
  <2> PICK p, q : p = h.row.pred /\ q = h.row.succ
    OBVIOUS
  <2>1. h.op = "append" /\ h.row \in Govern(s)!MilestoneDependency
    BY <1>1, <1>6 DEF Govern!WriteSound, GovMoving, Govern!ReplaceSound, Govern!WriteTyped, Govern!RowType
  <2>2. h.row = [pred |-> p, succ |-> q]
    BY <2>1 DEF Govern!MilestoneDependency
  <2>3. q \in DOMAIN db[M] /\ p # q
    BY <1>6, <2>1 DEF Govern!WriteSound, GovMoving, Govern!AppendSound, Govern!Ids
  <2>4. ~PathIn(E, DOMAIN db[M], q, p)
    BY <1>6, GovOrdered DEF GovTimely
  <2>5. F = E \cup {h.row}
    <3> DEFINE k == Place(db, h)
    <3>1. /\ DOMAIN db'[D] = DOMAIN db[D] \cup {k} /\ db'[D][k] = h.row
          /\ \A x \in DOMAIN db[D] \ {k} : db'[D][x] = db[D][x]
      BY <1>3, <1>6 DEF Lands
    <3>2. k \notin DOMAIN db[D]
      BY <1>6, <2>1, GovTables DEF Place, Govern!IInv
    <3> HIDE DEF k
    <3> QED BY <1>4, <3>1, <3>2
  <2>6. DOMAIN db'[M] = DOMAIN db[M]
    BY <1>2, <1>3, <1>6 DEF Lands
  <2> HIDE DEF E, F
  <2>7. NoCycle(F, DOMAIN db'[M])
    BY <1>5, <2>2, <2>3, <2>4, <2>5, <2>6, EdgeAdded
  <2> QED BY <2>7, GovOrdered DEF F
<1>7. CASE h.c # D
  <2>1. F = E
    BY <1>2, <1>3, <1>4, <1>7 DEF Lands
  <2>2. DOMAIN db[M] \subseteq DOMAIN db'[M]
    BY <1>2, <1>3 DEF Lands
  <2>3. \A e \in E : e.pred \in DOMAIN db[M]
    BY <1>4 DEF Govern!IInv, Govern!TablesSound, Govern!Ids
  <2> HIDE DEF E, F
  <2>4. NoCycle(F, DOMAIN db'[M])
    BY <1>5, <2>1, <2>2, <2>3, MilestoneAdded
  <2> QED BY <2>4, GovOrdered DEF F
<1> QED BY <1>6, <1>7

LEMMA GovStaysApart ==
  ASSUME NEW s \in GovernanceScenes, Govern(s)!IInv, NEW h, Govern(s)!PublishedApart,
         Govern(s)!WriteSound(h) \/ GovMoving(s, h), GovTimely(s, h), db' = Govern(s)!Written(h)
  PROVE  Govern(s)!PublishedApart'
<1> DEFINE D == "dodVersions"
<1> USE DEF Govern!Ids, Govern!InStatus
<1>1. Govern(s)!WriteTyped(h, Govern(s)!RowType)
  BY DEF Govern!WriteSound, GovMoving
<1>2. D \in DOMAIN db
  BY GovTables DEF Govern!IInv
<1>3. Keeps(db, db', h) /\ Adds(db, db', h)
  BY <1>1, GovLands DEF Govern!IInv
<1>4. ASSUME NEW x \in DOMAIN db'[D], db'[D][x].status = "PUBLISHED"
      PROVE  /\ x \in DOMAIN db[D]
             /\ db'[D][x] = db[D][x] \/ (Govern(s)!Publishing(h) /\ h.id = x /\ db'[D][x] = h.row)
  <2>1. x \in DOMAIN db[D]
    BY <1>2, <1>3, <1>4 DEF Adds, Govern!WriteSound, GovMoving, Govern!AppendSound
  <2> QED BY <1>2, <1>3, <1>4, <2>1 DEF Keeps, Govern!Publishing
<1>5. Govern(s)!Publishing(h) => \A x \in DOMAIN db[D] :
        ~(db[D][x].status = "PUBLISHED" /\ db[D][x].milestone = h.row.milestone)
  BY DEF GovTimely, Govern!PublishedOf, Govern!VersionsOf
<1> SUFFICES ASSUME NEW x \in DOMAIN db'[D], NEW y \in DOMAIN db'[D],
                    db'[D][x].status = "PUBLISHED", db'[D][y].status = "PUBLISHED",
                    db'[D][x].milestone = db'[D][y].milestone
             PROVE  x = y
  BY DEF Govern!PublishedApart
<1>6. /\ x \in DOMAIN db[D] /\ y \in DOMAIN db[D]
      /\ db'[D][x] = db[D][x] \/ (Govern(s)!Publishing(h) /\ h.id = x /\ db'[D][x] = h.row)
      /\ db'[D][y] = db[D][y] \/ (Govern(s)!Publishing(h) /\ h.id = y /\ db'[D][y] = h.row)
  BY <1>4
<1> QED BY <1>5, <1>6 DEF Govern!PublishedApart

LEMMA GovSerial ==
  ASSUME NEW s \in GovernanceScenes, Govern(s)!IInv, Govern(s)!SerialInv, [Govern(s)!Next]_<<db, job>>
  PROVE  /\ Govern(s)!SerialInv'
         /\ Govern(s)!InTurn => Govern(s)!CompletedInOrder
<1> DEFINE M == "governedMilestones"
<1> USE DEF Govern!Ids
<1> SUFFICES ASSUME Govern(s)!InTurn
             PROVE  /\ Govern(s)!PublishedApart' /\ Govern(s)!OrderIsAcyclic'
                    /\ \A v \in Cast[s].workers : Govern(s)!Fresh(job[v])'
                    /\ Govern(s)!CompletedInOrder
  BY DEF Govern!SerialInv, Govern!InTurn
<1>1. GovInTurn(s) /\ Govern(s)!PublishedApart /\ Govern(s)!OrderIsAcyclic
  BY DEF GovInTurn, Govern!SerialInv
<1>2. PICK w \in Cast[s].workers : GovMoves(s, w) \/ GovWrites(s, w)
  BY GovSteps
<1>3. job = [v \in Cast[s].workers |-> job[v]] /\ \A v \in Cast[s].workers : v = w
  BY <1>2 DEF Govern!IInv, Govern!InTurn
<1>4. M \in DOMAIN db
  BY GovTables DEF Govern!IInv
<1>5. CASE GovMoves(s, w)
  <2>1. PICK j : job' = [job EXCEPT ![w] = j] /\ UNCHANGED db /\ Govern(s)!Fresh(j)
    BY <1>1, <1>5 DEF GovMoves
  <2>2. \A v \in Cast[s].workers : job'[v] = j
    BY <1>3, <2>1, CarryMoves
  <2>3. Govern(s)!Fresh(j)'
    <3>1. ASSUME NEW m PROVE Govern(s)!Predecessors(m)' = Govern(s)!Predecessors(m)
      BY <2>1 DEF Govern!Predecessors
    <3>2. ASSUME NEW m PROVE Govern(s)!PublishedOf(m)' = Govern(s)!PublishedOf(m)
      BY <2>1 DEF Govern!PublishedOf, Govern!VersionsOf, Govern!InStatus
    <3>3. ASSUME NEW p, NEW q PROVE Govern(s)!HasPath(p, q)' <=> Govern(s)!HasPath(p, q)
      BY <2>1 DEF Govern!HasPath, Govern!After, Govern!EdgeSet
    <3>4. ASSUME NEW S, Govern(s)!AllReady(S) PROVE Govern(s)!AllReady(S)'
      BY <2>1, <3>4 DEF Govern!AllReady, Govern!Completed
    <3>5. ASSUME NEW t, NEW n, Govern(s)!FreshAt(t, n) PROVE Govern(s)!FreshAt(t, n)'
      BY <3>1, <3>2, <3>3, <3>4, <3>5 DEF Govern!FreshAt, Govern!Publishing, Govern!Superseding
    <3> QED BY <2>1, <3>1, <3>5 DEF Govern!Fresh
  <2>4. Govern(s)!PublishedApart' /\ Govern(s)!OrderIsAcyclic'
    <3>1. ASSUME NEW m, ~Govern(s)!HasPath(m, m) PROVE ~Govern(s)!HasPath(m, m)'
      BY <2>1, <3>1 DEF Govern!HasPath, Govern!After, Govern!EdgeSet
    <3> QED BY <1>1, <2>1, <3>1 DEF Govern!PublishedApart, Govern!OrderIsAcyclic, Govern!InStatus
  <2>5. Govern(s)!CompletedInOrder
    BY <2>1 DEF Govern!CompletedInOrder, Govern!Completed
  <2> QED BY <2>2, <2>3, <2>4, <2>5
<1>6. CASE GovWrites(s, w)
  <2>1. PICK h, j : /\ job' = [job EXCEPT ![w] = j] /\ db' = Govern(s)!Written(h)
                    /\ Govern(s)!WriteSound(h) \/ GovMoving(s, h)
                    /\ GovTimely(s, h) /\ Govern(s)!Fresh(j)'
    BY <1>1, <1>6 DEF GovWrites
  <2>2. \A v \in Cast[s].workers : job'[v] = j
    BY <1>3, <2>1, CarryMoves
  <2>3. Govern(s)!PublishedApart' /\ Govern(s)!OrderIsAcyclic'
    BY <1>1, <2>1, GovStaysApart, GovStaysOrdered
  <2>4. Govern(s)!CompletedInOrder
    <3>1. Keeps(db, db', h)
      <4>1. Govern(s)!WriteTyped(h, Govern(s)!RowType)
        BY <2>1 DEF Govern!WriteSound, GovMoving
      <4> QED BY <2>1, <4>1, GovLands DEF Govern!IInv
    <3> SUFFICES ASSUME NEW m \in DOMAIN db[M], db[M][m].state # "COMPLETED", db'[M][m].state = "COMPLETED",
                        NEW p \in Govern(s)!Predecessors(m)
                 PROVE  Govern(s)!Completed(p)
      BY DEF Govern!CompletedInOrder, Govern!Completed
    <3>2. h.c = M /\ h.op = "replace" /\ h.id = m
      BY <1>4, <3>1 DEF Keeps
    <3> QED BY <2>1, <3>2 DEF GovTimely, Govern!AllReady
  <2> QED BY <2>1, <2>2, <2>3, <2>4
<1> QED BY <1>2, <1>5, <1>6

(* What the invariants promise.                                            *)
LEMMA GovPromises ==
  ASSUME NEW s \in GovernanceScenes, Govern(s)!IInv, Govern(s)!SerialInv
  PROVE  /\ Govern(s)!TypeOK /\ Govern(s)!HistoryTookPlace
         /\ Govern(s)!StatusIsDecided /\ Govern(s)!CertifiedOnApproval
         /\ Govern(s)!ReleasedWhenDue /\ Govern(s)!ProposedOnce
         /\ Govern(s)!InTurn => Govern(s)!OnePublished /\ Govern(s)!OrderIsAcyclic
<1> DEFINE H == "executionHistory"
           D == "dodVersions"
<1> USE DEF Govern!Ids
<1>1. /\ DOMAIN db = Govern(s)!Collections /\ H \in DOMAIN db /\ D \in DOMAIN db
      /\ \A c \in DOMAIN db : /\ DOMAIN db[c] = 1..Len(db[c]) /\ Len(db[c]) \in Nat
                              /\ \A x \in DOMAIN db[c] : db[c][x] \in Govern(s)!RowType[c]
  BY GovTables DEF Govern!IInv
<1>2. Govern(s)!TypeOK
  BY <1>1 DEF Govern!TypeOK
<1>3. Govern(s)!HistoryTookPlace
  <2> SUFFICES ASSUME NEW x \in DOMAIN db["governedExecutions"]
               PROVE  Govern(s)!Cardinality(Govern(s)!HistoryOf(x)) <= db["governedExecutions"][x].version
    BY DEF Govern!HistoryTookPlace
  <2> DEFINE A == Govern(s)!HistoryOf(x)
             B == Govern(s)!Recorders(x)
             v == db["governedExecutions"][x].version
  <2>1. Cardinality(A) + Cardinality(B) <= v
    BY GovCardinality DEF Govern!IInv, Govern!HistoryCounted
  <2> PICK n : n = Len(db[H])
    OBVIOUS
  <2>2. n \in Nat /\ A \in SUBSET (1..n) /\ B \in SUBSET Cast[s].workers
    BY <1>1 DEF Govern!HistoryOf, Govern!Recorders
  <2>3. IsFiniteSet(1..n) /\ IsFiniteSet(Cast[s].workers)
    BY <2>2, FS_Interval, GovFinite
  <2>4. IsFiniteSet(A) /\ IsFiniteSet(B)
    BY <2>2, <2>3, FS_Subset
  <2>5. v \in Nat
    BY GovTables DEF Govern!IInv, Govern!RowType, Govern!Execution
  <2> HIDE DEF A, B, v
  <2>6. Cardinality(A) \in Nat /\ Cardinality(B) \in Nat
    BY <2>4, FS_CardinalityType
  <2>7. Cardinality(A) <= v
    BY <2>1, <2>5, <2>6
  <2> QED BY <2>7, GovCardinality DEF A, v
<1>4. ASSUME Govern(s)!InTurn PROVE Govern(s)!OnePublished
  <2> SUFFICES ASSUME NEW m PROVE Govern(s)!Cardinality(Govern(s)!PublishedOf(m)) <= 1
    BY DEF Govern!OnePublished
  <2> DEFINE S == Govern(s)!PublishedOf(m)
  <2> PICK n : n = Len(db[D])
    OBVIOUS
  <2>1. n \in Nat /\ S \subseteq 1..n
    BY <1>1 DEF Govern!PublishedOf, Govern!VersionsOf
  <2>2. \A x, y \in S : x = y
    BY <1>4 DEF Govern!SerialInv, Govern!PublishedApart, Govern!PublishedOf, Govern!VersionsOf
  <2> HIDE DEF S
  <2>3. Cardinality(S) <= 1
    BY <2>1, <2>2, AtMostOne
  <2> QED BY <2>3, GovCardinality DEF S
<1>5. Govern(s)!InTurn => Govern(s)!OrderIsAcyclic
  BY DEF Govern!SerialInv
<1> QED BY <1>2, <1>3, <1>4, <1>5 DEF Govern!IInv, Govern!TablesSound

----------------------------------------------------------------------------
(* Engines 21 to 25.                                                       *)
LEMMA PlanCardinality ==
  ASSUME NEW s, NEW S PROVE Plan(s)!Cardinality(S) = Cardinality(S)
  BY DEF Plan!Cardinality, Cardinality

LEMMA PlanTables ==
  ASSUME NEW s \in BlueprintScenes, Plan(s)!TablesTyped(Plan(s)!RowType)
  PROVE  /\ DOMAIN db = {"performanceBlueprints", "scopeItems", "deliverables", "blueprintMilestones",
                         "milestoneSequenceEdges", "dodPackages"}
         /\ Plan(s)!Collections = DOMAIN db
         /\ \A c \in DOMAIN db : /\ DOMAIN db[c] = 1..Len(db[c]) /\ Len(db[c]) \in Nat
                                 /\ \A x \in DOMAIN db[c] : db[c][x] \in Plan(s)!RowType[c]
<1>1. DOMAIN db = Plan(s)!Collections /\ Plan(s)!Collections = DOMAIN Plan(s)!RowType
  BY DeliveryAssumption DEF Plan!TablesTyped, Plan!BlueprintAssumption
<1>2. \A c \in DOMAIN db : db[c] \in Seq(Plan(s)!RowType[c])
  BY <1>1 DEF Plan!TablesTyped
<1>3. \A c \in DOMAIN db : /\ DOMAIN db[c] = 1..Len(db[c]) /\ Len(db[c]) \in Nat
                           /\ \A x \in DOMAIN db[c] : db[c][x] \in Plan(s)!RowType[c]
  BY <1>2
<1>4. DOMAIN Plan(s)!RowType = {"performanceBlueprints", "scopeItems", "deliverables", "blueprintMilestones",
                                "milestoneSequenceEdges", "dodPackages"}
  BY DEF Plan!RowType
<1> QED BY <1>1, <1>3, <1>4

LEMMA PlanLands ==
  ASSUME NEW s \in BlueprintScenes, Plan(s)!TablesTyped(Plan(s)!RowType),
         NEW h, Plan(s)!WriteTyped(h, Plan(s)!RowType), db' = Plan(s)!Written(h)
  PROVE  /\ Plan(s)!TablesTyped(Plan(s)!RowType)'
         /\ Lands(db, db', h) /\ Keeps(db, db', h) /\ Adds(db, db', h)
<1> DEFINE T == Plan(s)!RowType
           C == Plan(s)!Collections
<1>1. Fitting(db, C, T, h) /\ db' = Holding(db, h)
  BY DEF Plan!TablesTyped, Plan!WriteTyped, Plan!Ids, Plan!Written, Tabled, Fitting, Holding
<1>2. Tabled(db', C, T) /\ Lands(db, db', h) /\ Keeps(db, db', h) /\ Adds(db, db', h)
  <2> HIDE DEF T, C
  <2> QED BY <1>1, Landing
<1> QED BY <1>2 DEF Tabled, Plan!TablesTyped

(* How the tables change: what is confirmed stays so, a version stays its  *)
(* owner's, and milestones and edges stay as they are.                     *)
PlanGrows(s) ==
  /\ DOMAIN db' = DOMAIN db /\ \A c \in DOMAIN db : DOMAIN db[c] \subseteq DOMAIN db'[c]
  /\ \A x \in DOMAIN db["deliverables"] :
       /\ db'["deliverables"][x].blueprint = db["deliverables"][x].blueprint
       /\ db["deliverables"][x].status = "CONFIRMED" => db'["deliverables"][x].status = "CONFIRMED"
  /\ \A c \in Plan(s)!Plans : \A x \in DOMAIN db[c] :
       Plan(s)!Owner(c, db'[c][x]) = Plan(s)!Owner(c, db[c][x])
  /\ \A x \in DOMAIN db["performanceBlueprints"] :
       db'["performanceBlueprints"][x].version = db["performanceBlueprints"][x].version
  /\ \A c \in {"blueprintMilestones", "milestoneSequenceEdges"} : \A x \in DOMAIN db[c] : db'[c][x] = db[c][x]

LEMMA PlanGrowing ==
  ASSUME NEW s \in BlueprintScenes, Plan(s)!TablesTyped(Plan(s)!RowType), NEW h,
         Plan(s)!WriteSound(h), db' = Plan(s)!Written(h)
  PROVE  PlanGrows(s)
<1>1. Plan(s)!WriteTyped(h, Plan(s)!RowType)
  BY DEF Plan!WriteSound
<1>2. /\ DOMAIN db = {"performanceBlueprints", "scopeItems", "deliverables", "blueprintMilestones",
                      "milestoneSequenceEdges", "dodPackages"}
      /\ Plan(s)!Collections = DOMAIN db
  BY PlanTables
<1>3. Plan(s)!TablesTyped(Plan(s)!RowType)' /\ Keeps(db, db', h)
  BY <1>1, PlanLands
<1>4. DOMAIN db' = DOMAIN db /\ \A c \in DOMAIN db : DOMAIN db[c] \subseteq DOMAIN db'[c]
  BY <1>2, <1>3 DEF Keeps, Plan!TablesTyped
<1>5. h.op = "replace" => Plan(s)!ReplaceSound(h)
  BY DEF Plan!WriteSound
<1>6. \A x \in DOMAIN db["deliverables"] :
        /\ db'["deliverables"][x].blueprint = db["deliverables"][x].blueprint
        /\ db["deliverables"][x].status = "CONFIRMED" => db'["deliverables"][x].status = "CONFIRMED"
  BY <1>2, <1>3, <1>5 DEF Keeps, Plan!ReplaceSound
<1>7. \A c \in Plan(s)!Plans : \A x \in DOMAIN db[c] :
        Plan(s)!Owner(c, db'[c][x]) = Plan(s)!Owner(c, db[c][x])
  <2> SUFFICES ASSUME NEW c \in Plan(s)!Plans, NEW x \in DOMAIN db[c]
               PROVE  Plan(s)!Owner(c, db'[c][x]) = Plan(s)!Owner(c, db[c][x])
    OBVIOUS
  <2>1. db'[c][x] = db[c][x] \/ (h.op = "replace" /\ h.c = c /\ h.id = x /\ db'[c][x] = h.row)
    BY <1>2, <1>3 DEF Keeps, Plan!Plans
  <2> QED BY <1>5, <2>1 DEF Plan!ReplaceSound
<1>8. \A x \in DOMAIN db["performanceBlueprints"] :
        db'["performanceBlueprints"][x].version = db["performanceBlueprints"][x].version
  BY <1>2, <1>3, <1>5 DEF Keeps, Plan!ReplaceSound
<1>9. \A c \in {"blueprintMilestones", "milestoneSequenceEdges"} :
        \A x \in DOMAIN db[c] : db'[c][x] = db[c][x]
  BY <1>2, <1>3, <1>5 DEF Keeps, Plan!ReplaceSound
<1> QED BY <1>4, <1>6, <1>7, <1>8, <1>9 DEF PlanGrows

LEMMA PlanSame ==
  ASSUME NEW s, UNCHANGED db PROVE PlanGrows(s)
  BY DEF PlanGrows

(* What was true of the tables stays true.                                 *)
LEMMA PlanSteady ==
  ASSUME NEW s \in BlueprintScenes, Plan(s)!TablesTyped(Plan(s)!RowType), PlanGrows(s)
  PROVE  /\ \A row : Plan(s)!Confirmed(row) => Plan(s)!Confirmed(row)'
         /\ \A edge : Plan(s)!EndsExist(edge) => Plan(s)!EndsExist(edge)'
         /\ \A h : Plan(s)!WriteSound(h) => Plan(s)!WriteSound(h)'
         /\ \A j : Plan(s)!JobSound(j) => Plan(s)!JobSound(j)'
<1> USE DEF Plan!Ids, Plan!InStatus
<1>1. /\ DOMAIN db = {"performanceBlueprints", "scopeItems", "deliverables", "blueprintMilestones",
                      "milestoneSequenceEdges", "dodPackages"}
      /\ Plan(s)!Collections = DOMAIN db
  BY PlanTables
<1>2. \A c \in DOMAIN db : \A x \in DOMAIN db[c] : x \in DOMAIN db'[c]
  BY DEF PlanGrows
<1>3. ASSUME NEW row, Plan(s)!Confirmed(row) PROVE Plan(s)!Confirmed(row)'
  BY <1>1, <1>2, <1>3 DEF Plan!Confirmed, PlanGrows
<1>4. ASSUME NEW edge, Plan(s)!EndsExist(edge) PROVE Plan(s)!EndsExist(edge)'
  BY <1>1, <1>2, <1>4 DEF Plan!EndsExist
<1>5. ASSUME NEW h, Plan(s)!WriteSound(h) PROVE Plan(s)!WriteSound(h)'
  <2>1. h.c \in DOMAIN db /\ (h.op = "replace" => h.id \in DOMAIN db[h.c])
    BY <1>1, <1>5 DEF Plan!WriteSound, Plan!WriteTyped
  <2>2. Plan(s)!WriteTyped(h, Plan(s)!RowType)'
    BY <1>2, <1>5, <2>1 DEF Plan!WriteSound, Plan!WriteTyped
  <2>3. Plan(s)!ReplaceSound(h) /\ h.op = "replace" => Plan(s)!ReplaceSound(h)'
    <3> SUFFICES ASSUME Plan(s)!ReplaceSound(h), h.op = "replace" PROVE Plan(s)!ReplaceSound(h)'
      OBVIOUS
    <3> PICK c, x, row : c = h.c /\ x = h.id /\ row = h.row
      OBVIOUS
    <3>1. c \in Plan(s)!Plans => Plan(s)!Owner(c, row) = Plan(s)!Owner(c, db'[c][x])
      BY <2>1 DEF Plan!ReplaceSound, PlanGrows
    <3>2. c = "performanceBlueprints" => row.version = db'[c][x].version
      BY <2>1 DEF Plan!ReplaceSound, PlanGrows
    <3>3. c = "deliverables" => row.blueprint = db'[c][x].blueprint
      BY <2>1 DEF Plan!ReplaceSound, PlanGrows
    <3> QED BY <3>1, <3>2, <3>3 DEF Plan!ReplaceSound, Plan!Owner
  <2>4. Plan(s)!AppendSound(h) => Plan(s)!AppendSound(h)'
    BY <1>3, <1>4 DEF Plan!AppendSound
  <2> QED BY <1>5, <2>2, <2>3, <2>4 DEF Plan!WriteSound
<1>6. ASSUME NEW j, Plan(s)!JobSound(j) PROVE Plan(s)!JobSound(j)'
  <2>1. j.at \in {"scope", "milestones", "packages", "active"} => j.id \in DOMAIN db'["performanceBlueprints"]
    BY <1>1, <1>2, <1>6 DEF Plan!JobSound
  <2>2. j.at = "published" => j.id \in DOMAIN db'["dodPackages"]
    BY <1>1, <1>2, <1>6 DEF Plan!JobSound
  <2>3. j.at = "allocate" => Plan(s)!Confirmed(j.row)'
    BY <1>3, <1>6 DEF Plan!JobSound
  <2>4. j.at = "edges" => Plan(s)!EndsExist(j.row)'
    BY <1>4, <1>6 DEF Plan!JobSound
  <2>5. j.at = "write" => \A n \in DOMAIN j.todo : Plan(s)!WriteSound(j.todo[n])'
    BY <1>5, <1>6 DEF Plan!JobSound
  <2> QED BY <1>6, <2>1, <2>2, <2>3, <2>4, <2>5 DEF Plan!JobSound
<1> QED BY <1>3, <1>4, <1>5, <1>6

LEMMA PlanSound ==
  ASSUME NEW s \in BlueprintScenes, Plan(s)!TablesTyped(Plan(s)!RowType), Plan(s)!TablesSound, NEW h,
         Plan(s)!WriteSound(h), Plan(s)!Admits(h), db' = Plan(s)!Written(h)
  PROVE  Plan(s)!TablesSound'
<1> DEFINE B == "performanceBlueprints"
           P == "dodPackages"
           M == "blueprintMilestones"
           E == "milestoneSequenceEdges"
<1> USE DEF Plan!Ids, Plan!InStatus
<1>1. Plan(s)!WriteTyped(h, Plan(s)!RowType)
  BY DEF Plan!WriteSound
<1>2. DOMAIN db = {B, "scopeItems", "deliverables", M, E, P}
  BY PlanTables
<1>3. Keeps(db, db', h) /\ Adds(db, db', h)
  BY <1>1, PlanLands
<1>4. PlanGrows(s)
  BY PlanGrowing
<1>5. /\ \A row : Plan(s)!Confirmed(row) => Plan(s)!Confirmed(row)'
      /\ \A edge : Plan(s)!EndsExist(edge) => Plan(s)!EndsExist(edge)'
  BY <1>4, PlanSteady
<1>6. Plan(s)!OneEach'
  <2> SUFFICES ASSUME NEW c \in Plan(s)!Plans, NEW x \in DOMAIN db'[c], NEW y \in DOMAIN db'[c],
                      db'[c][x].status = Plan(s)!InForce(c), db'[c][y].status = Plan(s)!InForce(c),
                      Plan(s)!Owner(c, db'[c][x]) = Plan(s)!Owner(c, db'[c][y])
               PROVE  x = y
    BY DEF Plan!OneEach, Plan!Owner, Plan!InForce
  <2>1. c \in DOMAIN db
    BY <1>2 DEF Plan!Plans
  <2>2. Plan(s)!InForce(c) # "DRAFT"
    BY DEF Plan!InForce
  <2>3. \A z \in DOMAIN db'[c] : db'[c][z].status = Plan(s)!InForce(c) => z \in DOMAIN db[c]
    BY <1>3, <2>1, <2>2 DEF Adds, Plan!WriteSound, Plan!AppendSound
  <2>4. \A z \in DOMAIN db[c] :
          db'[c][z] = db[c][z] \/ (h.op = "replace" /\ h.c = c /\ h.id = z /\ db'[c][z] = h.row)
    BY <1>3, <2>1 DEF Keeps
  <2>5. h.op = "replace" /\ h.c = c /\ h.row.status = Plan(s)!InForce(c) =>
          \A z \in DOMAIN db[c] \ {h.id} :
            db[c][z].status = Plan(s)!InForce(c) => Plan(s)!Owner(c, db[c][z]) # Plan(s)!Owner(c, h.row)
    BY DEF Plan!Admits, Plan!NoOther, Plan!Plans, Plan!Owner, Plan!InForce
  <2>6. db[c][x].status = Plan(s)!InForce(c) /\ db[c][y].status = Plan(s)!InForce(c)
          /\ Plan(s)!Owner(c, db[c][x]) = Plan(s)!Owner(c, db[c][y]) => x = y
    BY <2>3 DEF Plan!TablesSound, Plan!OneEach
  <2> QED BY <2>3, <2>4, <2>5, <2>6
<1>7. Plan(s)!VersionedOnce'
  <2> SUFFICES ASSUME NEW x \in DOMAIN db'[B], NEW y \in DOMAIN db'[B],
                      db'[B][x].contract = db'[B][y].contract, db'[B][x].version = db'[B][y].version
               PROVE  x = y
    BY DEF Plan!VersionedOnce
  <2>1. \A z \in DOMAIN db[B] : db'[B][z].contract = db[B][z].contract /\ db'[B][z].version = db[B][z].version
    BY <1>4 DEF PlanGrows, Plan!Plans, Plan!Owner
  <2>2. \A z \in DOMAIN db'[B] :
          \/ z \in DOMAIN db[B]
          \/ h.op = "append" /\ h.c = B /\ z = Len(db[B]) + 1 /\ db'[B][z] = h.row
    BY <1>2, <1>3 DEF Adds
  <2>3. h.op = "append" /\ h.c = B =>
          \A z \in DOMAIN db[B] : <<db[B][z].contract, db[B][z].version>> # <<h.row.contract, h.row.version>>
    BY DEF Plan!Admits, Plan!KeyFree
  <2> QED BY <2>1, <2>2, <2>3 DEF Plan!TablesSound, Plan!VersionedOnce
<1>8. ASSUME NEW m \in DOMAIN db'[M] PROVE Plan(s)!Confirmed(db[M][m])'
  <2> PICK row : row = db'[M][m]
    OBVIOUS
  <2>1. Plan(s)!Confirmed(row)
    <3>1. CASE m \in DOMAIN db[M]
      BY <1>4, <3>1 DEF PlanGrows, Plan!TablesSound
    <3>2. CASE m \notin DOMAIN db[M]
      BY <1>2, <1>3, <3>2 DEF Adds, Plan!WriteSound, Plan!AppendSound
    <3> QED BY <3>1, <3>2
  <2>2. Plan(s)!Confirmed(row)'
    BY <1>5, <2>1
  <2> QED BY <2>2
<1>9. ASSUME NEW e \in DOMAIN db'[E] PROVE Plan(s)!EndsExist(db[E][e])'
  <2> PICK row : row = db'[E][e]
    OBVIOUS
  <2>1. Plan(s)!EndsExist(row)
    <3>1. CASE e \in DOMAIN db[E]
      BY <1>4, <3>1 DEF PlanGrows, Plan!TablesSound
    <3>2. CASE e \notin DOMAIN db[E]
      BY <1>2, <1>3, <3>2 DEF Adds, Plan!WriteSound, Plan!AppendSound
    <3> QED BY <3>1, <3>2
  <2>2. Plan(s)!EndsExist(row)'
    BY <1>5, <2>1
  <2> QED BY <2>2
<1> QED BY <1>6, <1>7, <1>8, <1>9 DEF Plan!TablesSound

(* A request goes from one call to the next, or makes a write.             *)
PlanInTurn(s) == Plan(s)!InTurn /\ Plan(s)!SerialInv
PlanReliable(s) == Plan(s)!Reliable /\ Plan(s)!ReliableInv

PlanMoves(s, w) ==
  \E j : /\ job' = [job EXCEPT ![w] = j] /\ UNCHANGED db
         /\ Plan(s)!JobSound(j)
         /\ PlanInTurn(s) => Plan(s)!Fresh(j)
         /\ PlanReliable(s) => Plan(s)!Kept(j) /\ Plan(s)!Followed(j)

(* What is so of the tables when a request that came in turn writes.       *)
PlanTimely(s, h) ==
  /\ Plan(s)!TakesForce(h) /\ h.c = "performanceBlueprints" => Plan(s)!Activatable(h.id)
  /\ h.c = "blueprintMilestones" => Plan(s)!Fits(h.row)
  /\ h.c = "milestoneSequenceEdges" => ~Plan(s)!HasPath(h.row.succ, h.row.pred)

PlanWrites(s, w) ==
  \E h, j : /\ job' = [job EXCEPT ![w] = j] /\ Plan(s)!Admits(h) /\ db' = Plan(s)!Written(h)
            /\ Plan(s)!WriteSound(h) /\ Plan(s)!JobSound(j)'
            /\ PlanInTurn(s) => PlanTimely(s, h) /\ Plan(s)!Fresh(j)'
            /\ PlanReliable(s) => Plan(s)!Kept(j)' /\ Plan(s)!Followed(j)'

(* Who is not writing has no one's place to fill.                          *)
LEMMA PlanFollows ==
  ASSUME NEW s \in BlueprintScenes, NEW w \in Cast[s].workers, PlanReliable(s), job[w].at # "write", NEW j
  PROVE  Plan(s)!Followed(j)
<1>1. Plan(s)!Followed(job[w])
  BY DEF PlanReliable, Plan!ReliableInv
<1>2. \A c, k : ~Plan(s)!Succeeds(job[w], c, k)
  BY DEF Plan!Succeeds
<1> QED BY <1>1, <1>2 DEF Plan!Followed

LEMMA PlanAsks ==
  ASSUME NEW s \in BlueprintScenes, NEW w \in Cast[s].workers, NEW h,
         Plan(s)!Ask(w, <<h>>) \/ (Plan(s)!Decide(w, <<h>>) /\ job[w].at # "write"),
         Plan(s)!WriteSound(h), PlanInTurn(s) => PlanTimely(s, h),
         ~(h.op = "replace" /\ h.c \in Plan(s)!Plans)
  PROVE  PlanMoves(s, w)
<1> DEFINE j == [at |-> "write", todo |-> <<h>>]
<1>1. job' = [job EXCEPT ![w] = j] /\ UNCHANGED db /\ job[w].at # "write"
  BY DEF Plan!Ask, Plan!Decide, Plan!Then, Plan!Receive, Plan!Carry, Plan!At
<1>2. j.at = "write" /\ j.todo = <<h>>
  OBVIOUS
<1> HIDE DEF j
<1>3. Plan(s)!JobSound(j)
  BY <1>2, TodoOfOne DEF Plan!JobSound, Plan!Listed, ListedTodo
<1>4. PlanInTurn(s) => Plan(s)!Fresh(j)
  <2>1. PlanTimely(s, h) => Plan(s)!FreshAt(<<h>>, 1)
    BY TodoOfOne DEF Plan!FreshAt, PlanTimely, Plan!TakesForce
  <2> QED BY <1>2, <2>1, TodoOfOne DEF Plan!Fresh
<1>5. Plan(s)!Kept(j)
  BY <1>2, TodoOfOne DEF Plan!Kept
<1> QED BY <1>1, <1>3, <1>4, <1>5, PlanFollows DEF PlanMoves

LEMMA PlanReads ==
  ASSUME NEW s \in BlueprintScenes, NEW w \in Cast[s].workers, NEW j,
         Plan(s)!Look(w, j) \/ (Plan(s)!Then(w, j) /\ job[w].at # "write"),
         Plan(s)!JobSound(j), PlanInTurn(s) => Plan(s)!Fresh(j), PlanReliable(s) => Plan(s)!Kept(j)
  PROVE  PlanMoves(s, w)
<1>1. job' = [job EXCEPT ![w] = j] /\ UNCHANGED db /\ job[w].at # "write"
  BY DEF Plan!Look, Plan!Then, Plan!Receive, Plan!Carry, Plan!At
<1> QED BY <1>1, PlanFollows DEF PlanMoves

LEMMA PlanGivesUp ==
  ASSUME NEW s \in BlueprintScenes, NEW w \in Cast[s].workers, Plan(s)!GiveUp(w),
         PlanReliable(s) => Plan(s)!Followed(Plan(s)!Idle)
  PROVE  PlanMoves(s, w)
<1> DEFINE j == Plan(s)!Idle
<1>1. j.at = "idle" /\ job' = [job EXCEPT ![w] = j] /\ UNCHANGED db
  BY DEF Plan!GiveUp, Plan!Return, Plan!Carry, Plan!Idle
<1> HIDE DEF j
<1>2. Plan(s)!JobSound(j) /\ Plan(s)!Fresh(j) /\ Plan(s)!Kept(j)
  BY <1>1 DEF Plan!JobSound, Plan!Fresh, Plan!Kept
<1> QED BY <1>1, <1>2 DEF PlanMoves, j

LEMMA PlanCounted ==
  ASSUME NEW s \in BlueprintScenes, Plan(s)!TablesTyped(Plan(s)!RowType), NEW c \in DOMAIN db,
         NEW S, S \subseteq DOMAIN db[c]
  PROVE  1 + Plan(s)!Cardinality(S) \in Nat \ {0}
<1> PICK n : n = Len(db[c])
  OBVIOUS
<1>1. n \in Nat /\ S \in SUBSET (1..n)
  BY PlanTables
<1>2. IsFiniteSet(1..n)
  BY <1>1, FS_Interval
<1>3. Cardinality(S) \in Nat
  BY <1>1, <1>2, FS_Subset, FS_CardinalityType
<1>4. 1 + Cardinality(S) \in Nat \ {0}
  BY <1>3
<1> QED BY <1>4, PlanCardinality

LEMMA PlanDefines ==
  ASSUME NEW s \in BlueprintScenes, Plan(s)!IInv, NEW w \in Cast[s].workers,
         \/ Plan(s)!Draft(w) \/ Plan(s)!DefineScope(w) \/ Plan(s)!ConfirmScope(w)
         \/ Plan(s)!DefineDeliverable(w) \/ Plan(s)!ConfirmDeliverable(w) \/ Plan(s)!DraftPackage(w)
  PROVE  PlanMoves(s, w)
<1> DEFINE B == "performanceBlueprints"
           P == "dodPackages"
           I == "scopeItems"
           D == "deliverables"
           M == "blueprintMilestones"
<1> USE DEF Plan!Ids, Plan!InStatus
<1>1. /\ DOMAIN db = {B, I, D, M, "milestoneSequenceEdges", P} /\ Plan(s)!Collections = DOMAIN db
      /\ \A c \in DOMAIN db : /\ DOMAIN db[c] = 1..Len(db[c]) /\ Len(db[c]) \in Nat
                              /\ \A x \in DOMAIN db[c] : db[c][x] \in Plan(s)!RowType[c]
      /\ Plan(s)!TablesTyped(Plan(s)!RowType)
  BY PlanTables DEF Plan!IInv
<1>2. CASE Plan(s)!Draft(w)
  <2>0. PICK k \in Cast[s].contracts : \E n :
          /\ n = 1 + Plan(s)!Cardinality({x \in DOMAIN db[B] : db[B][x].contract = k})
          /\ Plan(s)!Ask(w, <<Plan(s)!New(B, [status |-> "DRAFT", contract |-> k, version |-> n])>>)
    BY <1>2 DEF Plan!Draft
  <2>1. PICK n :
          /\ n = 1 + Plan(s)!Cardinality({x \in DOMAIN db[B] : db[B][x].contract = k})
          /\ Plan(s)!Ask(w, <<Plan(s)!New(B, [status |-> "DRAFT", contract |-> k, version |-> n])>>)
    BY <2>0
  <2>2. n \in Nat
    <3>1. {x \in DOMAIN db[B] : db[B][x].contract = k} \subseteq DOMAIN db[B] /\ B \in DOMAIN db
      BY <1>1
    <3> QED BY <1>1, <2>1, <3>1, PlanCounted
  <2> PICK h : h = Plan(s)!New(B, [status |-> "DRAFT", contract |-> k, version |-> n])
    OBVIOUS
  <2>3. /\ h.op = "append" /\ h.c = B /\ h.row \in Plan(s)!PerformanceBlueprint /\ h.row.status = "DRAFT"
        /\ Plan(s)!Ask(w, <<h>>)
    BY <2>1, <2>2 DEF Plan!New, Plan!PerformanceBlueprint
  <2>4. Plan(s)!WriteSound(h) /\ PlanTimely(s, h)
    BY <1>1, <2>3 DEF Plan!WriteSound, Plan!WriteTyped, Plan!AppendSound, Plan!RowType, PlanTimely, Plan!TakesForce
  <2> QED BY <2>3, <2>4, PlanAsks
<1>3. CASE Plan(s)!DefineScope(w)
  <2>1. PICK b \in DOMAIN db[B], k \in {"INCLUDED", "EXCLUDED"} :
          Plan(s)!Ask(w, <<Plan(s)!New(I, [status |-> "DRAFT", blueprint |-> b, kind |-> k])>>)
    BY <1>3 DEF Plan!DefineScope
  <2>2. b \in Nat
    BY <1>1
  <2> PICK h : h = Plan(s)!New(I, [status |-> "DRAFT", blueprint |-> b, kind |-> k])
    OBVIOUS
  <2>3. h.op = "append" /\ h.c = I /\ h.row \in Plan(s)!ScopeItem /\ Plan(s)!Ask(w, <<h>>)
    BY <2>1, <2>2 DEF Plan!New, Plan!ScopeItem
  <2>4. Plan(s)!WriteSound(h) /\ PlanTimely(s, h)
    BY <1>1, <2>3 DEF Plan!WriteSound, Plan!WriteTyped, Plan!AppendSound, Plan!RowType, PlanTimely,
       Plan!TakesForce, Plan!Plans
  <2> QED BY <2>3, <2>4, PlanAsks
<1>4. CASE Plan(s)!ConfirmScope(w)
  <2>1. PICK x \in DOMAIN db[I] : Plan(s)!Ask(w, <<Plan(s)!PutScope(x, "CONFIRMED")>>)
    BY <1>4 DEF Plan!ConfirmScope
  <2> PICK r, h : r = db[I][x] /\ h = Plan(s)!PutScope(x, "CONFIRMED")
    OBVIOUS
  <2>2. r \in Plan(s)!ScopeItem
    BY <1>1 DEF Plan!RowType
  <2>3. [r EXCEPT !.status = "CONFIRMED"] \in Plan(s)!ScopeItem
    BY <2>2 DEF Plan!ScopeItem
  <2>4. /\ h.op = "replace" /\ h.c = I /\ h.id = x /\ h.row \in Plan(s)!ScopeItem
        /\ Plan(s)!Ask(w, <<h>>)
    BY <2>1, <2>3 DEF Plan!PutScope, Plan!Set, Plan!Put
  <2>5. Plan(s)!WriteSound(h) /\ PlanTimely(s, h)
    BY <1>1, <2>4 DEF Plan!WriteSound, Plan!WriteTyped, Plan!ReplaceSound, Plan!RowType, PlanTimely, Plan!Plans
  <2> QED BY <2>4, <2>5, PlanAsks DEF Plan!Plans
<1>5. CASE Plan(s)!DefineDeliverable(w)
  <2>1. PICK x \in DOMAIN db[I] :
          Plan(s)!Ask(w, <<Plan(s)!New(D, [status |-> "DRAFT", blueprint |-> db[I][x].blueprint])>>)
    BY <1>5 DEF Plan!DefineDeliverable
  <2> PICK b : b = db[I][x].blueprint
    OBVIOUS
  <2>2. b \in Nat
    BY <1>1 DEF Plan!RowType, Plan!ScopeItem
  <2> PICK h : h = Plan(s)!New(D, [status |-> "DRAFT", blueprint |-> b])
    OBVIOUS
  <2>3. h.op = "append" /\ h.c = D /\ h.row \in Plan(s)!Deliverable /\ Plan(s)!Ask(w, <<h>>)
    BY <2>1, <2>2 DEF Plan!New, Plan!Deliverable
  <2>4. Plan(s)!WriteSound(h) /\ PlanTimely(s, h)
    BY <1>1, <2>3 DEF Plan!WriteSound, Plan!WriteTyped, Plan!AppendSound, Plan!RowType, PlanTimely,
       Plan!TakesForce, Plan!Plans
  <2> QED BY <2>3, <2>4, PlanAsks
<1>6. CASE Plan(s)!ConfirmDeliverable(w)
  <2>1. PICK x \in DOMAIN db[D] : Plan(s)!Ask(w, <<Plan(s)!PutDeliverable(x, "CONFIRMED")>>)
    BY <1>6 DEF Plan!ConfirmDeliverable
  <2> PICK r, h : r = db[D][x] /\ h = Plan(s)!PutDeliverable(x, "CONFIRMED")
    OBVIOUS
  <2>2. r \in Plan(s)!Deliverable
    BY <1>1 DEF Plan!RowType
  <2>3. /\ [r EXCEPT !.status = "CONFIRMED"] \in Plan(s)!Deliverable
        /\ [r EXCEPT !.status = "CONFIRMED"].status = "CONFIRMED"
        /\ [r EXCEPT !.status = "CONFIRMED"].blueprint = r.blueprint
    BY <2>2 DEF Plan!Deliverable
  <2>4. /\ h.op = "replace" /\ h.c = D /\ h.id = x /\ h.row \in Plan(s)!Deliverable
        /\ h.row.status = "CONFIRMED" /\ h.row.blueprint = db[D][x].blueprint
        /\ Plan(s)!Ask(w, <<h>>)
    BY <2>1, <2>3 DEF Plan!PutDeliverable, Plan!Set, Plan!Put
  <2>5. Plan(s)!WriteSound(h) /\ PlanTimely(s, h)
    BY <1>1, <2>4 DEF Plan!WriteSound, Plan!WriteTyped, Plan!ReplaceSound, Plan!RowType, PlanTimely, Plan!Plans
  <2> QED BY <2>4, <2>5, PlanAsks DEF Plan!Plans
<1>7. CASE Plan(s)!DraftPackage(w)
  <2>0. PICK m \in DOMAIN db[M] : \E n :
          /\ n = 1 + Plan(s)!Cardinality({p \in DOMAIN db[P] : db[P][p].milestone = m})
          /\ Plan(s)!Ask(w, <<Plan(s)!New(P, [status |-> "DRAFT", milestone |-> m, version |-> n])>>)
    BY <1>7 DEF Plan!DraftPackage
  <2>1. PICK n :
          /\ n = 1 + Plan(s)!Cardinality({p \in DOMAIN db[P] : db[P][p].milestone = m})
          /\ Plan(s)!Ask(w, <<Plan(s)!New(P, [status |-> "DRAFT", milestone |-> m, version |-> n])>>)
    BY <2>0
  <2>2. n \in Nat \ {0} /\ m \in Nat
    <3>1. {p \in DOMAIN db[P] : db[P][p].milestone = m} \subseteq DOMAIN db[P] /\ P \in DOMAIN db
      BY <1>1
    <3>2. n \in Nat \ {0}
      BY <1>1, <2>1, <3>1, PlanCounted
    <3> QED BY <1>1, <3>2
  <2> PICK h : h = Plan(s)!New(P, [status |-> "DRAFT", milestone |-> m, version |-> n])
    OBVIOUS
  <2>3. /\ h.op = "append" /\ h.c = P /\ h.row \in Plan(s)!DodPackage /\ h.row.status = "DRAFT"
        /\ Plan(s)!Ask(w, <<h>>)
    BY <2>1, <2>2 DEF Plan!New, Plan!DodPackage
  <2>4. Plan(s)!WriteSound(h) /\ PlanTimely(s, h)
    BY <1>1, <2>3 DEF Plan!WriteSound, Plan!WriteTyped, Plan!AppendSound, Plan!RowType, PlanTimely, Plan!TakesForce
  <2> QED BY <2>3, <2>4, PlanAsks
<1> QED BY <1>2, <1>3, <1>4, <1>5, <1>6, <1>7

LEMMA PlanStarts ==
  ASSUME NEW s \in BlueprintScenes, Plan(s)!IInv, NEW w \in Cast[s].workers,
         \/ Plan(s)!Activate(w) \/ Plan(s)!Schedule(w) \/ Plan(s)!AddDependency(w) \/ Plan(s)!Publish(w)
  PROVE  PlanMoves(s, w)
<1> DEFINE B == "performanceBlueprints"
           P == "dodPackages"
           D == "deliverables"
           M == "blueprintMilestones"
<1> USE DEF Plan!Ids, Plan!InStatus
<1>1. /\ DOMAIN db = {B, "scopeItems", D, M, "milestoneSequenceEdges", P}
      /\ \A c \in DOMAIN db : /\ DOMAIN db[c] = 1..Len(db[c]) /\ Len(db[c]) \in Nat
                              /\ \A x \in DOMAIN db[c] : db[c][x] \in Plan(s)!RowType[c]
  BY PlanTables DEF Plan!IInv
<1>2. CASE Plan(s)!Activate(w)
  <2>1. PICK b \in DOMAIN db[B] : db[B][b].status = "DRAFT" /\ Plan(s)!Look(w, [at |-> "scope", id |-> b])
    BY <1>2 DEF Plan!Activate
  <2> PICK j : j = [at |-> "scope", id |-> b]
    OBVIOUS
  <2>2. Plan(s)!JobSound(j) /\ Plan(s)!Fresh(j) /\ Plan(s)!Kept(j)
    BY <2>1 DEF Plan!JobSound, Plan!Fresh, Plan!Kept
  <2> QED BY <2>1, <2>2, PlanReads
<1>3. CASE Plan(s)!Schedule(w)
  <2>0. PICK ds \in SUBSET DOMAIN db[D], p \in 1..Cast[s].percent :
          \E b \in {db[D][d].blueprint : d \in ds} :
            /\ \A d \in ds : Plan(s)!Schedulable(d) /\ db[D][d].blueprint = b
            /\ Plan(s)!Look(w, [at |-> "allocate",
                                row |-> [blueprint |-> b, deliverables |-> ds, percent |-> p]])
    BY <1>3 DEF Plan!Schedule
  <2>1. PICK b \in {db[D][d].blueprint : d \in ds} :
          /\ \A d \in ds : Plan(s)!Schedulable(d) /\ db[D][d].blueprint = b
          /\ Plan(s)!Look(w, [at |-> "allocate",
                              row |-> [blueprint |-> b, deliverables |-> ds, percent |-> p]])
    BY <2>0
  <2>2. ds \subseteq Nat /\ b \in Nat
    BY <1>1, <2>1 DEF Plan!RowType, Plan!Deliverable
  <2> PICK r, j : /\ r = [blueprint |-> b, deliverables |-> ds, percent |-> p]
                  /\ j = [at |-> "allocate", row |-> r]
    OBVIOUS
  <2>3. r \in Plan(s)!BlueprintMilestone /\ Plan(s)!Confirmed(r)
    BY <2>1, <2>2 DEF Plan!BlueprintMilestone, Plan!Confirmed, Plan!Schedulable
  <2>4. Plan(s)!JobSound(j) /\ Plan(s)!Fresh(j) /\ Plan(s)!Kept(j)
    BY <2>3 DEF Plan!JobSound, Plan!Fresh, Plan!Kept
  <2> QED BY <2>1, <2>4, PlanReads
<1>4. CASE Plan(s)!AddDependency(w)
  <2>1. PICK m \in DOMAIN db[M], n \in DOMAIN db[M] :
          m # n /\ Plan(s)!Look(w, [at |-> "edges", row |-> [pred |-> m, succ |-> n]])
    BY <1>4 DEF Plan!AddDependency
  <2>2. m \in Nat /\ n \in Nat
    BY <1>1
  <2> PICK r, j : r = [pred |-> m, succ |-> n] /\ j = [at |-> "edges", row |-> r]
    OBVIOUS
  <2>3. r \in Plan(s)!MilestoneSequenceEdge /\ Plan(s)!EndsExist(r) /\ r.pred # r.succ
    BY <2>1, <2>2 DEF Plan!MilestoneSequenceEdge, Plan!EndsExist
  <2>4. Plan(s)!JobSound(j) /\ Plan(s)!Fresh(j) /\ Plan(s)!Kept(j)
    BY <2>3 DEF Plan!JobSound, Plan!Fresh, Plan!Kept
  <2> QED BY <2>1, <2>4, PlanReads
<1>5. CASE Plan(s)!Publish(w)
  <2>1. PICK p \in DOMAIN db[P] : db[P][p].status = "DRAFT" /\ Plan(s)!Look(w, [at |-> "published", id |-> p])
    BY <1>5 DEF Plan!Publish
  <2> PICK j : j = [at |-> "published", id |-> p]
    OBVIOUS
  <2>2. Plan(s)!JobSound(j) /\ Plan(s)!Fresh(j) /\ Plan(s)!Kept(j)
    BY <2>1 DEF Plan!JobSound, Plan!Fresh, Plan!Kept
  <2> QED BY <2>1, <2>2, PlanReads
<1> QED BY <1>2, <1>3, <1>4, <1>5

LEMMA PlanGoesOn ==
  ASSUME NEW s \in BlueprintScenes, Plan(s)!IInv, NEW w \in Cast[s].workers,
         \/ Plan(s)!ReadScope(w) \/ Plan(s)!ReadMilestones(w) \/ Plan(s)!ReadPackages(w)
         \/ Plan(s)!Allocate(w) \/ Plan(s)!ReadEdges(w)
  PROVE  PlanMoves(s, w)
<1> DEFINE B == "performanceBlueprints"
           M == "blueprintMilestones"
           E == "milestoneSequenceEdges"
<1> USE DEF Plan!Ids, Plan!InStatus
<1>1. Plan(s)!Collections = DOMAIN db /\ M \in DOMAIN db /\ E \in DOMAIN db
  BY PlanTables DEF Plan!IInv
<1>2. /\ Plan(s)!JobSound(job[w])
      /\ PlanInTurn(s) => Plan(s)!Fresh(job[w])
      /\ PlanReliable(s) => Plan(s)!Kept(job[w]) /\ Plan(s)!Followed(job[w])
  BY DEF Plan!IInv, PlanInTurn, Plan!SerialInv, PlanReliable, Plan!ReliableInv
<1>3. job[w].at \in {"scope", "milestones", "packages", "allocate", "edges"}
  BY DEF Plan!ReadScope, Plan!ReadMilestones, Plan!ReadPackages, Plan!Allocate, Plan!ReadEdges, Plan!At
<1>4. CASE Plan(s)!GiveUp(w)
  <2>1. PlanReliable(s) => Plan(s)!Followed(Plan(s)!Idle)
    BY <1>3, PlanFollows
  <2> QED BY <1>4, <2>1, PlanGivesUp
<1> PICK b, row, ms : b = job[w].id /\ row = job[w].row /\ ms = job[w].milestones
  OBVIOUS
<1>5. CASE Plan(s)!ReadScope(w) /\ ~Plan(s)!GiveUp(w)
  <2> PICK j : j = [at |-> "milestones", id |-> b]
    OBVIOUS
  <2>1. job[w].at = "scope" /\ Plan(s)!Then(w, j)
    BY <1>5 DEF Plan!ReadScope, Plan!At
  <2>2. Plan(s)!JobSound(j) /\ Plan(s)!Fresh(j) /\ (Plan(s)!Kept(job[w]) => Plan(s)!Kept(j))
    BY <1>2, <2>1 DEF Plan!JobSound, Plan!Fresh, Plan!Kept
  <2> QED BY <1>2, <2>1, <2>2, PlanReads
<1>6. CASE Plan(s)!ReadMilestones(w) /\ ~Plan(s)!GiveUp(w)
  <2> PICK S, j : S = Plan(s)!Scheduled(b) /\ j = [at |-> "packages", id |-> b, milestones |-> S]
    OBVIOUS
  <2>1. job[w].at = "milestones" /\ Plan(s)!Then(w, j) /\ S # {}
    BY <1>6 DEF Plan!ReadMilestones, Plan!At
  <2>2. Plan(s)!JobSound(j) /\ Plan(s)!Fresh(j) /\ (Plan(s)!Kept(job[w]) => Plan(s)!Kept(j))
    BY <1>2, <2>1 DEF Plan!JobSound, Plan!Fresh, Plan!Kept
  <2> QED BY <1>2, <2>1, <2>2, PlanReads
<1>7. CASE Plan(s)!ReadPackages(w) /\ ~Plan(s)!GiveUp(w)
  <2> PICK j : j = [at |-> "active", id |-> b]
    OBVIOUS
  <2>1. job[w].at = "packages" /\ Plan(s)!Then(w, j) /\ \A m \in ms : Plan(s)!Done(m)
    BY <1>7 DEF Plan!ReadPackages, Plan!At
  <2>2. Plan(s)!Fresh(job[w]) => Plan(s)!Activatable(b)
    BY <2>1 DEF Plan!Fresh, Plan!Activatable
  <2>3. /\ Plan(s)!JobSound(j) /\ (Plan(s)!Fresh(job[w]) => Plan(s)!Fresh(j))
        /\ Plan(s)!Kept(job[w]) => Plan(s)!Kept(j)
    BY <1>2, <2>1, <2>2 DEF Plan!JobSound, Plan!Fresh, Plan!Kept
  <2> QED BY <1>2, <2>1, <2>3, PlanReads
<1>8. CASE Plan(s)!Allocate(w) /\ ~Plan(s)!GiveUp(w)
  <2> PICK h : h = Plan(s)!NewMilestone(row)
    OBVIOUS
  <2>1. job[w].at = "allocate" /\ Plan(s)!Decide(w, <<h>>) /\ Plan(s)!Fits(row)
    BY <1>8 DEF Plan!Allocate, Plan!At
  <2>2. /\ h.op = "append" /\ h.c = M /\ h.row = row
        /\ row \in Plan(s)!BlueprintMilestone /\ Plan(s)!Confirmed(row)
    BY <1>2, <2>1 DEF Plan!NewMilestone, Plan!New, Plan!JobSound
  <2>3. Plan(s)!WriteSound(h) /\ PlanTimely(s, h)
    BY <1>1, <2>1, <2>2 DEF Plan!WriteSound, Plan!WriteTyped, Plan!AppendSound, Plan!RowType, PlanTimely,
       Plan!TakesForce, Plan!Plans
  <2> QED BY <2>1, <2>2, <2>3, PlanAsks
<1>9. CASE Plan(s)!ReadEdges(w) /\ ~Plan(s)!GiveUp(w)
  <2> PICK h : h = Plan(s)!NewEdge(row)
    OBVIOUS
  <2>1. job[w].at = "edges" /\ Plan(s)!Decide(w, <<h>>) /\ ~Plan(s)!HasPath(row.succ, row.pred)
    BY <1>9 DEF Plan!ReadEdges, Plan!At
  <2>2. /\ h.op = "append" /\ h.c = E /\ h.row = row
        /\ row \in Plan(s)!MilestoneSequenceEdge /\ Plan(s)!EndsExist(row) /\ row.pred # row.succ
    BY <1>2, <2>1 DEF Plan!NewEdge, Plan!New, Plan!JobSound
  <2>3. Plan(s)!WriteSound(h) /\ PlanTimely(s, h)
    BY <1>1, <2>1, <2>2 DEF Plan!WriteSound, Plan!WriteTyped, Plan!AppendSound, Plan!RowType, PlanTimely,
       Plan!TakesForce, Plan!Plans
  <2> QED BY <2>1, <2>2, <2>3, PlanAsks
<1> QED BY <1>4, <1>5, <1>6, <1>7, <1>8, <1>9

(* Who takes the place of another first retires him, and there is one to   *)
(* retire at most.                                                         *)
LEMMA PlanHandsOver ==
  ASSUME NEW s \in BlueprintScenes, Plan(s)!IInv, NEW w \in Cast[s].workers, job[w].at # "write",
         NEW c \in Plan(s)!Plans, NEW x \in DOMAIN db[c], NEW k, k = Plan(s)!Owner(c, db[c][x]),
         NEW found \in Plan(s)!Listing(Plan(s)!InForceOf(c, k)),
         Plan(s)!Decide(w, Plan(s)!Supersede(c, found) \o <<Plan(s)!Set(c, x, Plan(s)!InForce(c))>>),
         PlanInTurn(s) /\ c = "performanceBlueprints" => Plan(s)!Activatable(x),
         PlanReliable(s) => db[c][x].status = "DRAFT"
  PROVE  PlanMoves(s, w)
<1> USE DEF Plan!Ids, Plan!InStatus
<1> DEFINE S == Plan(s)!InForceOf(c, k)
           n == Cardinality(S)
           T == Plan(s)!RowType[c]
           f == Plan(s)!Supersede(c, found)
           h == Plan(s)!Set(c, x, Plan(s)!InForce(c))
<1>1. /\ c \in DOMAIN db /\ Plan(s)!Collections = DOMAIN db
      /\ DOMAIN db[c] = 1..Len(db[c]) /\ Len(db[c]) \in Nat /\ \A y \in DOMAIN db[c] : db[c][y] \in T
  BY PlanTables DEF Plan!IInv, Plan!Plans
<1>2. ASSUME NEW r \in T, NEW to \in {"SUPERSEDED", Plan(s)!InForce(c)}
      PROVE  /\ [r EXCEPT !.status = to] \in T /\ [r EXCEPT !.status = to].status = to
             /\ Plan(s)!Owner(c, [r EXCEPT !.status = to]) = Plan(s)!Owner(c, r)
             /\ c = "performanceBlueprints" => [r EXCEPT !.status = to].version = r.version
  <2>1. CASE c = "performanceBlueprints"
    <3>1. T = Plan(s)!PerformanceBlueprint
      BY <2>1 DEF Plan!RowType
    <3> HIDE DEF T
    <3> QED BY <1>2, <2>1, <3>1 DEF Plan!PerformanceBlueprint, Plan!Owner, Plan!InForce
  <2>2. CASE c = "dodPackages"
    <3>1. T = Plan(s)!DodPackage
      BY <2>2 DEF Plan!RowType
    <3> HIDE DEF T
    <3> QED BY <1>2, <2>2, <3>1 DEF Plan!DodPackage, Plan!Owner, Plan!InForce
  <2> QED BY <2>1, <2>2 DEF Plan!Plans
<1>3. found \in [1..n -> S]
  <2>1. \A V : Plan(s)!Cardinality(V) = Cardinality(V)
    BY PlanCardinality
  <2> QED BY <2>1 DEF Plan!Listing
<1>4. \A y \in S : /\ y \in DOMAIN db[c] /\ Plan(s)!Owner(c, db[c][y]) = k
                   /\ db[c][y].status = Plan(s)!InForce(c)
  BY DEF Plan!InForceOf
<1>5. \A y, z \in S : y = z
  BY <1>4 DEF Plan!IInv, Plan!TablesSound, Plan!OneEach
<1>6. /\ n \in Nat /\ n <= 1 /\ (n = 0 => S = {})
  <2> PICK m : m = Len(db[c])
    OBVIOUS
  <2>1. m \in Nat /\ S \in SUBSET (1..m)
    BY <1>1, <1>4
  <2> HIDE DEF S
  <2>2. IsFiniteSet(S)
    <3>1. IsFiniteSet(1..m)
      BY <2>1, FS_Interval
    <3> QED BY <2>1, <3>1, FS_Subset
  <2>3. Cardinality(S) <= 1
    BY <1>5, <2>1, AtMostOne
  <2> QED BY <2>2, <2>3, FS_CardinalityType, FS_EmptySet
<1>7. /\ DOMAIN f = 1..n
      /\ \A i \in 1..n : found[i] \in S /\ f[i] = Plan(s)!Set(c, found[i], "SUPERSEDED")
  BY <1>3 DEF Plan!Supersede
<1>8. PICK R : f \in [1..n -> R]
  <2>1. f \in [1..n -> {f[i] : i \in 1..n}]
    BY <1>7 DEF Plan!Supersede
  <2> QED BY <2>1
<1>9. ASSUME NEW i \in 1..n
      PROVE  /\ f[i].op = "replace" /\ f[i].c = c /\ f[i].id = found[i] /\ f[i].row \in T
             /\ f[i].row.status = "SUPERSEDED"
             /\ Plan(s)!Owner(c, f[i].row) = Plan(s)!Owner(c, db[c][found[i]])
             /\ c = "performanceBlueprints" => f[i].row.version = db[c][found[i]].version
  <2> PICK y, r, g : y = found[i] /\ r = db[c][y] /\ g = f[i]
    OBVIOUS
  <2>1. r \in T /\ g = Plan(s)!Set(c, y, "SUPERSEDED")
    BY <1>1, <1>4, <1>7
  <2>2. g.op = "replace" /\ g.c = c /\ g.id = y /\ g.row = [r EXCEPT !.status = "SUPERSEDED"]
    BY <2>1 DEF Plan!Set, Plan!Put
  <2> HIDE DEF f, T
  <2>3. /\ [r EXCEPT !.status = "SUPERSEDED"] \in T
        /\ [r EXCEPT !.status = "SUPERSEDED"].status = "SUPERSEDED"
        /\ Plan(s)!Owner(c, [r EXCEPT !.status = "SUPERSEDED"]) = Plan(s)!Owner(c, r)
        /\ c = "performanceBlueprints" => [r EXCEPT !.status = "SUPERSEDED"].version = r.version
    BY <1>2, <2>1
  <2> QED BY <2>2, <2>3
<1>10. /\ h.op = "replace" /\ h.c = c /\ h.id = x /\ h.row \in T /\ h.row.status = Plan(s)!InForce(c)
       /\ Plan(s)!Owner(c, h.row) = k
       /\ c = "performanceBlueprints" => h.row.version = db[c][x].version
  <2> PICK r, g : r = db[c][x] /\ g = h
    OBVIOUS
  <2>1. r \in T
    BY <1>1
  <2>2. g.op = "replace" /\ g.c = c /\ g.id = x /\ g.row = [r EXCEPT !.status = Plan(s)!InForce(c)]
    BY DEF Plan!Set, Plan!Put
  <2> HIDE DEF h, T
  <2>3. /\ [r EXCEPT !.status = Plan(s)!InForce(c)] \in T
        /\ [r EXCEPT !.status = Plan(s)!InForce(c)].status = Plan(s)!InForce(c)
        /\ Plan(s)!Owner(c, [r EXCEPT !.status = Plan(s)!InForce(c)]) = Plan(s)!Owner(c, r)
        /\ c = "performanceBlueprints" => [r EXCEPT !.status = Plan(s)!InForce(c)].version = r.version
    BY <1>2, <2>1
  <2> QED BY <2>2, <2>3
<1> PICK t : t = f \o <<h>>
  OBVIOUS
<1>11. /\ ListedTodo(t) /\ DOMAIN t = 1..(n + 1) /\ Len(t) = n + 1 /\ t[n + 1] = h
       /\ \A i \in 1..n : t[i] = f[i]
  <2> HIDE DEF f, h, n, S
  <2>1. TodoOf(f \o <<h>>, n, f, h)
    BY <1>6, <1>8, TodoAppended
  <2> QED BY <2>1 DEF TodoOf
<1> PICK j : j = [at |-> "write", todo |-> t]
  OBVIOUS
<1>12. j.at = "write" /\ j.todo = t /\ job' = [job EXCEPT ![w] = j] /\ UNCHANGED db
  BY DEF Plan!Decide, Plan!Then, Plan!Carry
<1> HIDE DEF f, h, n, S, T
<1>13. ASSUME NEW i \in DOMAIN t
       PROVE  /\ t[i].op = "replace" /\ t[i].c = c /\ t[i].id \in DOMAIN db[c] /\ t[i].row \in T
              /\ Plan(s)!Owner(c, t[i].row) = Plan(s)!Owner(c, db[c][t[i].id])
              /\ c = "performanceBlueprints" => t[i].row.version = db[c][t[i].id].version
              /\ t[i].row.status = Plan(s)!InForce(c) => t[i].id = x
  <2>1. CASE i \in 1..n
    <3>1. t[i] = f[i] /\ found[i] \in S /\ Plan(s)!InForce(c) # "SUPERSEDED"
      BY <1>7, <1>11, <2>1 DEF Plan!InForce
    <3> QED BY <1>4, <1>9, <2>1, <3>1
  <2>2. CASE i = n + 1
    <3>1. t[i] = h
      BY <1>11, <2>2
    <3> QED BY <1>10, <2>2, <3>1
  <2> QED BY <1>6, <1>11, <2>1, <2>2
<1>14. c # "deliverables" /\ c \in {"performanceBlueprints", "dodPackages"}
  BY DEF Plan!Plans
<1>15. \A i \in DOMAIN t : Plan(s)!WriteSound(t[i])
  <2> SUFFICES ASSUME NEW i \in DOMAIN t PROVE Plan(s)!WriteSound(t[i])
    OBVIOUS
  <2> PICK g : g = t[i]
    OBVIOUS
  <2>1. /\ g.op = "replace" /\ g.c = c /\ g.id \in DOMAIN db[c] /\ g.row \in T
        /\ Plan(s)!Owner(c, g.row) = Plan(s)!Owner(c, db[c][g.id])
        /\ c = "performanceBlueprints" => g.row.version = db[c][g.id].version
    BY <1>13
  <2>2. Plan(s)!WriteTyped(g, Plan(s)!RowType)
    BY <1>1, <2>1 DEF Plan!WriteTyped, T
  <2>3. Plan(s)!ReplaceSound(g)
    BY <1>14, <2>1 DEF Plan!ReplaceSound
  <2> QED BY <2>1, <2>2, <2>3 DEF Plan!WriteSound
<1>16. Plan(s)!JobSound(j)
  BY <1>11, <1>12, <1>15 DEF Plan!JobSound, Plan!Listed, ListedTodo
<1>17. PlanInTurn(s) => Plan(s)!Fresh(j)
  <2> SUFFICES ASSUME PlanInTurn(s), NEW i \in DOMAIN t PROVE Plan(s)!FreshAt(t, i)
    BY <1>12 DEF Plan!Fresh
  <2> QED BY <1>13, <1>14 DEF Plan!FreshAt, Plan!TakesForce
<1>18. PlanReliable(s) => Plan(s)!Kept(j)
  <2>1. Plan(s)!Last(t) = h
    BY <1>11 DEF Plan!Last
  <2>2. Plan(s)!TakesForce(h)
    BY <1>10 DEF Plan!TakesForce
  <2>3. \/ Len(t) = 1 /\ S = {}
        \/ /\ Len(t) = 2 /\ t[1].op = "replace" /\ t[1].c = c /\ t[1].row.status = "SUPERSEDED"
           /\ t[1].id \in S
    <3>1. CASE n = 0
      BY <1>6, <1>11, <3>1
    <3>2. CASE n = 1
      <4>1. 1 \in 1..n /\ Len(t) = 2
        BY <1>11, <3>2
      <4> QED BY <1>7, <1>9, <1>11, <4>1
    <3> QED BY <1>6, <3>1, <3>2
  <2>4. PlanReliable(s) => Plan(s)!HandsOver(t)
    BY <1>10, <2>1, <2>2, <2>3 DEF Plan!HandsOver, S
  <2> QED BY <1>12, <2>4 DEF Plan!Kept
<1> QED BY <1>12, <1>16, <1>17, <1>18, PlanFollows DEF PlanMoves

LEMMA PlanReadsLast ==
  ASSUME NEW s \in BlueprintScenes, Plan(s)!IInv, NEW w \in Cast[s].workers,
         Plan(s)!ReadActive(w) \/ Plan(s)!ReadPublished(w)
  PROVE  PlanMoves(s, w)
<1> DEFINE B == "performanceBlueprints"
           P == "dodPackages"
<1> USE DEF Plan!Ids, Plan!InStatus
<1>1. /\ Plan(s)!JobSound(job[w])
      /\ PlanInTurn(s) => Plan(s)!Fresh(job[w])
      /\ PlanReliable(s) => Plan(s)!Kept(job[w])
  BY DEF Plan!IInv, PlanInTurn, Plan!SerialInv, PlanReliable, Plan!ReliableInv
<1> PICK x : x = job[w].id
  OBVIOUS
<1>2. CASE Plan(s)!ReadActive(w)
  <2> PICK k : k = Plan(s)!Owner(B, db[B][x])
    OBVIOUS
  <2>1. job[w].at = "active" /\ B \in Plan(s)!Plans /\ Plan(s)!InForce(B) = "ACTIVE" /\ k = db[B][x].contract
    BY <1>2 DEF Plan!ReadActive, Plan!At, Plan!Plans, Plan!InForce, Plan!Owner
  <2>2. /\ x \in DOMAIN db[B] /\ (PlanInTurn(s) => Plan(s)!Activatable(x))
        /\ PlanReliable(s) => db[B][x].status = "DRAFT"
    BY <1>1, <2>1 DEF Plan!JobSound, Plan!Fresh, Plan!Kept
  <2>3. Plan(s)!InForceOf(B, k) = Plan(s)!ActiveOf(k)
    BY <2>1 DEF Plan!InForceOf, Plan!ActiveOf, Plan!Owner
  <2>4. PICK found \in Plan(s)!Listing(Plan(s)!InForceOf(B, k)) :
          Plan(s)!Decide(w, Plan(s)!Supersede(B, found) \o <<Plan(s)!Set(B, x, Plan(s)!InForce(B))>>)
    BY <1>2, <2>1, <2>3 DEF Plan!ReadActive, Plan!PutBlueprint
  <2> QED BY <2>1, <2>2, <2>4, PlanHandsOver
<1>3. CASE Plan(s)!ReadPublished(w)
  <2> PICK k : k = Plan(s)!Owner(P, db[P][x])
    OBVIOUS
  <2>1. job[w].at = "published" /\ P \in Plan(s)!Plans /\ Plan(s)!InForce(P) = "PUBLISHED" /\ k = db[P][x].milestone
    BY <1>3 DEF Plan!ReadPublished, Plan!At, Plan!Plans, Plan!InForce, Plan!Owner
  <2>2. x \in DOMAIN db[P] /\ (PlanReliable(s) => db[P][x].status = "DRAFT")
    BY <1>1, <2>1 DEF Plan!JobSound, Plan!Kept
  <2>3. Plan(s)!InForceOf(P, k) = Plan(s)!PublishedOf(k)
    BY <2>1 DEF Plan!InForceOf, Plan!PublishedOf, Plan!Owner
  <2>4. PICK found \in Plan(s)!Listing(Plan(s)!InForceOf(P, k)) :
          Plan(s)!Decide(w, Plan(s)!Supersede(P, found) \o <<Plan(s)!Set(P, x, Plan(s)!InForce(P))>>)
    BY <1>3, <2>1, <2>3 DEF Plan!ReadPublished, Plan!PutPackage
  <2>5. P # "performanceBlueprints"
    OBVIOUS
  <2> QED BY <2>1, <2>2, <2>4, <2>5, PlanHandsOver
<1> QED BY <1>2, <1>3

(* Nothing refuses who retires his predecessor or takes the empty place.   *)
LEMMA PlanAdmits ==
  ASSUME NEW s, NEW t, ListedTodo(t), Plan(s)!HandsOver(t)
  PROVE  Plan(s)!Admits(Head(t)) /\ Head(t).op # "append"
<1> USE DEF Plan!Ids, Plan!InStatus
<1> PICK h, c, k : h = Head(t) /\ c = Plan(s)!Last(t).c /\ k = Plan(s)!Owner(c, Plan(s)!Last(t).row)
  OBVIOUS
<1>1. h = t[1] /\ Plan(s)!TakesForce(Plan(s)!Last(t)) /\ c \in Plan(s)!Plans
  BY TodoHead DEF Plan!HandsOver, Plan!TakesForce
<1>2. c \in {"performanceBlueprints", "dodPackages"} /\ Plan(s)!Terminal(c) = {"SUPERSEDED"}
  BY <1>1 DEF Plan!Plans, Plan!Terminal
<1>3. CASE Len(t) = 1 /\ Plan(s)!InForceOf(c, k) = {}
  <2>1. h = Plan(s)!Last(t)
    BY <1>1, <1>3 DEF Plan!Last
  <2>2. h.op = "replace" /\ h.c = c /\ h.row.status = Plan(s)!InForce(c) /\ db[c][h.id].status = "DRAFT"
    BY <1>1, <2>1 DEF Plan!TakesForce, Plan!HandsOver
  <2>3. \A x \in DOMAIN db[c] : db[c][x].status = Plan(s)!InForce(c) => Plan(s)!Owner(c, db[c][x]) # k
    BY <1>3 DEF Plan!InForceOf
  <2>4. Plan(s)!NoOther(h)
    BY <1>2, <2>1, <2>2, <2>3 DEF Plan!NoOther, Plan!Owner, Plan!InForce
  <2> QED BY <1>2, <2>2, <2>4 DEF Plan!Admits
<1>4. CASE /\ Len(t) = 2 /\ t[1].op = "replace" /\ t[1].c = c
           /\ t[1].row.status = "SUPERSEDED" /\ t[1].id \in Plan(s)!InForceOf(c, k)
  <2>1. h.op = "replace" /\ h.c = c /\ h.row.status = "SUPERSEDED" /\ db[c][h.id].status = Plan(s)!InForce(c)
    BY <1>1, <1>4 DEF Plan!InForceOf
  <2>2. Plan(s)!NoOther(h)
    BY <1>2, <2>1 DEF Plan!NoOther
  <2> QED BY <1>2, <2>1, <2>2 DEF Plan!Admits, Plan!InForce
<1> QED BY <1>3, <1>4 DEF Plan!HandsOver

(* One write of a reliable request: who is superseded has a successor, or  *)
(* it is written next.                                                     *)
LEMMA PlanSettles ==
  ASSUME NEW s \in BlueprintScenes, Plan(s)!IInv, NEW i, i.at = "write", ListedTodo(i.todo),
         Plan(s)!Kept(i), Plan(s)!Followed(i),
         \A n \in DOMAIN i.todo : Plan(s)!WriteSound(i.todo[n]),
         NEW h, h = Head(i.todo), Plan(s)!WriteSound(h), db' = Plan(s)!Written(h),
         NEW j, IF Tail(i.todo) = <<>> THEN j.at = "idle" ELSE j.at = "write" /\ j.todo = Tail(i.todo)
  PROVE  Plan(s)!Kept(j)' /\ Plan(s)!Followed(j)'
<1> USE DEF Plan!Ids, Plan!InStatus
<1> PICK t, u : t = i.todo /\ u = Tail(t)
  OBVIOUS
<1>1. /\ h = t[1] /\ Len(t) \in Nat \ {0} /\ DOMAIN t = 1..Len(t)
      /\ Len(t) = 1 => u = <<>>
  BY TodoHead
<1>2. /\ Plan(s)!Plans \subseteq DOMAIN db
      /\ Plan(s)!TablesTyped(Plan(s)!RowType) /\ Plan(s)!OneEach
  BY PlanTables DEF Plan!IInv, Plan!Plans, Plan!TablesSound
<1>3. Lands(db, db', h) /\ Keeps(db, db', h) /\ Adds(db, db', h)
  BY <1>2, PlanLands DEF Plan!WriteSound
<1>4. ASSUME NEW c \in Plan(s)!Plans, NEW y \in DOMAIN db'[c]
      PROVE  \/ y \in DOMAIN db[c] /\ db'[c][y] = db[c][y]
             \/ y \in DOMAIN db[c] /\ h.op = "replace" /\ h.c = c /\ h.id = y /\ db'[c][y] = h.row
             \/ h.op = "append" /\ h.c = c /\ db'[c][y].status = "DRAFT"
  <2>1. CASE y \in DOMAIN db[c]
    BY <1>2, <1>3, <2>1 DEF Keeps
  <2>2. CASE y \notin DOMAIN db[c]
    BY <1>2, <1>3, <2>2 DEF Adds, Plan!WriteSound, Plan!AppendSound
  <2> QED BY <2>1, <2>2
<1>5. ASSUME NEW c \in Plan(s)!Plans, NEW k, NEW z \in Plan(s)!InForceOf(c, k),
             ~(h.op = "replace" /\ h.c = c /\ h.id = z)
      PROVE  z \in Plan(s)!InForceOf(c, k)'
  <2>1. z \in DOMAIN db[c] /\ z \in DOMAIN db'[c] /\ db'[c][z] = db[c][z]
    BY <1>2, <1>3, <1>5 DEF Keeps, Plan!InForceOf
  <2> QED BY <1>5, <2>1 DEF Plan!InForceOf, Plan!Owner, Plan!InForce
<1>6. \A c \in Plan(s)!Plans : \A y \in DOMAIN db[c] : db[c][y].status = "SUPERSEDED" =>
        \/ Plan(s)!InForceOf(c, Plan(s)!Owner(c, db[c][y])) # {}
        \/ Plan(s)!Succeeds(i, c, Plan(s)!Owner(c, db[c][y]))
  BY DEF Plan!Followed
<1>7. \A c : Plan(s)!InForce(c) \notin {"DRAFT", "SUPERSEDED"}
  BY DEF Plan!InForce
<1>8. ASSUME \A c \in Plan(s)!Plans : \A y \in DOMAIN db'[c] : db'[c][y].status = "SUPERSEDED" =>
               \E k : /\ k = Plan(s)!Owner(c, db'[c][y])
                      /\ Plan(s)!InForceOf(c, k)' # {} \/ Plan(s)!Succeeds(j, c, k)
      PROVE  Plan(s)!Followed(j)'
  <2> SUFFICES ASSUME NEW c \in Plan(s)!Plans, NEW y \in DOMAIN db'[c], db'[c][y].status = "SUPERSEDED"
               PROVE  \/ Plan(s)!InForceOf(c, Plan(s)!Owner(c, db[c][y]))' # {}
                      \/ Plan(s)!Succeeds(j, c, Plan(s)!Owner(c, db[c][y]))'
    BY DEF Plan!Followed, Plan!Plans
  <2>1. PICK k : /\ k = Plan(s)!Owner(c, db'[c][y])
                 /\ Plan(s)!InForceOf(c, k)' # {} \/ Plan(s)!Succeeds(j, c, k)
    BY <1>8
  <2> QED BY <2>1 DEF Plan!InForceOf, Plan!Succeeds, Plan!Owner, Plan!Last, Plan!TakesForce, Plan!InForce, Plan!Plans
<1>9. CASE Plan(s)!HandsOver(t)
  <2> PICK g, c, k : g = Plan(s)!Last(t) /\ c = g.c /\ k = Plan(s)!Owner(c, g.row)
    OBVIOUS
  <2>1. /\ g.op = "replace" /\ c \in Plan(s)!Plans /\ g.row.status = Plan(s)!InForce(c)
        /\ db[c][g.id].status = "DRAFT"
    BY <1>9 DEF Plan!HandsOver, Plan!TakesForce
  <2>2. CASE Len(t) = 1 /\ Plan(s)!InForceOf(c, k) = {}
    <3>1. j.at = "idle" /\ g = h
      BY <1>1, <2>2 DEF Plan!Last
    <3>2. Plan(s)!Kept(j)'
      BY <3>1 DEF Plan!Kept
    <3>3. g.id \in Plan(s)!InForceOf(c, k)'
      <4>1. g.id \in DOMAIN db'[c] /\ db'[c][g.id] = g.row
        BY <1>3, <2>1, <3>1 DEF Lands, Place
      <4> QED BY <2>1, <4>1 DEF Plan!InForceOf, Plan!Owner, Plan!InForce
    <3>4. ASSUME NEW d \in Plan(s)!Plans, NEW y \in DOMAIN db'[d], db'[d][y].status = "SUPERSEDED",
                 NEW q, q = Plan(s)!Owner(d, db'[d][y])
          PROVE  Plan(s)!InForceOf(d, q)' # {}
      <4>1. y \in DOMAIN db[d] /\ db'[d][y] = db[d][y]
        BY <1>4, <1>7, <2>1, <3>1, <3>4
      <4>2. CASE Plan(s)!InForceOf(d, q) # {}
        <5>1. PICK z : z \in Plan(s)!InForceOf(d, q)
          BY <4>2
        <5>2. ~(h.op = "replace" /\ h.c = d /\ h.id = z)
          BY <1>7, <2>1, <3>1, <5>1 DEF Plan!InForceOf
        <5> QED BY <1>5, <5>1, <5>2
      <4>3. CASE Plan(s)!Succeeds(i, d, q)
        <5>1. d = c /\ q = k
          BY <4>3 DEF Plan!Succeeds
        <5> QED BY <3>3, <5>1
      <4> QED BY <1>6, <3>4, <4>1, <4>2, <4>3
    <3>5. Plan(s)!Followed(j)'
      BY <1>8, <3>4
    <3> QED BY <3>2, <3>5
  <2>3. CASE /\ Len(t) = 2 /\ t[1].op = "replace" /\ t[1].c = c
             /\ t[1].row.status = "SUPERSEDED" /\ t[1].id \in Plan(s)!InForceOf(c, k)
    <3>1. /\ h.op = "replace" /\ h.c = c /\ h.row.status = "SUPERSEDED" /\ h.id \in Plan(s)!InForceOf(c, k)
          /\ g = t[2]
      BY <1>1, <2>3 DEF Plan!Last
    <3>2. u # <<>>
      <4>1. PICK S : t \in Seq(S) /\ t # <<>>
        BY DEF ListedTodo
      <4>2. Len(u) = Len(t) - 1
        BY <4>1, HeadTailProperties
      <4>3. u = <<>> => Len(u) = 0
        BY EmptySeq
      <4>4. Len(t) = 2
        BY <2>3
      <4>5. Len(u) # 0
        BY <4>2, <4>4
      <4> QED BY <4>3, <4>5
    <3>3. j.at = "write" /\ j.todo = u /\ Len(u) = 1 /\ Plan(s)!Last(u) = g
      <4>1. /\ ListedTodo(u) /\ Len(u) = Len(t) - 1
            /\ \A n \in DOMAIN u : n \in Nat \ {0} /\ n + 1 \in DOMAIN t /\ u[n] = t[n + 1]
        BY <3>2, TodoTail
      <4>2. 1 \in DOMAIN u /\ Len(u) = 1
        <5>1. Len(t) = 2
          BY <2>3
        <5>2. Len(u) = 1
          BY <4>1, <5>1
        <5> QED BY <4>1, <5>2, TodoHead
      <4>3. u[1] = t[2]
        <5>1. u[1] = t[1 + 1] /\ 1 + 1 = 2
          BY <4>1, <4>2
        <5> QED BY <5>1
      <4> QED BY <3>1, <3>2, <4>2, <4>3 DEF Plan!Last
    <3>4. \A d, q : Plan(s)!Succeeds(j, d, q) <=> d = c /\ q = k
      BY <2>1, <3>3 DEF Plan!Succeeds, Plan!TakesForce
    <3>5. \A d, q : Plan(s)!Succeeds(i, d, q) => d = c /\ q = k
      BY DEF Plan!Succeeds
    <3>6. db'[c][g.id].status = "DRAFT"
      <4>1. h.id # g.id
        BY <1>7, <2>1, <3>1 DEF Plan!InForceOf
      <4>2. g.id \in DOMAIN db[c] => db'[c][g.id] = db[c][g.id]
        BY <1>2, <1>3, <2>1, <4>1 DEF Keeps
      <4>3. g.id \in DOMAIN db[c]
        <5>1. 2 \in DOMAIN t
          BY <1>1, <2>3
        <5> QED BY <2>1, <3>1, <5>1 DEF Plan!WriteSound, Plan!WriteTyped
      <4> QED BY <2>1, <4>2, <4>3
    <3>7. Plan(s)!InForceOf(c, k)' = {}
      <4> SUFFICES ASSUME NEW z \in Plan(s)!InForceOf(c, k)' PROVE FALSE
        OBVIOUS
      <4>1. z \in DOMAIN db'[c] /\ Plan(s)!Owner(c, db'[c][z]) = k /\ db'[c][z].status = Plan(s)!InForce(c)
        BY DEF Plan!InForceOf, Plan!Owner, Plan!InForce
      <4>2. z \in DOMAIN db[c] /\ db'[c][z] = db[c][z] /\ z # h.id
        <5>1. z # h.id
          <6>1. db'[c][h.id] = h.row
            BY <1>3, <3>1 DEF Lands, Place
          <6> QED BY <1>7, <3>1, <4>1, <6>1
        <5> QED BY <1>4, <1>7, <2>1, <3>1, <4>1, <5>1
      <4> QED BY <1>2, <2>1, <3>1, <4>1, <4>2 DEF Plan!OneEach, Plan!InForceOf
    <3>8. Plan(s)!Kept(j)'
      <4>1. Plan(s)!HandsOver(u)'
        BY <2>1, <3>3, <3>6, <3>7 DEF Plan!HandsOver, Plan!TakesForce, Plan!Last, Plan!Owner, Plan!InForce,
           Plan!Plans
      <4> QED BY <3>3, <4>1 DEF Plan!Kept
    <3>9. ASSUME NEW d \in Plan(s)!Plans, NEW y \in DOMAIN db'[d], db'[d][y].status = "SUPERSEDED",
                 NEW q, q = Plan(s)!Owner(d, db'[d][y])
          PROVE  Plan(s)!InForceOf(d, q)' # {} \/ Plan(s)!Succeeds(j, d, q)
      <4>1. CASE d = c /\ y = h.id
        <5>1. db'[d][y] = h.row /\ Plan(s)!Owner(c, h.row) = Plan(s)!Owner(c, db[c][h.id])
          BY <1>3, <3>1, <4>1 DEF Lands, Place, Plan!WriteSound, Plan!ReplaceSound
        <5>2. Plan(s)!Owner(c, db[c][h.id]) = k
          BY <3>1 DEF Plan!InForceOf
        <5> QED BY <3>4, <3>9, <4>1, <5>1, <5>2
      <4>2. CASE ~(d = c /\ y = h.id)
        <5>1. y \in DOMAIN db[d] /\ db'[d][y] = db[d][y]
          BY <1>4, <3>1, <3>9, <4>2
        <5>2. CASE Plan(s)!InForceOf(d, q) # {}
          <6>1. PICK z : z \in Plan(s)!InForceOf(d, q)
            BY <5>2
          <6>2. CASE h.c = d /\ h.id = z
            <7>1. q = k
              BY <3>1, <6>1, <6>2 DEF Plan!InForceOf
            <7> QED BY <3>1, <3>4, <6>2, <7>1
          <6>3. CASE ~(h.c = d /\ h.id = z)
            BY <1>5, <6>1, <6>3
          <6> QED BY <6>2, <6>3
        <5>3. CASE Plan(s)!Succeeds(i, d, q)
          BY <3>4, <3>5, <5>3
        <5> QED BY <1>6, <3>9, <5>1, <5>2, <5>3
      <4> QED BY <4>1, <4>2
    <3>10. Plan(s)!Followed(j)'
      BY <1>8, <3>9
    <3> QED BY <3>8, <3>10
  <2> QED BY <1>9, <2>2, <2>3 DEF Plan!HandsOver
<1>10. CASE Len(t) = 1 /\ ~(h.op = "replace" /\ h.c \in Plan(s)!Plans)
  <2>1. j.at = "idle"
    BY <1>1, <1>10
  <2>2. \A c, k : ~Plan(s)!Succeeds(i, c, k)
    BY <1>1, <1>10 DEF Plan!Succeeds, Plan!Last, Plan!TakesForce
  <2>3. ASSUME NEW d \in Plan(s)!Plans, NEW y \in DOMAIN db'[d], db'[d][y].status = "SUPERSEDED",
               NEW q, q = Plan(s)!Owner(d, db'[d][y])
        PROVE  Plan(s)!InForceOf(d, q)' # {}
    <3>1. y \in DOMAIN db[d] /\ db'[d][y] = db[d][y]
      BY <1>4, <1>10, <2>3
    <3>2. PICK z : z \in Plan(s)!InForceOf(d, q)
      BY <1>6, <2>2, <2>3, <3>1
    <3> QED BY <1>5, <1>10, <3>2
  <2>4. Plan(s)!Followed(j)'
    BY <1>8, <2>3
  <2> QED BY <2>1, <2>4 DEF Plan!Kept
<1> QED BY <1>1, <1>9, <1>10 DEF Plan!Kept

LEMMA PlanCommits ==
  ASSUME NEW s \in BlueprintScenes, Plan(s)!IInv, NEW w \in Cast[s].workers,
         Plan(s)!Commit(w, Plan(s)!Admits(Plan(s)!Due(w)))
  PROVE  PlanMoves(s, w) \/ PlanWrites(s, w)
<1> PICK i, t : i = job[w] /\ t = i.todo
  OBVIOUS
<1> PICK u, h : u = Tail(t) /\ h = Head(t)
  OBVIOUS
<1> PICK j : j = IF u = <<>> THEN Plan(s)!Idle ELSE [at |-> "write", todo |-> u]
  OBVIOUS
<1>1. /\ i.at = "write" /\ ListedTodo(t) /\ \A n \in DOMAIN t : Plan(s)!WriteSound(t[n])
      /\ PlanReliable(s) => Plan(s)!Kept(i) /\ Plan(s)!Followed(i)
      /\ PlanInTurn(s) => \A n \in DOMAIN t : Plan(s)!FreshAt(t, n)
  <2>1. i.at = "write"
    BY DEF Plan!Commit, Plan!At
  <2>2. Plan(s)!JobSound(i)
    BY DEF Plan!IInv
  <2>3. PlanReliable(s) => Plan(s)!Kept(i) /\ Plan(s)!Followed(i)
    BY DEF PlanReliable, Plan!ReliableInv
  <2>4. PlanInTurn(s) => Plan(s)!Fresh(i)
    BY DEF PlanInTurn, Plan!SerialInv
  <2> QED BY <2>1, <2>2, <2>3, <2>4 DEF Plan!JobSound, Plan!Listed, ListedTodo, Plan!Fresh
<1>2. DOMAIN t = 1..Len(t) /\ Len(t) \in Nat \ {0} /\ 1 \in DOMAIN t /\ h = t[1]
  BY <1>1, TodoHead
<1>3. CASE ~(Plan(s)!Admits(h) /\ h.op # "append") /\ Plan(s)!GiveUp(w)
  <2>1. PlanReliable(s) => Plan(s)!Followed(Plan(s)!Idle)
    <3> SUFFICES ASSUME PlanReliable(s) PROVE Plan(s)!Followed(Plan(s)!Idle)
      OBVIOUS
    <3>1. Len(t) = 1 /\ ~(t[1].op = "replace" /\ t[1].c \in Plan(s)!Plans)
      BY <1>1, <1>3, PlanAdmits DEF Plan!Kept
    <3>2. \A c, k : ~Plan(s)!Succeeds(i, c, k)
      BY <3>1 DEF Plan!Succeeds, Plan!TakesForce, Plan!Last
    <3> QED BY <1>1, <3>2 DEF Plan!Followed
  <2> QED BY <1>3, <2>1, PlanGivesUp
<1>4. CASE /\ Plan(s)!Admits(h) /\ db' = Plan(s)!Written(h)
           /\ IF u = <<>> THEN Plan(s)!Return(w) ELSE Plan(s)!Carry(w, [at |-> "write", todo |-> u])
  <2>1. job' = [job EXCEPT ![w] = j] /\ (IF u = <<>> THEN j.at = "idle" ELSE j.at = "write" /\ j.todo = u)
    BY <1>4 DEF Plan!Return, Plan!Carry, Plan!Idle
  <2>2. Plan(s)!WriteSound(h) /\ Plan(s)!TablesTyped(Plan(s)!RowType)
    BY <1>1, <1>2 DEF Plan!IInv
  <2>3. PlanGrows(s) /\ \A g : Plan(s)!WriteSound(g) => Plan(s)!WriteSound(g)'
    BY <1>4, <2>2, PlanGrowing, PlanSteady
  <2>4. u # <<>> =>
          /\ ListedTodo(u)
          /\ \A n \in DOMAIN u : n \in Nat \ {0} /\ n + 1 \in DOMAIN t /\ u[n] = t[n + 1]
    BY <1>1, TodoTail
  <2>5. Plan(s)!JobSound(j)'
    <3>1. CASE u = <<>>
      BY <2>1, <3>1 DEF Plan!JobSound
    <3>2. CASE u # <<>>
      <4>1. ASSUME NEW n \in DOMAIN u PROVE Plan(s)!WriteSound(u[n])'
        <5> PICK g : g = u[n]
          OBVIOUS
        <5>1. Plan(s)!WriteSound(g)
          BY <1>1, <2>4, <3>2
        <5>2. Plan(s)!WriteSound(g)'
          BY <2>3, <5>1
        <5> QED BY <5>2
      <4>2. j.at = "write" /\ j.todo = u
        BY <2>1, <3>2
      <4>3. Plan(s)!Listed(u)
        BY <2>4, <3>2 DEF Plan!Listed, ListedTodo
      <4> QED BY <4>1, <4>2, <4>3 DEF Plan!JobSound, Plan!Listed
    <3> QED BY <3>1, <3>2
  <2>6. PlanInTurn(s) => PlanTimely(s, h)
    BY <1>1, <1>2 DEF Plan!FreshAt, PlanTimely
  <2>7. PlanInTurn(s) => Plan(s)!Fresh(j)'
    <3> SUFFICES ASSUME PlanInTurn(s), u # <<>>, NEW n \in DOMAIN u PROVE Plan(s)!FreshAt(u, n)'
      BY <2>1 DEF Plan!Fresh
    <3> PICK k, e : k = n + 1 /\ e = u[n]
      OBVIOUS
    <3>1. k \in DOMAIN t /\ t[k] = e /\ k # 1 /\ Plan(s)!FreshAt(t, k)
      BY <1>1, <2>4
    <3>2. e.c # "blueprintMilestones" /\ e.c # "milestoneSequenceEdges"
      BY <3>1 DEF Plan!FreshAt
    <3>3. ASSUME Plan(s)!TakesForce(e), e.c = "performanceBlueprints"
          PROVE  /\ Plan(s)!Activatable(e.id)'
                 /\ \A m \in DOMAIN u : u[m].c = "performanceBlueprints"
      <4>1. Plan(s)!Activatable(e.id) /\ \A m \in DOMAIN t : t[m].c = "performanceBlueprints"
        BY <3>1, <3>3 DEF Plan!FreshAt
      <4>2. h.c = "performanceBlueprints" /\ \A m \in DOMAIN u : u[m].c = "performanceBlueprints"
        BY <1>2, <2>4, <4>1
      <4>3. db'["blueprintMilestones"] = db["blueprintMilestones"] /\ db'["dodPackages"] = db["dodPackages"]
        <5>1. Lands(db, db', h)
          BY <1>4, <2>2, PlanLands DEF Plan!WriteSound
        <5> QED BY <2>2, <4>2, <5>1, PlanTables DEF Lands
      <4> PICK b : b = e.id
        OBVIOUS
      <4>4. Plan(s)!Activatable(b)
        BY <4>1
      <4>5. Plan(s)!Activatable(b)'
        BY <4>3, <4>4 DEF Plan!Activatable, Plan!Scheduled, Plan!Done, Plan!InStatus, Plan!Ids
      <4> QED BY <4>2, <4>5
    <3> QED BY <3>2, <3>3 DEF Plan!FreshAt, Plan!TakesForce
  <2>8. PlanReliable(s) => Plan(s)!Kept(j)' /\ Plan(s)!Followed(j)'
    BY <1>1, <1>4, <2>1, <2>2, PlanSettles
  <2> QED BY <1>4, <2>1, <2>2, <2>5, <2>6, <2>7, <2>8 DEF PlanWrites
<1> QED BY <1>3, <1>4 DEF Plan!Commit, Plan!Due

LEMMA PlanSteps ==
  ASSUME NEW s \in BlueprintScenes, Plan(s)!IInv, [Plan(s)!Next]_<<db, job>>
  PROVE  \E w \in Cast[s].workers : PlanMoves(s, w) \/ PlanWrites(s, w)
<1>1. CASE \E w \in Cast[s].workers : Plan(s)!Handle(w)
  <2>1. PICK w \in Cast[s].workers : Plan(s)!Handle(w)
    BY <1>1
  <2>2. \/ Plan(s)!Draft(w) \/ Plan(s)!DefineScope(w) \/ Plan(s)!ConfirmScope(w)
        \/ Plan(s)!DefineDeliverable(w) \/ Plan(s)!ConfirmDeliverable(w) \/ Plan(s)!DraftPackage(w)
        \/ Plan(s)!Activate(w) \/ Plan(s)!Schedule(w) \/ Plan(s)!AddDependency(w) \/ Plan(s)!Publish(w)
    BY <2>1 DEF Plan!Handle
  <2> QED BY <2>2, PlanDefines, PlanStarts
<1>2. CASE \E w \in Cast[s].workers : Plan(s)!Continue(w)
  <2>1. PICK w \in Cast[s].workers : Plan(s)!Continue(w)
    BY <1>2
  <2>2. \/ Plan(s)!ReadScope(w) \/ Plan(s)!ReadMilestones(w) \/ Plan(s)!ReadPackages(w)
        \/ Plan(s)!Allocate(w) \/ Plan(s)!ReadEdges(w)
        \/ Plan(s)!ReadActive(w) \/ Plan(s)!ReadPublished(w)
        \/ Plan(s)!Commit(w, Plan(s)!Admits(Plan(s)!Due(w)))
    BY <2>1 DEF Plan!Continue
  <2> QED BY <2>2, PlanGoesOn, PlanReadsLast, PlanCommits
<1>3. CASE \E w \in Cast[s].mortals : Plan(s)!Die(w)
  <2>1. PICK w \in Cast[s].mortals : Plan(s)!Die(w)
    BY <1>3
  <2>2. w \in Cast[s].workers /\ Plan(s)!GiveUp(w)
    BY <2>1, DeliveryAssumption DEF Plan!BlueprintAssumption, Plan!Die, Plan!Crash, Plan!GiveUp
  <2>3. ~PlanReliable(s)
    BY <2>1 DEF PlanReliable, Plan!Reliable, Plan!Deathless
  <2> QED BY <2>2, <2>3, PlanGivesUp
<1>4. CASE UNCHANGED <<db, job>>
  <2>1. PICK w \in Cast[s].workers : TRUE
    BY DeliveryAssumption DEF Plan!BlueprintAssumption
  <2>2. job' = [job EXCEPT ![w] = job[w]] /\ Plan(s)!JobSound(job[w])
    BY <1>4, CarryStays DEF Plan!IInv
  <2>3. PlanMoves(s, w)
    BY <1>4, <2>2 DEF PlanMoves, PlanInTurn, PlanReliable, Plan!SerialInv, Plan!ReliableInv
  <2> QED BY <2>3
<1> QED BY <1>1, <1>2, <1>3, <1>4 DEF Plan!Next, Plan!Proceed

LEMMA PlanInit ==
  ASSUME NEW s \in BlueprintScenes, Plan(s)!Empty
  PROVE  Plan(s)!IInv /\ Plan(s)!SerialInv /\ Plan(s)!ReliableInv
<1> DEFINE Cs == {"performanceBlueprints", "scopeItems", "deliverables", "blueprintMilestones",
                  "milestoneSequenceEdges", "dodPackages"}
<1>1. /\ db = [c \in Plan(s)!Collections |-> <<>>]
      /\ job = [w \in Cast[s].workers |-> Plan(s)!Idle]
      /\ Plan(s)!Collections = DOMAIN Plan(s)!RowType
  BY DeliveryAssumption DEF Plan!Empty, Plan!BlueprintAssumption
<1>2. /\ DOMAIN db = Plan(s)!Collections /\ \A c \in Plan(s)!Collections : db[c] = <<>>
      /\ \A c \in Cs : db[c] = <<>>
  BY <1>1 DEF Plan!RowType
<1>3. Plan(s)!TablesTyped(Plan(s)!RowType)
  <2>1. \A T : <<>> \in Seq(T)
    OBVIOUS
  <2> QED BY <1>2, <2>1 DEF Plan!TablesTyped
<1>4. \A c \in Cs : Plan(s)!Ids(c) = {}
  BY <1>2 DEF Plan!Ids
<1>5. Plan(s)!TablesSound /\ Plan(s)!Bounded /\ Plan(s)!EdgesAcyclic
  <2>1. Plan(s)!OneEach
    BY <1>4 DEF Plan!OneEach, Plan!Plans
  <2>2. Plan(s)!VersionedOnce
    BY <1>4 DEF Plan!VersionedOnce
  <2>3. Plan(s)!Bounded /\ Plan(s)!EdgesAcyclic
    BY <1>4 DEF Plan!Bounded, Plan!EdgesAcyclic
  <2> QED BY <1>4, <2>1, <2>2, <2>3 DEF Plan!TablesSound
<1>6. ASSUME NEW w \in Cast[s].workers
      PROVE  /\ Plan(s)!JobSound(job[w]) /\ Plan(s)!Fresh(job[w])
             /\ Plan(s)!Kept(job[w]) /\ Plan(s)!Followed(job[w])
  <2>1. job[w].at = "idle"
    BY <1>1 DEF Plan!Idle
  <2>2. Plan(s)!Followed(job[w])
    BY <1>4 DEF Plan!Followed, Plan!Plans
  <2> QED BY <2>1, <2>2 DEF Plan!JobSound, Plan!Fresh, Plan!Kept
<1>7. job = [w \in Cast[s].workers |-> job[w]]
  BY <1>1
<1> QED BY <1>3, <1>5, <1>6, <1>7 DEF Plan!IInv, Plan!SerialInv, Plan!ReliableInv

LEMMA PlanPreserves ==
  ASSUME NEW s \in BlueprintScenes, Plan(s)!IInv, [Plan(s)!Next]_<<db, job>>
  PROVE  Plan(s)!IInv'
<1>1. PICK w \in Cast[s].workers : PlanMoves(s, w) \/ PlanWrites(s, w)
  BY PlanSteps
<1>2. /\ job = [v \in Cast[s].workers |-> job[v]] /\ \A v \in Cast[s].workers : Plan(s)!JobSound(job[v])
      /\ Plan(s)!TablesTyped(Plan(s)!RowType) /\ Plan(s)!TablesSound
  BY DEF Plan!IInv
<1>3. CASE PlanMoves(s, w)
  <2>1. PICK j : job' = [job EXCEPT ![w] = j] /\ UNCHANGED db /\ Plan(s)!JobSound(j)
    BY <1>3 DEF PlanMoves
  <2>2. job' = [v \in Cast[s].workers |-> job'[v]] /\ \A v \in Cast[s].workers : Plan(s)!JobSound(job'[v])
    BY <1>2, <2>1, CarryMoves
  <2>3. \A i : Plan(s)!JobSound(i) => Plan(s)!JobSound(i)'
    BY <1>2, <2>1, PlanSame, PlanSteady
  <2>4. Plan(s)!TablesTyped(Plan(s)!RowType)'
    BY <1>2, <2>1 DEF Plan!TablesTyped
  <2>5. Plan(s)!TablesSound'
    <3> USE DEF Plan!Ids, Plan!InStatus
    <3>1. Plan(s)!OneEach'
      BY <1>2, <2>1 DEF Plan!TablesSound, Plan!OneEach
    <3>2. Plan(s)!VersionedOnce'
      BY <1>2, <2>1 DEF Plan!TablesSound, Plan!VersionedOnce
    <3>3. \A m \in DOMAIN db'["blueprintMilestones"] : Plan(s)!Confirmed(db["blueprintMilestones"][m])'
      BY <1>2, <2>1 DEF Plan!TablesSound, Plan!Confirmed
    <3>4. \A e \in DOMAIN db'["milestoneSequenceEdges"] : Plan(s)!EndsExist(db["milestoneSequenceEdges"][e])'
      BY <1>2, <2>1 DEF Plan!TablesSound, Plan!EndsExist
    <3> QED BY <3>1, <3>2, <3>3, <3>4 DEF Plan!TablesSound
  <2> QED BY <2>2, <2>3, <2>4, <2>5 DEF Plan!IInv
<1>4. CASE PlanWrites(s, w)
  <2>1. PICK h, j : /\ job' = [job EXCEPT ![w] = j] /\ Plan(s)!Admits(h) /\ db' = Plan(s)!Written(h)
                    /\ Plan(s)!WriteSound(h) /\ Plan(s)!JobSound(j)'
    BY <1>4 DEF PlanWrites
  <2>2. Plan(s)!WriteTyped(h, Plan(s)!RowType)
    BY <2>1 DEF Plan!WriteSound
  <2>3. Plan(s)!TablesTyped(Plan(s)!RowType)'
    BY <1>2, <2>1, <2>2, PlanLands
  <2>4. PlanGrows(s)
    BY <1>2, <2>1, PlanGrowing
  <2>5. Plan(s)!TablesSound'
    BY <1>2, <2>1, PlanSound
  <2>6. \A i : Plan(s)!JobSound(i) => Plan(s)!JobSound(i)'
    BY <1>2, <2>4, PlanSteady
  <2>7. /\ job' = [v \in Cast[s].workers |-> job'[v]] /\ job'[w] = j
        /\ \A v \in Cast[s].workers \ {w} : job'[v] = job[v]
    BY <1>2, <2>1, CarryMoves
  <2>8. \A v \in Cast[s].workers : Plan(s)!JobSound(job[v])'
    <3> SUFFICES ASSUME NEW v \in Cast[s].workers PROVE Plan(s)!JobSound(job[v])'
      OBVIOUS
    <3> PICK i : i = job'[v]
      OBVIOUS
    <3>1. i = j \/ (i = job[v] /\ Plan(s)!JobSound(i))
      BY <1>2, <2>7
    <3>2. Plan(s)!JobSound(i)'
      BY <2>1, <2>6, <3>1
    <3> QED BY <3>2
  <2> QED BY <2>3, <2>5, <2>7, <2>8 DEF Plan!IInv
<1> QED BY <1>1, <1>3, <1>4

(* What the milestones of a blueprint are allocated, by units.             *)
LEMMA PlanShares ==
  ASSUME NEW s \in BlueprintScenes, Plan(s)!TablesTyped(Plan(s)!RowType), NEW h, Plan(s)!WriteSound(h),
         db' = Plan(s)!Written(h), NEW b,
         IF h.c = "blueprintMilestones" /\ h.row.blueprint = b THEN Plan(s)!Fits(h.row)
         ELSE Plan(s)!Allocated(Plan(s)!Scheduled(b)) <= Cast[s].percent
  PROVE  (Plan(s)!Allocated(Plan(s)!Scheduled(b)))' <= Cast[s].percent
<1> DEFINE M == db["blueprintMilestones"]
           K(D) == {y \in DOMAIN D : D[y].blueprint = b}
           W(D) == [y \in DOMAIN D |-> D[y].percent]
           A == Units(K(M), W(M))
           B == Units(K(M'), W(M'))
           p == Cast[s].percent
<1> USE DEF Plan!Ids
<1>1. /\ "blueprintMilestones" \in DOMAIN db /\ DOMAIN M = 1..Len(M) /\ Len(M) \in Nat
      /\ \A x \in DOMAIN M : M[x] \in Plan(s)!BlueprintMilestone
      /\ p \in Nat
  <2>1. p \in Nat
    BY DeliveryAssumption DEF Plan!BlueprintAssumption
  <2> QED BY <2>1, PlanTables DEF Plan!RowType
<1>2. Lands(db, db', h) /\ Keeps(db, db', h) /\ Adds(db, db', h)
  BY PlanLands DEF Plan!WriteSound
<1>3. (Plan(s)!Allocated(Plan(s)!Scheduled(b)))' = Cardinality(B)
  BY PlanCardinality DEF Plan!Allocated, Plan!Scheduled, Plan!Percent, Units
<1>4. Plan(s)!Allocated(Plan(s)!Scheduled(b)) = Cardinality(A)
  BY PlanCardinality DEF Plan!Allocated, Plan!Scheduled, Plan!Percent, Units
<1>5. IsFiniteSet(A) /\ Cardinality(A) \in Nat /\ \A x \in DOMAIN M : M[x].percent \in 1..p
  <2> HIDE DEF M, p
  <2>1. \A x \in DOMAIN M : M[x].percent \in 1..p
    BY <1>1 DEF Plan!BlueprintMilestone, p
  <2>2. K(M) \subseteq 1..Len(M) /\ \A x \in K(M) : W(M)[x] \in 0..p
    BY <1>1, <2>1
  <2> HIDE DEF K, W
  <2> QED BY <1>1, <2>1, <2>2, UnitsFinite
<1>6. CASE h.c = "blueprintMilestones" /\ h.row.blueprint = b
  <2> DEFINE n == h.row.percent
             k == Place(db, h)
  <2>1. h.op = "append" /\ n \in Nat
    BY <1>1, <1>6 DEF Plan!WriteSound, Plan!WriteTyped, Plan!ReplaceSound, Plan!RowType, Plan!BlueprintMilestone
  <2>2. Cardinality(A) + n <= p
    BY <1>4, <1>6 DEF Plan!Fits
  <2>3. /\ DOMAIN M' = DOMAIN M \cup {k} /\ M'[k] = h.row
        /\ \A y \in DOMAIN M \ {k} : M'[y] = M[y]
    BY <1>2, <1>6 DEF Lands
  <2>4. B \subseteq A \cup ({k} \X (1..n))
    <3> HIDE DEF M, k
    <3> QED BY <2>3 DEF Units
  <2> HIDE DEF A, B, p, n, k
  <2>5. Cardinality(B) <= Cardinality(A) + n /\ Cardinality(B) \in Nat
    BY <1>5, <2>1, <2>4, UnitsGrow
  <2>6. Cardinality(B) <= p
    BY <1>1, <1>5, <2>1, <2>2, <2>5
  <2> QED BY <1>3, <2>6 DEF p
<1>7. CASE ~(h.c = "blueprintMilestones" /\ h.row.blueprint = b)
  <2>1. \A y \in DOMAIN M : y \in DOMAIN M' /\ M'[y] = M[y]
    BY <1>1, <1>2 DEF Keeps, Plan!WriteSound, Plan!ReplaceSound
  <2>2. \A y \in DOMAIN M' : y \in DOMAIN M \/ M'[y].blueprint # b
    BY <1>1, <1>2, <1>7 DEF Adds
  <2> HIDE DEF M
  <2>3. K(M') = K(M) /\ \A y \in K(M) : W(M')[y] = W(M)[y]
    BY <2>1, <2>2
  <2> HIDE DEF K, W
  <2>4. B = A
    BY <2>3, UnitsSame
  <2> QED BY <1>3, <1>4, <1>7, <2>4
<1> QED BY <1>6, <1>7

LEMMA PlanStaysBounded ==
  ASSUME NEW s \in BlueprintScenes, Plan(s)!TablesTyped(Plan(s)!RowType), NEW h, Plan(s)!WriteSound(h),
         db' = Plan(s)!Written(h), Plan(s)!Bounded, PlanTimely(s, h)
  PROVE  Plan(s)!Bounded'
<1> DEFINE M == "blueprintMilestones"
<1> USE DEF Plan!Ids
<1> SUFFICES ASSUME NEW m \in DOMAIN db'[M]
             PROVE  (Plan(s)!Allocated(Plan(s)!Scheduled(db[M][m].blueprint)))' <= Cast[s].percent
  BY DEF Plan!Bounded
<1> PICK b : b = db'[M][m].blueprint
  OBVIOUS
<1>1. Adds(db, db', h) /\ Keeps(db, db', h) /\ M \in DOMAIN db
  BY PlanLands, PlanTables DEF Plan!WriteSound
<1>2. CASE h.c = M /\ h.row.blueprint = b
  <2>1. Plan(s)!Fits(h.row)
    BY <1>2 DEF PlanTimely
  <2>2. (Plan(s)!Allocated(Plan(s)!Scheduled(b)))' <= Cast[s].percent
    BY <1>2, <2>1, PlanShares
  <2> QED BY <2>2 DEF Plan!Allocated, Plan!Scheduled, Plan!Percent
<1>3. CASE ~(h.c = M /\ h.row.blueprint = b)
  <2>1. m \in DOMAIN db[M] /\ db'[M][m] = db[M][m]
    BY <1>1, <1>3 DEF Adds, Keeps, Plan!WriteSound, Plan!ReplaceSound
  <2>2. Plan(s)!Allocated(Plan(s)!Scheduled(b)) <= Cast[s].percent
    BY <2>1 DEF Plan!Bounded
  <2>3. (Plan(s)!Allocated(Plan(s)!Scheduled(b)))' <= Cast[s].percent
    BY <1>3, <2>2, PlanShares
  <2> QED BY <2>3 DEF Plan!Allocated, Plan!Scheduled, Plan!Percent
<1> QED BY <1>2, <1>3

(* The order of the milestones, as a set of edges.                         *)
LEMMA PlanOrdered ==
  ASSUME NEW s \in BlueprintScenes
  PROVE  /\ \A p, q : Plan(s)!HasPath(p, q)
                        <=> PathIn(Plan(s)!Edges, DOMAIN db["blueprintMilestones"], p, q)
         /\ Plan(s)!EdgesAcyclic <=> NoCycle(Plan(s)!Edges, DOMAIN db["blueprintMilestones"])
         /\ Plan(s)!EdgesAcyclic' <=> NoCycle(Plan(s)!Edges', DOMAIN db'["blueprintMilestones"])
<1>1. \A p, q : Plan(s)!HasPath(p, q)
                  <=> PathIn(Plan(s)!Edges, DOMAIN db["blueprintMilestones"], p, q)
  BY DEF Plan!HasPath, Plan!After, PathIn, AfterIn, Plan!Ids
<1>2. ASSUME NEW m
      PROVE  Plan(s)!HasPath(m, m)' <=> PathIn(Plan(s)!Edges', DOMAIN db'["blueprintMilestones"], m, m)
  BY DEF Plan!HasPath, Plan!After, PathIn, AfterIn, Plan!Ids
<1>3. Plan(s)!EdgesAcyclic <=> NoCycle(Plan(s)!Edges, DOMAIN db["blueprintMilestones"])
  BY <1>1 DEF Plan!EdgesAcyclic, NoCycle, Plan!Ids
<1>4. Plan(s)!EdgesAcyclic' <=> NoCycle(Plan(s)!Edges', DOMAIN db'["blueprintMilestones"])
  BY <1>2 DEF Plan!EdgesAcyclic, NoCycle, Plan!Ids
<1> QED BY <1>1, <1>3, <1>4

LEMMA PlanStaysOrdered ==
  ASSUME NEW s \in BlueprintScenes, Plan(s)!IInv, NEW h, Plan(s)!EdgesAcyclic,
         Plan(s)!WriteSound(h), PlanTimely(s, h), db' = Plan(s)!Written(h)
  PROVE  Plan(s)!EdgesAcyclic'
<1> DEFINE M == "blueprintMilestones"
           D == "milestoneSequenceEdges"
           E == Plan(s)!Edges
           F == Plan(s)!Edges'
<1>1. /\ M \in DOMAIN db /\ D \in DOMAIN db
      /\ \A x \in DOMAIN db[D] : db[D][x] \in Plan(s)!MilestoneSequenceEdge
      /\ DOMAIN db[D] = 1..Len(db[D]) /\ Len(db[D]) \in Nat
  BY PlanTables DEF Plan!IInv, Plan!RowType
<1>2. Lands(db, db', h)
  BY PlanLands DEF Plan!IInv, Plan!WriteSound
<1>3. E = {db[D][x] : x \in DOMAIN db[D]} /\ F = {db'[D][x] : x \in DOMAIN db'[D]}
  BY DEF Plan!Edges, Plan!Ids
<1>4. NoCycle(E, DOMAIN db[M])
  BY PlanOrdered
<1>5. CASE h.c = D
  <2> PICK p, q : p = h.row.pred /\ q = h.row.succ
    OBVIOUS
  <2>1. h.op = "append" /\ h.row \in Plan(s)!MilestoneSequenceEdge
    BY <1>5 DEF Plan!WriteSound, Plan!ReplaceSound, Plan!WriteTyped, Plan!RowType
  <2>2. h.row = [pred |-> p, succ |-> q]
    BY <2>1 DEF Plan!MilestoneSequenceEdge
  <2>3. q \in DOMAIN db[M] /\ p # q
    BY <1>5, <2>1 DEF Plan!WriteSound, Plan!AppendSound, Plan!EndsExist, Plan!Ids
  <2>4. ~PathIn(E, DOMAIN db[M], q, p)
    BY <1>5, PlanOrdered DEF PlanTimely
  <2>5. F = E \cup {h.row}
    <3> DEFINE k == Place(db, h)
    <3>1. /\ DOMAIN db'[D] = DOMAIN db[D] \cup {k} /\ db'[D][k] = h.row
          /\ \A x \in DOMAIN db[D] \ {k} : db'[D][x] = db[D][x]
      BY <1>2, <1>5 DEF Lands
    <3>2. k \notin DOMAIN db[D]
      BY <1>1, <1>5, <2>1 DEF Place
    <3> HIDE DEF k
    <3> QED BY <1>3, <3>1, <3>2
  <2>6. DOMAIN db'[M] = DOMAIN db[M]
    BY <1>1, <1>2, <1>5 DEF Lands
  <2> HIDE DEF E, F
  <2>7. NoCycle(F, DOMAIN db'[M])
    BY <1>4, <2>2, <2>3, <2>4, <2>5, <2>6, EdgeAdded
  <2> QED BY <2>7, PlanOrdered DEF F
<1>6. CASE h.c # D
  <2>1. F = E
    BY <1>1, <1>2, <1>3, <1>6 DEF Lands
  <2>2. DOMAIN db[M] \subseteq DOMAIN db'[M]
    BY <1>1, <1>2 DEF Lands
  <2>3. \A e \in E : e.pred \in DOMAIN db[M]
    BY <1>3 DEF Plan!IInv, Plan!TablesSound, Plan!EndsExist, Plan!Ids
  <2> HIDE DEF E, F
  <2>4. NoCycle(F, DOMAIN db'[M])
    BY <1>4, <2>1, <2>2, <2>3, MilestoneAdded
  <2> QED BY <2>4, PlanOrdered DEF F
<1> QED BY <1>5, <1>6

LEMMA PlanSerial ==
  ASSUME NEW s \in BlueprintScenes, Plan(s)!IInv, Plan(s)!SerialInv, [Plan(s)!Next]_<<db, job>>
  PROVE  /\ Plan(s)!SerialInv'
         /\ Plan(s)!InTurn => Plan(s)!ActivatedWithDone
<1> DEFINE B == "performanceBlueprints"
<1> USE DEF Plan!Ids, Plan!InStatus
<1> SUFFICES ASSUME Plan(s)!InTurn
             PROVE  /\ Plan(s)!Bounded' /\ Plan(s)!EdgesAcyclic'
                    /\ \A v \in Cast[s].workers : Plan(s)!Fresh(job[v])'
                    /\ Plan(s)!ActivatedWithDone
  BY DEF Plan!SerialInv, Plan!InTurn
<1>1. PlanInTurn(s) /\ Plan(s)!Bounded /\ Plan(s)!EdgesAcyclic
  BY DEF PlanInTurn, Plan!SerialInv
<1>2. PICK w \in Cast[s].workers : PlanMoves(s, w) \/ PlanWrites(s, w)
  BY PlanSteps
<1>3. job = [v \in Cast[s].workers |-> job[v]] /\ \A v \in Cast[s].workers : v = w
  BY <1>2 DEF Plan!IInv, Plan!InTurn
<1>4. Plan(s)!TablesTyped(Plan(s)!RowType) /\ B \in DOMAIN db
  BY PlanTables DEF Plan!IInv
<1>5. CASE PlanMoves(s, w)
  <2>1. PICK j : job' = [job EXCEPT ![w] = j] /\ UNCHANGED db /\ Plan(s)!Fresh(j)
    BY <1>1, <1>5 DEF PlanMoves
  <2>2. \A v \in Cast[s].workers : job'[v] = j
    BY <1>3, <2>1, CarryMoves
  <2>3. Plan(s)!Fresh(j)'
    <3>1. ASSUME NEW b, Plan(s)!Activatable(b) PROVE Plan(s)!Activatable(b)'
      BY <2>1, <3>1 DEF Plan!Activatable, Plan!Scheduled, Plan!Done
    <3>2. ASSUME NEW b PROVE Plan(s)!Scheduled(b)' = Plan(s)!Scheduled(b)
      BY <2>1 DEF Plan!Scheduled
    <3>3. ASSUME NEW row, Plan(s)!Fits(row) PROVE Plan(s)!Fits(row)'
      BY <2>1, <3>3 DEF Plan!Fits, Plan!Allocated, Plan!Scheduled, Plan!Percent
    <3>4. ASSUME NEW p, NEW q, ~Plan(s)!HasPath(p, q) PROVE ~Plan(s)!HasPath(p, q)'
      BY <2>1, <3>4 DEF Plan!HasPath, Plan!After, Plan!Edges
    <3>5. ASSUME NEW t, NEW n, Plan(s)!FreshAt(t, n) PROVE Plan(s)!FreshAt(t, n)'
      BY <3>1, <3>3, <3>4, <3>5 DEF Plan!FreshAt, Plan!TakesForce
    <3> QED BY <2>1, <3>1, <3>2, <3>5 DEF Plan!Fresh
  <2>4. Plan(s)!Bounded'
    BY <1>1, <2>1 DEF Plan!Bounded, Plan!Allocated, Plan!Scheduled, Plan!Percent
  <2>5. Plan(s)!EdgesAcyclic'
    <3>1. ASSUME NEW m, ~Plan(s)!HasPath(m, m) PROVE ~Plan(s)!HasPath(m, m)'
      BY <2>1, <3>1 DEF Plan!HasPath, Plan!After, Plan!Edges
    <3> QED BY <1>1, <2>1, <3>1 DEF Plan!EdgesAcyclic
  <2>6. Plan(s)!ActivatedWithDone
    BY <2>1 DEF Plan!ActivatedWithDone
  <2> QED BY <2>2, <2>3, <2>4, <2>5, <2>6
<1>6. CASE PlanWrites(s, w)
  <2>1. PICK h, j : /\ job' = [job EXCEPT ![w] = j] /\ db' = Plan(s)!Written(h)
                    /\ Plan(s)!WriteSound(h) /\ PlanTimely(s, h) /\ Plan(s)!Fresh(j)'
    BY <1>1, <1>6 DEF PlanWrites
  <2>2. \A v \in Cast[s].workers : job'[v] = j
    BY <1>3, <2>1, CarryMoves
  <2>3. Plan(s)!Bounded' /\ Plan(s)!EdgesAcyclic'
    BY <1>1, <1>4, <2>1, PlanStaysBounded, PlanStaysOrdered
  <2>4. Plan(s)!ActivatedWithDone
    <3> SUFFICES ASSUME NEW b \in DOMAIN db[B], db[B][b].status # "ACTIVE", db'[B][b].status = "ACTIVE"
                 PROVE  /\ Plan(s)!Scheduled(b) # {}
                        /\ \A m \in Plan(s)!Scheduled(b) : Plan(s)!PublishedOf(m) # {}
      BY DEF Plan!ActivatedWithDone
    <3>1. Keeps(db, db', h)
      BY <1>4, <2>1, PlanLands DEF Plan!WriteSound
    <3>2. h.op = "replace" /\ h.c = B /\ h.id = b /\ h.row.status = "ACTIVE"
      BY <1>4, <3>1 DEF Keeps
    <3>3. Plan(s)!Activatable(b)
      BY <2>1, <3>2 DEF PlanTimely, Plan!TakesForce, Plan!Plans, Plan!InForce
    <3> QED BY <3>3 DEF Plan!Activatable, Plan!Done, Plan!PublishedOf
  <2> QED BY <2>1, <2>2, <2>3, <2>4
<1> QED BY <1>2, <1>5, <1>6

LEMMA PlanKeeps ==
  ASSUME NEW s \in BlueprintScenes, Plan(s)!IInv, Plan(s)!ReliableInv, [Plan(s)!Next]_<<db, job>>
  PROVE  Plan(s)!ReliableInv'
<1> SUFFICES ASSUME Plan(s)!Reliable
             PROVE  \A v \in Cast[s].workers : Plan(s)!Kept(job[v])' /\ Plan(s)!Followed(job[v])'
  BY DEF Plan!ReliableInv, Plan!Reliable, Plan!Deathless, Plan!InTurn
<1>1. PlanReliable(s)
  BY DEF PlanReliable
<1>2. PICK w \in Cast[s].workers : PlanMoves(s, w) \/ PlanWrites(s, w)
  BY PlanSteps
<1>3. job = [v \in Cast[s].workers |-> job[v]] /\ \A v \in Cast[s].workers : v = w
  BY <1>2 DEF Plan!IInv, Plan!InTurn, Plan!Reliable, Plan!Deathless
<1>4. PICK j : job' = [job EXCEPT ![w] = j] /\ Plan(s)!Kept(j)' /\ Plan(s)!Followed(j)'
  <2>1. CASE PlanMoves(s, w)
    <3>1. PICK j : job' = [job EXCEPT ![w] = j] /\ UNCHANGED db /\ Plan(s)!Kept(j) /\ Plan(s)!Followed(j)
      BY <1>1, <2>1 DEF PlanMoves
    <3>2. Plan(s)!Kept(j)'
      <4>1. ASSUME NEW t, Plan(s)!HandsOver(t) PROVE Plan(s)!HandsOver(t)'
        BY <3>1, <4>1 DEF Plan!HandsOver, Plan!TakesForce, Plan!Last, Plan!InForceOf, Plan!InForce, Plan!Owner,
           Plan!Plans, Plan!InStatus, Plan!Ids
      <4> QED BY <3>1, <4>1 DEF Plan!Kept, Plan!InStatus, Plan!Plans
    <3>3. Plan(s)!Followed(j)'
      BY <3>1 DEF Plan!Followed, Plan!Succeeds, Plan!TakesForce, Plan!Last, Plan!InForceOf, Plan!InForce,
         Plan!Owner, Plan!Plans, Plan!InStatus, Plan!Ids
    <3> QED BY <3>1, <3>2, <3>3
  <2>2. CASE PlanWrites(s, w)
    BY <1>1, <2>2 DEF PlanWrites
  <2> QED BY <1>2, <2>1, <2>2
<1>5. \A v \in Cast[s].workers : job'[v] = j
  BY <1>3, <1>4, CarryMoves
<1> QED BY <1>4, <1>5

(* What the invariants promise.                                            *)
LEMMA PlanPromises ==
  ASSUME NEW s \in BlueprintScenes, Plan(s)!IInv, Plan(s)!SerialInv, Plan(s)!ReliableInv
  PROVE  /\ Plan(s)!TypeOK /\ Plan(s)!OnePlan /\ Plan(s)!MilestonesConfirmed
         /\ Plan(s)!InTurn => Plan(s)!AllocationBounded /\ Plan(s)!EdgesAcyclic
         /\ Plan(s)!Reliable => Plan(s)!PlanNeverLost
<1> DEFINE B == "performanceBlueprints"
           P == "dodPackages"
           M == "blueprintMilestones"
<1> USE DEF Plan!Ids, Plan!InStatus
<1>1. /\ DOMAIN db = Plan(s)!Collections /\ B \in DOMAIN db /\ P \in DOMAIN db /\ M \in DOMAIN db
      /\ \A c \in DOMAIN db : /\ DOMAIN db[c] = 1..Len(db[c]) /\ Len(db[c]) \in Nat
                              /\ \A x \in DOMAIN db[c] : db[c][x] \in Plan(s)!RowType[c]
      /\ Plan(s)!TablesSound
  BY PlanTables DEF Plan!IInv
<1>2. Plan(s)!TypeOK
  BY <1>1 DEF Plan!TypeOK
<1>3. ASSUME NEW c \in DOMAIN db, NEW S, S \subseteq DOMAIN db[c], \A x, y \in S : x = y
      PROVE  Plan(s)!Cardinality(S) <= 1
  <2> PICK n : n = Len(db[c])
    OBVIOUS
  <2>1. n \in Nat /\ S \subseteq 1..n
    BY <1>1, <1>3
  <2>2. Cardinality(S) <= 1
    BY <1>3, <2>1, AtMostOne
  <2> QED BY <2>2, PlanCardinality
<1>4. Plan(s)!OnePlan
  <2>1. ASSUME NEW k PROVE Plan(s)!Cardinality(Plan(s)!ActiveOf(k)) <= 1
    <3> PICK S : S = Plan(s)!ActiveOf(k)
      OBVIOUS
    <3>1. S \subseteq DOMAIN db[B] /\ \A x, y \in S : x = y
      BY <1>1 DEF Plan!ActiveOf, Plan!TablesSound, Plan!OneEach, Plan!Plans, Plan!Owner, Plan!InForce
    <3>2. Plan(s)!Cardinality(S) <= 1
      BY <1>1, <1>3, <3>1
    <3> QED BY <3>2
  <2>2. ASSUME NEW m PROVE Plan(s)!Cardinality(Plan(s)!PublishedOf(m)) <= 1
    <3> PICK S : S = Plan(s)!PublishedOf(m)
      OBVIOUS
    <3>1. S \subseteq DOMAIN db[P] /\ \A x, y \in S : x = y
      BY <1>1 DEF Plan!PublishedOf, Plan!TablesSound, Plan!OneEach, Plan!Plans, Plan!Owner, Plan!InForce
    <3>2. Plan(s)!Cardinality(S) <= 1
      BY <1>1, <1>3, <3>1
    <3> QED BY <3>2
  <2> QED BY <1>1, <2>1, <2>2 DEF Plan!OnePlan, Plan!TablesSound, Plan!VersionedOnce
<1>5. Plan(s)!MilestonesConfirmed
  BY <1>1 DEF Plan!MilestonesConfirmed, Plan!TablesSound, Plan!Confirmed
<1>6. ASSUME Plan(s)!InTurn PROVE Plan(s)!AllocationBounded
  <2> SUFFICES ASSUME NEW b PROVE Plan(s)!Allocated(Plan(s)!Scheduled(b)) <= Cast[s].percent
    BY DEF Plan!AllocationBounded
  <2>1. CASE Plan(s)!Scheduled(b) = {}
    <3>1. Plan(s)!Allocated({}) = Cardinality({})
      <4>1. UNION {{m} \X (1..Plan(s)!Percent(m)) : m \in {}} = {}
        OBVIOUS
      <4> QED BY <4>1, PlanCardinality DEF Plan!Allocated
    <3>2. Cardinality({}) = 0
      BY FS_EmptySet
    <3>3. Cast[s].percent \in Nat
      BY DeliveryAssumption DEF Plan!BlueprintAssumption
    <3>4. 0 <= Cast[s].percent
      BY <3>3
    <3>5. Plan(s)!Allocated(Plan(s)!Scheduled(b)) = 0
      BY <2>1, <3>1, <3>2
    <3> QED BY <3>4, <3>5
  <2>2. CASE Plan(s)!Scheduled(b) # {}
    <3>1. PICK m \in DOMAIN db[M] : db[M][m].blueprint = b
      BY <2>2 DEF Plan!Scheduled
    <3> QED BY <1>6, <3>1 DEF Plan!SerialInv, Plan!Bounded
  <2> QED BY <2>1, <2>2
<1>7. ASSUME Plan(s)!Reliable PROVE Plan(s)!PlanNeverLost
  <2> SUFFICES ASSUME Plan(s)!Quiet PROVE Plan(s)!PlanNeverLost
    BY DEF Plan!PlanNeverLost
  <2>1. PICK w \in Cast[s].workers : TRUE
    BY DeliveryAssumption DEF Plan!BlueprintAssumption
  <2>2. Plan(s)!Followed(job[w]) /\ job[w].at = "idle"
    BY <1>7 DEF Plan!ReliableInv, Plan!Quiet, Plan!At
  <2>3. \A c, k : ~Plan(s)!Succeeds(job[w], c, k)
    BY <2>2 DEF Plan!Succeeds
  <2>4. \A c \in {B, P} : \A x \in DOMAIN db[c] : db[c][x].status = "SUPERSEDED" =>
          Plan(s)!InForceOf(c, Plan(s)!Owner(c, db[c][x])) # {}
    BY <2>2, <2>3 DEF Plan!Followed, Plan!Plans
  <2>5. ASSUME NEW x \in DOMAIN db[B], db[B][x].status = "SUPERSEDED"
        PROVE  Plan(s)!ActiveOf(db[B][x].contract) # {}
    BY <2>4, <2>5 DEF Plan!InForceOf, Plan!ActiveOf, Plan!Owner, Plan!InForce
  <2>6. ASSUME NEW x \in DOMAIN db[P], db[P][x].status = "SUPERSEDED"
        PROVE  Plan(s)!PublishedOf(db[P][x].milestone) # {}
    BY <2>4, <2>6 DEF Plan!InForceOf, Plan!PublishedOf, Plan!Owner, Plan!InForce
  <2> QED BY <2>5, <2>6 DEF Plan!PlanNeverLost
<1>8. Plan(s)!InTurn => Plan(s)!EdgesAcyclic
  BY DEF Plan!SerialInv
<1> QED BY <1>2, <1>4, <1>5, <1>6, <1>7, <1>8

----------------------------------------------------------------------------
(* A step of Delivery is a step of the engine whose scene is played, and   *)
(* of no other.                                                            *)
LEMMA SceneStarts ==
  ASSUME Init
  PROVE  /\ \A s \in WorkScenes : scene = s => Work(s)!Empty
         /\ \A s \in CompletionScenes : scene = s => Assurance(s)!Empty
         /\ \A s \in BlueprintScenes : scene = s => Plan(s)!Empty
         /\ \A s \in ReadinessScenes : scene = s => Ready(s)!Empty
         /\ \A s \in GovernanceScenes : scene = s => Govern(s)!Empty
<1>1. \A s \in WorkScenes : Cast[s].engine = "work"
  BY DEF WorkScenes
<1>2. \A s \in CompletionScenes : Cast[s].engine = "completion"
  BY DEF CompletionScenes
<1>3. \A s \in BlueprintScenes : Cast[s].engine = "blueprint"
  BY DEF BlueprintScenes
<1>4. \A s \in ReadinessScenes : Cast[s].engine = "readiness"
  BY DEF ReadinessScenes
<1>5. \A s \in GovernanceScenes : Cast[s].engine = "governance"
  BY DEF GovernanceScenes
<1> QED BY <1>1, <1>2, <1>3, <1>4, <1>5 DEF Init

LEMMA ScenePlays ==
  ASSUME [Next]_<<scene, db, job>>
  PROVE  /\ UNCHANGED scene
         /\ \A s \in WorkScenes : scene = s => [Work(s)!Next]_<<db, job>>
         /\ \A s \in CompletionScenes : scene = s => [Assurance(s)!Next]_<<db, job>>
         /\ \A s \in BlueprintScenes : scene = s => [Plan(s)!Next]_<<db, job>>
         /\ \A s \in ReadinessScenes : scene = s => [Ready(s)!Next]_<<db, job>>
         /\ \A s \in GovernanceScenes : scene = s => [Govern(s)!Next]_<<db, job>>
<1>1. \A s \in WorkScenes : Cast[s].engine = "work"
  BY DEF WorkScenes
<1>2. \A s \in CompletionScenes : Cast[s].engine = "completion"
  BY DEF CompletionScenes
<1>3. \A s \in BlueprintScenes : Cast[s].engine = "blueprint"
  BY DEF BlueprintScenes
<1>4. \A s \in ReadinessScenes : Cast[s].engine = "readiness"
  BY DEF ReadinessScenes
<1>5. \A s \in GovernanceScenes : Cast[s].engine = "governance"
  BY DEF GovernanceScenes
<1>6. WorkStep \/ CompletionStep \/ BlueprintStep \/ ReadinessStep \/ GovernanceStep \/ UNCHANGED <<scene, db, job>>
  BY DEF Next
<1> QED BY <1>1, <1>2, <1>3, <1>4, <1>5, <1>6
        DEF WorkStep, CompletionStep, BlueprintStep, ReadinessStep, GovernanceStep, Playing

(* The invariants of the engines, each of the scenes it is played in.      *)
WorkInv == \A s \in WorkScenes : scene = s => Work(s)!IInv /\ Work(s)!SerialInv
CompletionInv == \A s \in CompletionScenes : scene = s =>
  Assurance(s)!IInv /\ Assurance(s)!SerialInv /\ Assurance(s)!ReliableInv
BlueprintInv == \A s \in BlueprintScenes : scene = s =>
  Plan(s)!IInv /\ Plan(s)!SerialInv /\ Plan(s)!ReliableInv
ReadinessInv == \A s \in ReadinessScenes : scene = s => Ready(s)!IInv /\ Ready(s)!SerialInv
GovernanceInv == \A s \in GovernanceScenes : scene = s => Govern(s)!IInv /\ Govern(s)!SerialInv

DeliveryInv == WorkInv /\ CompletionInv /\ BlueprintInv /\ ReadinessInv /\ GovernanceInv

LEMMA DeliveryInit == Init => DeliveryInv
<1> SUFFICES ASSUME Init PROVE DeliveryInv
  OBVIOUS
<1>1. WorkInv
  BY SceneStarts, WorkInit DEF WorkInv
<1>2. CompletionInv
  BY SceneStarts, AssureInit DEF CompletionInv
<1>3. BlueprintInv
  BY SceneStarts, PlanInit DEF BlueprintInv
<1>4. ReadinessInv
  BY SceneStarts, ReadyInit DEF ReadinessInv
<1>5. GovernanceInv
  BY SceneStarts, GovInit DEF GovernanceInv
<1> QED BY <1>1, <1>2, <1>3, <1>4, <1>5 DEF DeliveryInv

LEMMA DeliveryKeeps == DeliveryInv /\ [Next]_<<scene, db, job>> => DeliveryInv'
<1> SUFFICES ASSUME DeliveryInv, [Next]_<<scene, db, job>> PROVE DeliveryInv'
  OBVIOUS
<1>1. scene' = scene
  BY ScenePlays
<1>2. WorkInv'
  <2> SUFFICES ASSUME NEW s \in WorkScenes, scene' = s PROVE Work(s)!IInv' /\ Work(s)!SerialInv'
    BY DEF WorkInv
  <2>1. Work(s)!IInv /\ Work(s)!SerialInv /\ [Work(s)!Next]_<<db, job>>
    BY <1>1, ScenePlays DEF DeliveryInv, WorkInv
  <2> QED BY <2>1, WorkPreserves, WorkSerial
<1>3. CompletionInv'
  <2> SUFFICES ASSUME NEW s \in CompletionScenes, scene' = s
               PROVE  Assurance(s)!IInv' /\ Assurance(s)!SerialInv' /\ Assurance(s)!ReliableInv'
    BY DEF CompletionInv
  <2>1. /\ Assurance(s)!IInv /\ Assurance(s)!SerialInv /\ Assurance(s)!ReliableInv
        /\ [Assurance(s)!Next]_<<db, job>>
    BY <1>1, ScenePlays DEF DeliveryInv, CompletionInv
  <2> QED BY <2>1, AssurePreserves, AssureSerial, AssureKeeps
<1>4. BlueprintInv'
  <2> SUFFICES ASSUME NEW s \in BlueprintScenes, scene' = s
               PROVE  Plan(s)!IInv' /\ Plan(s)!SerialInv' /\ Plan(s)!ReliableInv'
    BY DEF BlueprintInv
  <2>1. Plan(s)!IInv /\ Plan(s)!SerialInv /\ Plan(s)!ReliableInv /\ [Plan(s)!Next]_<<db, job>>
    BY <1>1, ScenePlays DEF DeliveryInv, BlueprintInv
  <2> QED BY <2>1, PlanPreserves, PlanSerial, PlanKeeps
<1>5. ReadinessInv'
  <2> SUFFICES ASSUME NEW s \in ReadinessScenes, scene' = s PROVE Ready(s)!IInv' /\ Ready(s)!SerialInv'
    BY DEF ReadinessInv
  <2>1. Ready(s)!IInv /\ Ready(s)!SerialInv /\ [Ready(s)!Next]_<<db, job>>
    BY <1>1, ScenePlays DEF DeliveryInv, ReadinessInv
  <2> QED BY <2>1, ReadyPreserves, ReadySerial
<1>6. GovernanceInv'
  <2> SUFFICES ASSUME NEW s \in GovernanceScenes, scene' = s PROVE Govern(s)!IInv' /\ Govern(s)!SerialInv'
    BY DEF GovernanceInv
  <2>1. Govern(s)!IInv /\ Govern(s)!SerialInv /\ [Govern(s)!Next]_<<db, job>>
    BY <1>1, ScenePlays DEF DeliveryInv, GovernanceInv
  <2> QED BY <2>1, GovPreserves, GovSerial
<1> QED BY <1>2, <1>3, <1>4, <1>5, <1>6 DEF DeliveryInv

THEOREM DeliveryInvariant == Spec => []DeliveryInv
<1> QED BY DeliveryInit, DeliveryKeeps, PTL DEF Spec

----------------------------------------------------------------------------
(* What the invariants of work, completion and readiness promise.          *)
LEMMA WorkPromises ==
  ASSUME NEW s \in WorkScenes, Work(s)!IInv, Work(s)!SerialInv
  PROVE  /\ Work(s)!TypeOK /\ Work(s)!OneWorkspacePerMilestone
         /\ Work(s)!CustodyComplete /\ Work(s)!ResolvedHasCause /\ Work(s)!EarnedAfterAccepted
         /\ Work(s)!InTurn => Work(s)!ProgressGrows /\ Work(s)!SubmittedIsDone
<1>1. Work(s)!TypeOK
  BY WorkTables DEF Work!IInv, Work!TypeOK, Work!Ids
<1> QED BY <1>1 DEF Work!IInv, Work!TablesSound, Work!SerialInv

LEMMA AssurePromises ==
  ASSUME NEW s \in CompletionScenes, Assurance(s)!IInv, Assurance(s)!ReliableInv
  PROVE  /\ Assurance(s)!TypeOK /\ Assurance(s)!OneInForce
         /\ Assurance(s)!ReinspectsFailure /\ Assurance(s)!ImplementedOnApproval /\ Assurance(s)!ResolvedOnPlan
         /\ Assurance(s)!Reliable => Assurance(s)!IssueFollowsPlans /\ Assurance(s)!SupersededBySuccessor
<1>1. Assurance(s)!TypeOK
  BY AssureTables DEF Assurance!IInv, Assurance!TypeOK, Assurance!Ids
<1>2. Cast[s].workers # {}
  BY DeliveryAssumption DEF Assurance!CompletionAssumption
<1>3. Assurance(s)!ImplementedOnApproval
  BY DEF Assurance!IInv, Assurance!TablesSound, Assurance!ImplementedOnApproval,
         Assurance!Approved, Assurance!InStatus
<1>4. Assurance(s)!OneInForce /\ Assurance(s)!ReinspectsFailure /\ Assurance(s)!ResolvedOnPlan
  BY DEF Assurance!IInv, Assurance!TablesSound
<1>5. Assurance(s)!Reliable => Assurance(s)!IssueFollowsPlans /\ Assurance(s)!SupersededBySuccessor
  BY <1>2, AssureAtRest
<1> QED BY <1>1, <1>3, <1>4, <1>5

LEMMA ReadyPromises ==
  ASSUME NEW s \in ReadinessScenes, Ready(s)!IInv, Ready(s)!SerialInv
  PROVE  /\ Ready(s)!TypeOK /\ Ready(s)!BaselineOnce
         /\ Ready(s)!InTurn => Ready(s)!WeightBounded
<1>1. Ready(s)!TypeOK
  BY DEF Ready!IInv, Ready!TablesTyped, Ready!TypeOK, Ready!Ids
<1> QED BY <1>1 DEF Ready!IInv, Ready!SerialInv

----------------------------------------------------------------------------
(* Whatever requests do at once and wherever they die, every row of every  *)
(* table of the five engines has the shape its repository declares, and    *)
(* every request holds what its step expects.                              *)
THEOREM DeliveryTyped == Spec => []RecordsTyped
<1>1. DeliveryInv => RecordsTyped
  <2> SUFFICES ASSUME DeliveryInv PROVE RecordsTyped
    OBVIOUS
  <2>1. \A s \in WorkScenes : scene = s => Work(s)!TypeOK
    BY WorkPromises DEF DeliveryInv, WorkInv
  <2>2. \A s \in CompletionScenes : scene = s => Assurance(s)!TypeOK
    BY AssurePromises DEF DeliveryInv, CompletionInv
  <2>3. \A s \in BlueprintScenes : scene = s => Plan(s)!TypeOK
    BY PlanPromises DEF DeliveryInv, BlueprintInv
  <2>4. \A s \in ReadinessScenes : scene = s => Ready(s)!TypeOK
    BY ReadyPromises DEF DeliveryInv, ReadinessInv
  <2>5. \A s \in GovernanceScenes : scene = s => Govern(s)!TypeOK
    BY GovPromises DEF DeliveryInv, GovernanceInv
  <2> QED BY <2>1, <2>2, <2>3, <2>4, <2>5 DEF RecordsTyped
<1> QED BY <1>1, DeliveryInvariant, PTL

(* What the engines count and then write stays single although nothing is  *)
(* locked between the two: workspaces, decisions and certificates, plans   *)
(* and definitions of done, baselines, proposals, and, of requests that    *)
(* come in turn, what governance publishes.                                *)
THEOREM DeliveryOnceOnly == Spec => []OnceOnly
<1>1. DeliveryInv => OnceOnly
  <2> SUFFICES ASSUME DeliveryInv PROVE OnceOnly
    OBVIOUS
  <2>1. \A s \in WorkScenes : scene = s => Work(s)!OneWorkspacePerMilestone
    BY WorkPromises DEF DeliveryInv, WorkInv
  <2>2. \A s \in CompletionScenes : scene = s => Assurance(s)!OneInForce
    BY AssurePromises DEF DeliveryInv, CompletionInv
  <2>3. \A s \in BlueprintScenes : scene = s => Plan(s)!OnePlan
    BY PlanPromises DEF DeliveryInv, BlueprintInv
  <2>4. \A s \in ReadinessScenes : scene = s => Ready(s)!BaselineOnce
    BY ReadyPromises DEF DeliveryInv, ReadinessInv
  <2>5. \A s \in GovernanceScenes : scene = s =>
          Govern(s)!ProposedOnce /\ (Govern(s)!InTurn => Govern(s)!OnePublished)
    BY GovPromises DEF DeliveryInv, GovernanceInv
  <2> QED BY <2>1, <2>2, <2>3, <2>4, <2>5 DEF OnceOnly
<1> QED BY <1>1, DeliveryInvariant, PTL

(* What is recorded rests on what has to come before it: the check was     *)
(* made calls before the write, others wrote in between, and any request   *)
(* may have died there.                                                    *)
THEOREM DeliveryBacked == Spec => []RecordsBacked
<1>1. DeliveryInv => RecordsBacked
  <2> SUFFICES ASSUME DeliveryInv PROVE RecordsBacked
    OBVIOUS
  <2>1. \A s \in WorkScenes : scene = s =>
          Work(s)!CustodyComplete /\ Work(s)!ResolvedHasCause /\ Work(s)!EarnedAfterAccepted
    BY WorkPromises DEF DeliveryInv, WorkInv
  <2>2. \A s \in CompletionScenes : scene = s =>
          /\ Assurance(s)!ReinspectsFailure /\ Assurance(s)!ImplementedOnApproval
          /\ Assurance(s)!ResolvedOnPlan
    BY AssurePromises DEF DeliveryInv, CompletionInv
  <2>3. \A s \in BlueprintScenes : scene = s => Plan(s)!MilestonesConfirmed
    BY PlanPromises DEF DeliveryInv, BlueprintInv
  <2>4. \A s \in GovernanceScenes : scene = s =>
          /\ Govern(s)!HistoryTookPlace /\ Govern(s)!StatusIsDecided
          /\ Govern(s)!CertifiedOnApproval /\ Govern(s)!ReleasedWhenDue
    BY GovPromises DEF DeliveryInv, GovernanceInv
  <2> QED BY <2>1, <2>2, <2>3, <2>4 DEF RecordsBacked
<1> QED BY <1>1, DeliveryInvariant, PTL

(* What requests that come in turn can rely on: progress that grows and    *)
(* submissions of what is done, weights and allocations within the whole,  *)
(* orders without a cycle; and, when none of them dies, issues that follow *)
(* their plans, decisions superseded by a successor and a plan in force.   *)
THEOREM DeliverySerial == Spec => []SerialPromises
<1>1. DeliveryInv => SerialPromises
  <2> SUFFICES ASSUME DeliveryInv PROVE SerialPromises
    OBVIOUS
  <2>1. \A s \in WorkScenes : scene = s /\ Work(s)!InTurn =>
          Work(s)!ProgressGrows /\ Work(s)!SubmittedIsDone
    BY WorkPromises DEF DeliveryInv, WorkInv
  <2>2. \A s \in CompletionScenes : scene = s /\ Assurance(s)!Reliable =>
          Assurance(s)!IssueFollowsPlans /\ Assurance(s)!SupersededBySuccessor
    BY AssurePromises DEF DeliveryInv, CompletionInv
  <2>3. \A s \in BlueprintScenes : scene = s =>
          /\ Plan(s)!InTurn => Plan(s)!AllocationBounded /\ Plan(s)!EdgesAcyclic
          /\ Plan(s)!Reliable => Plan(s)!PlanNeverLost
    BY PlanPromises DEF DeliveryInv, BlueprintInv
  <2>4. \A s \in ReadinessScenes : scene = s /\ Ready(s)!InTurn => Ready(s)!WeightBounded
    BY ReadyPromises DEF DeliveryInv, ReadinessInv
  <2>5. \A s \in GovernanceScenes : scene = s /\ Govern(s)!InTurn => Govern(s)!OrderIsAcyclic
    BY GovPromises DEF DeliveryInv, GovernanceInv
  <2> QED BY <2>1, <2>2, <2>3, <2>4, <2>5 DEF SerialPromises
<1> QED BY <1>1, DeliveryInvariant, PTL

(* The action of StepsAllowed.                                             *)
StepAllowed ==
  /\ \A s \in WorkScenes : scene = s =>
       /\ Work(s)!FinalStays
       /\ Work(s)!InTurn => Work(s)!GatePassesClear /\ Work(s)!PackageCovers
  /\ \A s \in CompletionScenes : scene = s /\ Assurance(s)!InTurn =>
       Assurance(s)!CertifiedOnActive
  /\ \A s \in BlueprintScenes : scene = s /\ Plan(s)!InTurn => Plan(s)!ActivatedWithDone
  /\ \A s \in ReadinessScenes : scene = s => Ready(s)!EligibilityKept
  /\ \A s \in GovernanceScenes : scene = s =>
       /\ Govern(s)!MovesAreAllowed
       /\ Govern(s)!InTurn => Govern(s)!CompletedInOrder

LEMMA DeliverySteps == DeliveryInv /\ [Next]_<<scene, db, job>> => StepAllowed
<1> SUFFICES ASSUME DeliveryInv, [Next]_<<scene, db, job>> PROVE StepAllowed
  OBVIOUS
<1>1. ASSUME NEW s \in WorkScenes, scene = s
      PROVE  /\ Work(s)!FinalStays
             /\ Work(s)!InTurn => Work(s)!GatePassesClear /\ Work(s)!PackageCovers
  <2>1. Work(s)!IInv /\ Work(s)!SerialInv /\ [Work(s)!Next]_<<db, job>>
    BY <1>1, ScenePlays DEF DeliveryInv, WorkInv
  <2> QED BY <2>1, WorkPreserves, WorkSerial
<1>2. ASSUME NEW s \in CompletionScenes, scene = s, Assurance(s)!InTurn
      PROVE  Assurance(s)!CertifiedOnActive
  <2>1. Assurance(s)!IInv /\ Assurance(s)!SerialInv /\ [Assurance(s)!Next]_<<db, job>>
    BY <1>2, ScenePlays DEF DeliveryInv, CompletionInv
  <2> QED BY <1>2, <2>1, AssureSerial
<1>3. ASSUME NEW s \in BlueprintScenes, scene = s, Plan(s)!InTurn PROVE Plan(s)!ActivatedWithDone
  <2>1. Plan(s)!IInv /\ Plan(s)!SerialInv /\ [Plan(s)!Next]_<<db, job>>
    BY <1>3, ScenePlays DEF DeliveryInv, BlueprintInv
  <2> QED BY <1>3, <2>1, PlanSerial
<1>4. ASSUME NEW s \in ReadinessScenes, scene = s PROVE Ready(s)!EligibilityKept
  <2>1. Ready(s)!IInv /\ [Ready(s)!Next]_<<db, job>>
    BY <1>4, ScenePlays DEF DeliveryInv, ReadinessInv
  <2> QED BY <2>1, ReadyPreserves
<1>5. ASSUME NEW s \in GovernanceScenes, scene = s
      PROVE  /\ Govern(s)!MovesAreAllowed
             /\ Govern(s)!InTurn => Govern(s)!CompletedInOrder
  <2>1. Govern(s)!IInv /\ Govern(s)!SerialInv /\ [Govern(s)!Next]_<<db, job>>
    BY <1>5, ScenePlays DEF DeliveryInv, GovernanceInv
  <2> QED BY <2>1, GovPreserves, GovSerial
<1> QED BY <1>1, <1>2, <1>3, <1>4, <1>5 DEF StepAllowed

(* No step takes back what is final or makes a move the table of           *)
(* transitions lacks; none that comes in turn passes a gate over a         *)
(* critical defect, submits a package without a mandatory file, certifies  *)
(* a decision that is not in force, or activates a plan before its         *)
(* definitions of done.                                                    *)
THEOREM DeliveryStepsAllowed == Spec => StepsAllowed
<1>1. DeliveryInv /\ [Next]_<<scene, db, job>> => [StepAllowed]_<<scene, db, job>>
  BY DeliverySteps
<1>2. Spec => [][StepAllowed]_<<scene, db, job>>
  BY <1>1, DeliveryInvariant, PTL DEF Spec
<1> QED BY <1>2 DEF StepsAllowed, StepAllowed
=============================================================================
