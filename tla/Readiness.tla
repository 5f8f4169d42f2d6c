------------------------------ MODULE Readiness ------------------------------
(***************************************************************************)
(* Engines 26-30 (packages/performance-readiness), for one milestone:      *)
(* acceptance criteria, success metrics, dependencies, payment-trigger     *)
(* rules, the performance baseline and its variances.                      *)
(***************************************************************************)
EXTENDS Documents, Integers

CONSTANT MaxWeight   \* bound: steps of weightPercent; MaxWeight stands for 100

AcceptanceCriterion == [status : {"DRAFT", "CONFIRMED"}]
SuccessMetric == [status : {"DRAFT", "CONFIRMED"}, weight : 1..MaxWeight]
Dependency == [status : {"OPEN", "RESOLVED"}, blocking : BOOLEAN]
PaymentTriggerRule ==
  [status : {"DRAFT", "ACTIVE"}, dod : BOOLEAN, criteria : SUBSET Nat]

PerformanceBaseline == [budget : Nat]
BaselineVariance == [baseline : Nat, cost : Int]

RowType ==
  [acceptanceCriteria |-> AcceptanceCriterion, successMetrics |-> SuccessMetric,
   dependencies |-> Dependency, paymentTriggerRules |-> PaymentTriggerRule,
   performanceBaselines |-> PerformanceBaseline, baselineVariances |-> BaselineVariance]

ReadinessAssumption ==
  /\ MaxWeight \in Nat \ {0} /\ Workers # {} /\ Mortals \subseteq Workers
  /\ Collections = DOMAIN RowType

TypeOK == \A c \in Collections : \A x \in Ids(c) : db[c][x] \in RowType[c]

----------------------------------------------------------------------------
(* The tables.  The milestone has one baseline; no status is terminal.     *)
PutCriterion(x, to) == Set("acceptanceCriteria", x, to)
PutMetric(x, to) == Set("successMetrics", x, to)
PutDependency(x, to) == Set("dependencies", x, to)

PutRule(x, to) == Set("paymentTriggerRules", x, to)
NewBaseline(row) == New("performanceBaselines", row)
NewVariance(row) == New("baselineVariances", row)

OneBaseline(h) == h.op = "append" /\ h.c = "performanceBaselines" => db[h.c] = <<>>
Admits(h) == OneBaseline(h)

----------------------------------------------------------------------------
(* Engine 26.                                                              *)
DefineCriterion(w) ==
  Room("acceptanceCriteria") /\ Ask(w, <<New("acceptanceCriteria", [status |-> "DRAFT"])>>)

ConfirmCriterion(w) ==
  \E x \in Ids("acceptanceCriteria") :
    InStatus("acceptanceCriteria", x, {"DRAFT"}) /\ Ask(w, <<PutCriterion(x, "CONFIRMED")>>)

(* Engine 27.                                                              *)
DefineMetric(w) ==
  \E p \in 1..MaxWeight :
    /\ Room("successMetrics")
    /\ Ask(w, <<New("successMetrics", [status |-> "DRAFT", weight |-> p])>>)

Weight(x) == db.successMetrics[x].weight
Confirmed == {x \in Ids("successMetrics") : InStatus("successMetrics", x, {"CONFIRMED"})}
ConfirmedWeight == Cardinality(UNION {{x} \X (1..Weight(x)) : x \in Confirmed})

ConfirmMetric(w) ==
  \E x \in Ids("successMetrics") :
    /\ InStatus("successMetrics", x, {"DRAFT"})
    /\ Look(w, [at |-> "weigh", id |-> x])

Weighs(x) == ConfirmedWeight + Weight(x) <= MaxWeight

Weigh(w) ==
  /\ At(w, "weigh")
  /\ IF Weighs(job[w].id) THEN Decide(w, <<PutMetric(job[w].id, "CONFIRMED")>>)
     ELSE GiveUp(w)

(* Engine 28.                                                              *)
Register(w) ==
  \E b \in BOOLEAN :
    /\ Room("dependencies")
    /\ Ask(w, <<New("dependencies", [status |-> "OPEN", blocking |-> b])>>)

ResolveDependency(w) ==
  \E x \in Ids("dependencies") :
    InStatus("dependencies", x, {"OPEN"}) /\ Ask(w, <<PutDependency(x, "RESOLVED")>>)

Blockers == {x \in Ids("dependencies") : /\ InStatus("dependencies", x, {"OPEN"})
                                         /\ db.dependencies[x].blocking}

(* Engine 29.  evaluate writes nothing: Eligible is what it answers on     *)
(* evidence gathered at one moment.                                        *)
DefineRule(w) ==
  \E d \in BOOLEAN, cs \in SUBSET Ids("acceptanceCriteria") :
    /\ Room("paymentTriggerRules")
    /\ Ask(w, <<New("paymentTriggerRules",
                    [status |-> "DRAFT", dod |-> d, criteria |-> cs])>>)

ActivateRule(w) ==
  \E x \in Ids("paymentTriggerRules") :
    InStatus("paymentTriggerRules", x, {"DRAFT"}) /\ Ask(w, <<PutRule(x, "ACTIVE")>>)

Eligible(x, dodPublished, accepted, blocking) ==
  LET rule == db.paymentTriggerRules[x]
  IN /\ rule.status = "ACTIVE"
     /\ blocking = 0
     /\ rule.dod => dodPublished
     /\ rule.criteria \subseteq accepted

(* Engine 30.                                                              *)
Baseline(w) ==
  \E b \in 1..2 :
    /\ Room("performanceBaselines")
    /\ db.performanceBaselines = <<>>
    /\ Ask(w, <<NewBaseline([budget |-> b])>>)

RecordVariance(w) ==
  \E x \in Ids("performanceBaselines"), cost \in 0..2 :
    /\ Room("baselineVariances")
    /\ Ask(w, <<NewVariance([baseline |-> x, cost |-> cost - db.performanceBaselines[x].budget])>>)

----------------------------------------------------------------------------
Handle(w) ==
  \/ DefineCriterion(w) \/ ConfirmCriterion(w)
  \/ DefineMetric(w) \/ ConfirmMetric(w) \/ Weigh(w)
  \/ Register(w) \/ ResolveDependency(w)
  \/ DefineRule(w) \/ ActivateRule(w)
  \/ Baseline(w) \/ RecordVariance(w)

(* Every request is carried through to its end; and with processes that    *)
(* die at any moment in between.                                           *)
Proceed == \E w \in Workers : Handle(w) \/ Commit(w, Admits(Due(w)))
Next == Proceed \/ \E w \in Mortals : Die(w)
Spec == Empty /\ [][Next]_vars

----------------------------------------------------------------------------
(* PERFORMANCE_READINESS_SECURITY.md:3: the baseline is set at most once,  *)
(* and the variances are all measured against it, whoever sets it at once. *)
BaselineOnce ==
  /\ Len(db.performanceBaselines) <= 1
  /\ \A v \in Ids("baselineVariances") :
       db.baselineVariances[v].cost + db.performanceBaselines[1].budget \in 0..2

(* A payment once found eligible stays so as long as no blocking           *)
(* dependency is added: no confirmation, resolution or second activation   *)
(* of a rule takes it back (migration 202608110009:322-326).  The evidence *)
(* is what a caller gathers: the confirmed criteria and the open blockers. *)
CriteriaMet == {x \in Ids("acceptanceCriteria") : InStatus("acceptanceCriteria", x, {"CONFIRMED"})}
Pays(x) == Eligible(x, TRUE, CriteriaMet, Cardinality(Blockers))

EligibilityKept ==
  \A x \in Ids("paymentTriggerRules") :
    Pays(x) /\ ~Pays(x)' => Cardinality(Blockers') > Cardinality(Blockers)

(* Requests one after another: the confirmed weights of the milestone are  *)
(* at most the whole.  Same doc: "a metric cannot be confirmed if doing so *)
(* would push a milestone's confirmed weight allocation past 100%".        *)
WeightBounded == ConfirmedWeight <= MaxWeight

----------------------------------------------------------------------------
(* Inductive invariant: what a request is about to write is still true,    *)
(* whatever others have written since it read.                             *)
WriteSound(h) ==
  /\ WriteTyped(h, RowType)
  /\ h.op = "replace" =>
       /\ h.c \notin {"performanceBaselines", "baselineVariances"}
       /\ h.c = "acceptanceCriteria" => h.row.status = "CONFIRMED"
       /\ h.c = "successMetrics" => h.row.weight = db.successMetrics[h.id].weight
       /\ h.c = "paymentTriggerRules" =>
            /\ h.row.status = "ACTIVE"
            /\ h.row.dod = db.paymentTriggerRules[h.id].dod
            /\ h.row.criteria = db.paymentTriggerRules[h.id].criteria
  /\ h.op = "append" =>
       /\ h.c = "successMetrics" => h.row.status = "DRAFT"
       /\ h.c = "baselineVariances" =>
            /\ 1 \in Ids("performanceBaselines")
            /\ h.row.cost + db.performanceBaselines[1].budget \in 0..2

JobSound(j) ==
  /\ j.at \in {"idle", "weigh", "write"}
  /\ j.at = "weigh" => j.id \in Ids("successMetrics")
  /\ j.at = "write" => Listed(j.todo) /\ \A n \in DOMAIN j.todo : WriteSound(j.todo[n])

IInv ==
  /\ TablesTyped(RowType)
  /\ BaselineOnce /\ (Ids("baselineVariances") # {} => 1 \in Ids("performanceBaselines"))
  /\ job = [w \in Workers |-> job[w]]
  /\ \A w \in Workers : JobSound(job[w])

(* Requests one after another: what a request has read is still so.        *)
Fresh(j) ==
  /\ j.at = "weigh" => InStatus("successMetrics", j.id, {"DRAFT"})
  /\ j.at = "write" =>
       /\ Len(j.todo) = 1
       /\ Head(j.todo).op = "replace" /\ Head(j.todo).c = "successMetrics" =>
            LET x == Head(j.todo).id IN InStatus("successMetrics", x, {"DRAFT"}) /\ Weighs(x)

SerialInv == InTurn => WeightBounded /\ \A w \in Workers : Fresh(job[w])
=============================================================================
