------------------------------ MODULE Insights ------------------------------
(***************************************************************************)
(* Engines 51-60 (packages/enterprise-intelligence and                     *)
(* enterprise-analytics): indices, KPIs, dashboards and forecasts, which   *)
(* are read models over what the caller supplies, and the governance of    *)
(* the models that forecast and recommend.  A score is 0, or it is not;    *)
(* a KPI has one name, a widget is known by the roles it is shown to.      *)
(***************************************************************************)
EXTENDS Documents

CONSTANTS
  Roles,       \* who looks at a dashboard
  Gates,       \* the mandatory gates of an index
  ModelNames   \* a model and its version

ReviewStatus == {"NOT_REVIEWED", "ACCEPTED", "REJECTED"}

ExecutionAssuranceIndex == [failedGates : SUBSET Gates, passing : BOOLEAN]
SettlementAssuranceIndex == [activeHold : BOOLEAN, passing : BOOLEAN]
KpiDefinition == [status : {"ACTIVE", "RETIRED"}]
KpiValue == [definition : Nat, onTrack : BOOLEAN]
DashboardSnapshot == [role : Roles, widgets : SUBSET SUBSET Roles]
Forecast == [reviewStatus : ReviewStatus]
Measurement == [passing : BOOLEAN]
ModelRegistration == [model : ModelNames, status : {"ACTIVE", "DEPRECATED"}]
EvaluationRecord == [model : Nat, passed : BOOLEAN]
DriftAlert == [model : Nat, status : {"OPEN", "ACKNOWLEDGED", "RESOLVED"}]
ModelFeedback == [model : Nat]
Recommendation == [model : Nat, status : {"PENDING", "ACCEPTED", "DISMISSED"}]

RowType ==
  [executionAssuranceIndices |-> ExecutionAssuranceIndex,
   settlementAssuranceIndices |-> SettlementAssuranceIndex,
   kpiDefinitions |-> KpiDefinition, kpiValues |-> KpiValue,
   dashboardSnapshots |-> DashboardSnapshot,
   executionForecasts |-> Forecast, financialForecasts |-> Forecast,
   performanceScorecards |-> Measurement, portfolioSnapshots |-> Measurement,
   renewalAssessments |-> Measurement,
   modelRegistrations |-> ModelRegistration, evaluationRecords |-> EvaluationRecord,
   driftAlerts |-> DriftAlert, modelFeedback |-> ModelFeedback,
   recommendations |-> Recommendation]

InsightsAssumption ==
  /\ IsFiniteSet(Workers) /\ Workers # {} /\ Mortals \subseteq Workers
  /\ Collections = DOMAIN RowType /\ \A c \in Collections : MaxRows[c] \in Nat

TypeOK == \A c \in Collections : \A x \in Ids(c) : db[c][x] \in RowType[c]

----------------------------------------------------------------------------
(* The tables.                                                             *)
NewExecutionIndex(row) == New("executionAssuranceIndices", row)
NewSettlementIndex(row) == New("settlementAssuranceIndices", row)
PutKpi(x, to) == Set("kpiDefinitions", x, to)
NewValue(row) == New("kpiValues", row)
NewSnapshot(row) == New("dashboardSnapshots", row)
NewForecast == New("executionForecasts", [reviewStatus |-> "NOT_REVIEWED"])
NewFinancialForecast == New("financialForecasts", [reviewStatus |-> "NOT_REVIEWED"])
NewScorecard(row) == New("performanceScorecards", row)
NewPortfolio(row) == New("portfolioSnapshots", row)
NewRenewal(row) == New("renewalAssessments", row)
PutModel(x, to) == Set("modelRegistrations", x, to)
NewEvaluation(row) == New("evaluationRecords", row)
PutAlert(x, to) == Set("driftAlerts", x, to)
NewFeedback(row) == New("modelFeedback", row)
PutRecommendation(x, to) == Set("recommendations", x, to)

(* One ACTIVE definition of a KPI, one registration of a model's version.  *)
KeyFree(h) ==
  /\ h.c = "kpiDefinitions" /\ h.row.status = "ACTIVE"
       => ~\E x \in Ids(h.c) : InStatus(h.c, x, {"ACTIVE"})
  /\ h.c = "modelRegistrations" /\ h.op = "append"
       => \A x \in Ids(h.c) : db[h.c][x].model # h.row.model

(* The checks on the indices and snapshots.                                *)
Consistent(h) ==
  /\ h.c = "executionAssuranceIndices" => (h.row.passing => h.row.failedGates = {})
  /\ h.c = "settlementAssuranceIndices" => (h.row.passing => ~h.row.activeHold)
  /\ h.c = "dashboardSnapshots" => \A widget \in h.row.widgets : h.row.role \in widget

Admits(h) == KeyFree(h) /\ Consistent(h)

----------------------------------------------------------------------------
(* Engines 51 and 52.  Whatever the factors, a failed gate or an active    *)
(* hold makes the score 0.                                                 *)
ComputeExecution(w) ==
  \E failed \in SUBSET Gates, good \in BOOLEAN :
    /\ Room("executionAssuranceIndices")
    /\ Ask(w, <<NewExecutionIndex([failedGates |-> failed, passing |-> good /\ failed = {}])>>)

ComputeSettlement(w) ==
  \E held, good \in BOOLEAN :
    /\ Room("settlementAssuranceIndices")
    /\ Ask(w, <<NewSettlementIndex([activeHold |-> held, passing |-> good /\ ~held])>>)

(* Engine 53.                                                              *)
Define(w) == Room("kpiDefinitions") /\ Ask(w, <<New("kpiDefinitions", [status |-> "ACTIVE"])>>)

Retire(w) ==
  \E x \in Ids("kpiDefinitions") :
    InStatus("kpiDefinitions", x, {"ACTIVE"}) /\ Ask(w, <<PutKpi(x, "RETIRED")>>)

RecordValue(w) ==
  \E x \in Ids("kpiDefinitions"), b \in BOOLEAN :
    /\ Room("kpiValues")
    /\ InStatus("kpiDefinitions", x, {"ACTIVE"})
    /\ Ask(w, <<NewValue([definition |-> x, onTrack |-> b])>>)

(* Engine 54.                                                              *)
Compose(w) ==
  \E r \in Roles, widgets \in SUBSET SUBSET Roles :
    /\ Room("dashboardSnapshots")
    /\ Ask(w, <<NewSnapshot([role |-> r, widgets |-> {x \in widgets : r \in x}])>>)

(* Engines 55 and 56.                                                      *)
ForecastExecution(w) == Room("executionForecasts") /\ Ask(w, <<NewForecast>>)

ForecastFinance(w) == Room("financialForecasts") /\ Ask(w, <<NewFinancialForecast>>)

ReviewForecast(w) ==
  \E c \in {"executionForecasts", "financialForecasts"}, to \in {"ACCEPTED", "REJECTED"} :
    \E x \in Ids(c) :
      /\ db[c][x].reviewStatus = "NOT_REVIEWED"
      /\ Ask(w, <<Put(c, x, [reviewStatus |-> to])>>)

(* Engines 57-59.                                                          *)
Score(w) == \E b \in BOOLEAN :
  Room("performanceScorecards") /\ Ask(w, <<NewScorecard([passing |-> b])>>)

Snapshot(w) == \E b \in BOOLEAN :
  Room("portfolioSnapshots") /\ Ask(w, <<NewPortfolio([passing |-> b])>>)

AssessRenewal(w) == \E b \in BOOLEAN :
  Room("renewalAssessments") /\ Ask(w, <<NewRenewal([passing |-> b])>>)

----------------------------------------------------------------------------
(* Engine 60.                                                              *)
RegisterModel(w) ==
  \E m \in ModelNames :
    /\ Room("modelRegistrations")
    /\ Ask(w, <<New("modelRegistrations", [model |-> m, status |-> "ACTIVE"])>>)

DeprecateModel(w) ==
  \E x \in Ids("modelRegistrations") :
    InStatus("modelRegistrations", x, {"ACTIVE"}) /\ Ask(w, <<PutModel(x, "DEPRECATED")>>)

NewAlert(x) == New("driftAlerts", [model |-> x, status |-> "OPEN"])

(* A failed evaluation raises its alert itself, in a second write.         *)
RecordEvaluation(w) ==
  \E x \in Ids("modelRegistrations"), b \in BOOLEAN :
    /\ Room("evaluationRecords")
    /\ Ask(w, <<NewEvaluation([model |-> x, passed |-> b])>> \o (IF b THEN <<>> ELSE <<NewAlert(x)>>))

RaiseDrift(w) ==
  \E x \in Ids("modelRegistrations") : Room("driftAlerts") /\ Ask(w, <<NewAlert(x)>>)

AcknowledgeDrift(w) ==
  \E x \in Ids("driftAlerts") :
    InStatus("driftAlerts", x, {"OPEN"}) /\ Ask(w, <<PutAlert(x, "ACKNOWLEDGED")>>)

ResolveDrift(w) ==
  \E x \in Ids("driftAlerts") :
    InStatus("driftAlerts", x, {"OPEN", "ACKNOWLEDGED"}) /\ Ask(w, <<PutAlert(x, "RESOLVED")>>)

SubmitFeedback(w) ==
  \E x \in Ids("modelRegistrations") :
    Room("modelFeedback") /\ Ask(w, <<NewFeedback([model |-> x])>>)

Recommend(w) ==
  \E x \in Ids("modelRegistrations") :
    /\ Room("recommendations")
    /\ Ask(w, <<New("recommendations", [model |-> x, status |-> "PENDING"])>>)

DecideRecommendation(w) ==
  \E x \in Ids("recommendations"), to \in {"ACCEPTED", "DISMISSED"} :
    /\ InStatus("recommendations", x, {"PENDING"})
    /\ Ask(w, <<PutRecommendation(x, to)>>)

----------------------------------------------------------------------------
Measure(w) ==
  ComputeExecution(w) \/ ComputeSettlement(w) \/ Define(w) \/ Retire(w) \/ RecordValue(w)
    \/ Compose(w) \/ Score(w) \/ Snapshot(w) \/ AssessRenewal(w)

Advise(w) ==
  ForecastExecution(w) \/ ForecastFinance(w) \/ ReviewForecast(w) \/ Recommend(w)
    \/ DecideRecommendation(w)

GovernModels(w) ==
  RegisterModel(w) \/ DeprecateModel(w) \/ RecordEvaluation(w) \/ RaiseDrift(w)
    \/ AcknowledgeDrift(w) \/ ResolveDrift(w) \/ SubmitFeedback(w)

Handle(w) == Measure(w) \/ Advise(w) \/ GovernModels(w) \/ Commit(w, Admits(Due(w)))

(* Every request is carried through to its end; and with processes that    *)
(* die at any moment in between.                                           *)
Proceed == \E w \in Workers : Handle(w)
Next == Proceed \/ \E w \in Mortals : Die(w)
Spec == Empty /\ [][Next]_vars

----------------------------------------------------------------------------
(* Nobody looks for an active definition before defining or retiring one:  *)
(* values are never recorded against two definitions of one KPI at once.   *)
OneKpi == Cardinality({x \in Ids("kpiDefinitions") : InStatus("kpiDefinitions", x, {"ACTIVE"})}) <= 1

(* Evaluations, alerts, feedback and recommendations name a registration:  *)
(* two registrations of a version would divide what is known of it.        *)
OneRegistration ==
  \A x, y \in Ids("modelRegistrations") :
    db.modelRegistrations[x].model = db.modelRegistrations[y].model => x = y

Failed(x) ==
  {e \in Ids("evaluationRecords") : db.evaluationRecords[e] = [model |-> x, passed |-> FALSE]}

Alerts(x) == {a \in Ids("driftAlerts") : db.driftAlerts[a].model = x}

(* What the security page says of evaluations: a failed one raises a drift *)
(* alert, so that a degrading model never goes unflagged.  It holds while  *)
(* no process dies between the two writes and the bound leaves room for    *)
(* the second, alerts resolved since included.                             *)
FailedIsFlagged ==
  Quiet /\ Room("driftAlerts") =>
    \A x \in Ids("modelRegistrations") : Cardinality(Failed(x)) <= Cardinality(Alerts(x))

----------------------------------------------------------------------------
(* Inductive invariant: what a request is about to write names what it     *)
(* replaces, and a failed evaluation is written before its alert.          *)
WriteSound(h) ==
  /\ WriteTyped(h, RowType)
  /\ h.op = "replace" =>
       /\ h.c # "evaluationRecords"
       /\ h.c = "kpiDefinitions" => h.row.status = "RETIRED"
       /\ h.c \in {"modelRegistrations", "driftAlerts"} => h.row.model = db[h.c][h.id].model

FailedEvaluation(x) == NewEvaluation([model |-> x, passed |-> FALSE])

JobSound(j) ==
  /\ j.at \in {"idle", "write"}
  /\ j.at = "write" =>
       \/ /\ j.todo = <<j.todo[1]>> /\ WriteSound(j.todo[1])
          /\ j.todo[1].c = "evaluationRecords" => j.todo[1].row.passed
       \/ \E x \in Ids("modelRegistrations") : j.todo = <<FailedEvaluation(x), NewAlert(x)>>

IInv ==
  /\ TablesTyped(RowType) /\ OneKpi /\ OneRegistration
  /\ job = [w \in Workers |-> job[w]]
  /\ \A w \in Workers : JobSound(job[w])

(* While no request dies: of the failed evaluations that have no alert     *)
(* yet, each has a request that is about to write it.                      *)
Owing(x) == {w \in Workers : At(w, "write") /\ job[w].todo = <<NewAlert(x)>>}

Flagged(x) == Cardinality(Failed(x)) <= Cardinality(Alerts(x)) + Cardinality(Owing(x))

FlagInv ==
  Deathless /\ Room("driftAlerts") =>
    \A e \in Ids("evaluationRecords") : Flagged(db.evaluationRecords[e].model)
=============================================================================
