--------------------------- MODULE PlatformProofs ---------------------------
(***************************************************************************)
(* What Platform promises, proved of any cast: any number of requests that *)
(* race, come in turn or die, of rows, documents, people and models.  Each *)
(* engine that keeps documents has an inductive invariant of its own (IInv *)
(* in its module), which says of every request that what it is about to    *)
(* write is true still, and others for requests that come in turn or never *)
(* die.  The reports are those of ReportProofs, and the audit trail is the *)
(* one that AuditProofs is about.                                          *)
(***************************************************************************)
EXTENDS Platform, ReportProofs, DocumentProofs, TLAPS

(* At most one row is taken back before one more write.                    *)
OneEach(n, S, q, f) ==
  /\ n \in Nat /\ S \subseteq 1..n /\ \A x, y \in S : x = y
  /\ q \in [1..Cardinality(S) -> S] /\ f = [k \in DOMAIN q |-> f[k]]

LEMMA OneBefore ==
  ASSUME NEW n, NEW S, NEW q, NEW f, NEW g, OneEach(n, S, q, f)
  PROVE  \/ S = {} /\ f \o <<g>> = <<g>>
         \/ 1 \in DOMAIN q /\ q[1] \in S /\ f \o <<g>> = <<f[1], g>>
<1> USE DEF OneEach
<1>1. <<g>> \in Seq({g}) /\ Len(<<g>>) = 1
  OBVIOUS
<1>2. CASE S = {}
  <2>1. Cardinality(S) = 0
    BY <1>2, FS_EmptySet
  <2>2. DOMAIN f = {}
    BY <2>1
  <2>3. f = <<>>
    BY <2>2
  <2>4. <<>> \o <<g>> = <<g>>
    OBVIOUS
  <2> QED BY <1>2, <2>3, <2>4
<1>3. CASE S # {}
  <2>1. PICK x \in S : S = {x}
    BY <1>3
  <2>2. Cardinality(S) = 1
    BY <2>1, FS_Singleton
  <2>3. DOMAIN q = {1} /\ q[1] \in S
    BY <2>2
  <2>4. f = <<f[1]>>
    BY <2>3
  <2>5. <<f[1]>> \o <<g>> = <<f[1], g>>
    BY TodoOfTwo
  <2> QED BY <2>3, <2>4, <2>5
<1> QED BY <1>2, <1>3

----------------------------------------------------------------------------
(* Engines 51 to 60.                                                       *)

LEMMA InsightCardinality ==
  ASSUME NEW s, NEW S PROVE Insight(s)!Cardinality(S) = Cardinality(S)
  BY DEF Insight!Cardinality, Cardinality

InsightTables ==
  {"executionAssuranceIndices", "settlementAssuranceIndices", "kpiDefinitions", "kpiValues",
   "dashboardSnapshots", "executionForecasts", "financialForecasts", "performanceScorecards",
   "portfolioSnapshots", "renewalAssessments", "modelRegistrations", "evaluationRecords",
   "driftAlerts", "modelFeedback", "recommendations"}

LEMMA InsightTyped ==
  ASSUME NEW s \in InsightScenes, Insight(s)!TablesTyped(Insight(s)!RowType)
  PROVE  /\ Insight(s)!Collections = InsightTables /\ DOMAIN db = InsightTables
         /\ \A c \in InsightTables :
              /\ db[c] \in Seq(Insight(s)!RowType[c]) /\ DOMAIN db[c] = 1..Len(db[c]) /\ Len(db[c]) \in Nat
              /\ \A x \in DOMAIN db[c] : db[c][x] \in Insight(s)!RowType[c] /\ x \in Nat
<1>1. Insight(s)!Collections = InsightTables /\ DOMAIN db = InsightTables
  BY PlatformAssumption DEF Insight!InsightsAssumption, Insight!TablesTyped, Insight!RowType, InsightTables
<1>2. \A c \in InsightTables : db[c] \in Seq(Insight(s)!RowType[c])
  BY <1>1 DEF Insight!TablesTyped
<1> QED BY <1>1, <1>2, LenProperties

(* A write, and the tables after it.                                       *)
LEMMA InsightLands ==
  ASSUME NEW s \in InsightScenes, Insight(s)!IInv, NEW h, Insight(s)!WriteSound(h),
         db' = Insight(s)!Written(h)
  PROVE  /\ Insight(s)!TablesTyped(Insight(s)!RowType)' /\ h.c \in InsightTables
         /\ h.op \in {"append", "replace"} /\ h.row \in Insight(s)!RowType[h.c]
         /\ h.op = "replace" => h.id \in DOMAIN db[h.c]
         /\ Lands(db, db', h) /\ Keeps(db, db', h) /\ Adds(db, db', h)
<1> DEFINE T == Insight(s)!RowType
           C == Insight(s)!Collections
<1>1. Fitting(db, C, T, h) /\ db' = Holding(db, h) /\ C = InsightTables
  BY InsightTyped DEF Insight!IInv, Insight!TablesTyped, Insight!WriteSound, Insight!WriteTyped,
     Insight!Ids, Insight!Written, Tabled, Fitting, Holding
<1>2. Tabled(db', C, T) /\ Lands(db, db', h) /\ Keeps(db, db', h) /\ Adds(db, db', h)
  <2> HIDE DEF T, C
  <2> QED BY <1>1, Landing
<1> QED BY <1>1, <1>2 DEF Tabled, Fitting, Insight!TablesTyped

(* What may be written keeps one definition of a KPI in force and one      *)
(* registration of a version, and what others are about to write.          *)
LEMMA InsightWritten ==
  ASSUME NEW s \in InsightScenes, Insight(s)!IInv, NEW h, Insight(s)!WriteSound(h),
         Insight(s)!Admits(h), db' = Insight(s)!Written(h)
  PROVE  /\ Insight(s)!TablesTyped(Insight(s)!RowType)'
         /\ Insight(s)!OneKpi' /\ Insight(s)!OneRegistration'
         /\ \A j : Insight(s)!JobSound(j) => Insight(s)!JobSound(j)'
<1>1. /\ DOMAIN db = InsightTables
      /\ \A c \in InsightTables : DOMAIN db[c] = 1..Len(db[c]) /\ Len(db[c]) \in Nat
  BY InsightTyped DEF Insight!IInv
<1>2. /\ Insight(s)!TablesTyped(Insight(s)!RowType)' /\ h.c \in InsightTables
      /\ h.op \in {"append", "replace"}
      /\ h.op = "replace" => h.id \in DOMAIN db[h.c]
      /\ Lands(db, db', h) /\ Keeps(db, db', h) /\ Adds(db, db', h)
  BY InsightLands
<1>3. Insight(s)!OneKpi'
  <2> DEFINE c == "kpiDefinitions"
             K(D) == {x \in DOMAIN D[c] : D[c][x].status \in {"ACTIVE"}}
  <2>1. /\ Insight(s)!OneKpi <=> Cardinality(K(db)) <= 1
        /\ Insight(s)!OneKpi' <=> Cardinality(K(db')) <= 1
    BY InsightCardinality DEF Insight!OneKpi, Insight!Ids, Insight!InStatus
  <2>2. DOMAIN db'[c] = 1..Len(db'[c]) /\ Len(db'[c]) \in Nat
    <3>1. db'[c] \in Seq(Insight(s)!RowType[c])
      BY <1>2, PlatformAssumption DEF Insight!TablesTyped, Insight!InsightsAssumption, Insight!RowType
    <3> QED BY <3>1
  <2>3. \A x, y \in K(db) : x = y
    <3>1. K(db) \subseteq 1..Len(db[c]) /\ Len(db[c]) \in Nat
      BY <1>1 DEF InsightTables
    <3>2. Cardinality(K(db)) <= 1
      BY <2>1 DEF Insight!IInv
    <3> HIDE DEF K
    <3> QED BY <3>1, <3>2, AtMostOne
  <2>4. \A x, y \in K(db') : x = y
    <3>1. h.c = c /\ h.op = "replace" => h.row.status = "RETIRED"
      BY DEF Insight!WriteSound
    <3>2. h.c = c /\ h.op = "append" /\ h.row.status = "ACTIVE" => K(db) = {}
      BY DEF Insight!Admits, Insight!KeyFree, Insight!Ids, Insight!InStatus
    <3>3. c \in DOMAIN db
      BY <1>1 DEF InsightTables
    <3>4. ASSUME NEW x \in K(db')
          PROVE  x \in K(db) \/ (K(db) = {} /\ x = Len(db[c]) + 1)
      BY <1>2, <3>1, <3>2, <3>3 DEF Keeps, Adds
    <3> HIDE DEF K
    <3> QED BY <2>3, <3>4
  <2>5. K(db') \subseteq 1..Len(db'[c])
    BY <2>2
  <2> HIDE DEF K
  <2> QED BY <2>1, <2>2, <2>4, <2>5, AtMostOne
<1>4. Insight(s)!OneRegistration'
  <2> DEFINE c == "modelRegistrations"
  <2>1. \A x, y \in DOMAIN db[c] : db[c][x].model = db[c][y].model => x = y
    BY DEF Insight!IInv, Insight!OneRegistration, Insight!Ids
  <2>2. c \in DOMAIN db
    BY <1>1 DEF InsightTables
  <2>3. h.c = c /\ h.op = "replace" => h.row.model = db[c][h.id].model
    BY DEF Insight!WriteSound
  <2>4. h.c = c /\ h.op = "append" => \A x \in DOMAIN db[c] : db[c][x].model # h.row.model
    BY DEF Insight!Admits, Insight!KeyFree, Insight!Ids
  <2>5. \A x \in DOMAIN db[c] : db'[c][x].model = db[c][x].model
    BY <1>2, <2>2, <2>3 DEF Keeps
  <2>6. \A x \in DOMAIN db'[c] : x \in DOMAIN db[c]
          \/ (h.op = "append" /\ h.c = c /\ x = Len(db[c]) + 1 /\ db'[c][x] = h.row)
    BY <1>2, <2>2 DEF Adds
  <2>7. \A x, y \in DOMAIN db'[c] : db'[c][x].model = db'[c][y].model => x = y
    BY <2>1, <2>4, <2>5, <2>6
  <2> QED BY <2>7 DEF Insight!OneRegistration, Insight!Ids
<1>5. ASSUME NEW g, Insight(s)!WriteSound(g) PROVE Insight(s)!WriteSound(g)'
  <2>1. g.c \in InsightTables /\ (g.op = "replace" => g.id \in DOMAIN db[g.c])
    BY <1>5, InsightTyped DEF Insight!IInv, Insight!WriteSound, Insight!WriteTyped, Insight!Ids
  <2>2. g.op = "replace" => g.id \in DOMAIN db'[g.c]
    BY <1>1, <1>2, <2>1 DEF Keeps
  <2>3. g.op = "replace" /\ g.c \in {"modelRegistrations", "driftAlerts"} =>
          db'[g.c][g.id].model = db[g.c][g.id].model
    BY <1>1, <1>2, <2>1 DEF Keeps, Insight!WriteSound
  <2> QED BY <1>5, <2>1, <2>2, <2>3 DEF Insight!WriteSound, Insight!WriteTyped, Insight!Ids
<1>6. \A x \in Insight(s)!Ids("modelRegistrations") : x \in Insight(s)!Ids("modelRegistrations")'
  BY <1>1, <1>2 DEF Keeps, Insight!Ids, InsightTables
<1>7. \A j : Insight(s)!JobSound(j) => Insight(s)!JobSound(j)'
  BY <1>5, <1>6 DEF Insight!JobSound, Insight!FailedEvaluation, Insight!NewEvaluation,
     Insight!NewAlert, Insight!New
<1> QED BY <1>2, <1>3, <1>4, <1>7

(* A request that has written a failed evaluation owes its alert, until it *)
(* writes that or finds no room for it.                                    *)
InsightOwes(s, j, x) == j.at = "write" /\ j.todo = <<Insight(s)!NewAlert(x)>>

InsightMoves(s, w) ==
  \E j : /\ job' = [job EXCEPT ![w] = j] /\ UNCHANGED db
         /\ Insight(s)!JobSound(j)
         /\ Insight(s)!Deathless /\ Insight(s)!Room("driftAlerts") =>
              \A x : InsightOwes(s, job[w], x) => InsightOwes(s, j, x)

InsightWrites(s, w) ==
  \E h, j : /\ Insight(s)!WriteSound(h) /\ Insight(s)!Admits(h) /\ db' = Insight(s)!Written(h)
            /\ job' = [job EXCEPT ![w] = j] /\ Insight(s)!JobSound(j)
            /\ \A x : InsightOwes(s, job[w], x) => h = Insight(s)!NewAlert(x)
            /\ h.c = "evaluationRecords" /\ ~h.row.passed =>
                 h.op = "append" /\ InsightOwes(s, j, h.row.model)

LEMMA InsightStarts ==
  ASSUME NEW s \in InsightScenes, NEW w, NEW t, Insight(s)!Ask(w, t),
         Insight(s)!JobSound([at |-> "write", todo |-> t])
  PROVE  InsightMoves(s, w)
<1> DEFINE j == [at |-> "write", todo |-> t]
<1>1. job[w].at = "idle" /\ job' = [job EXCEPT ![w] = j] /\ UNCHANGED db
  BY DEF Insight!Ask, Insight!Receive, Insight!Carry, Insight!At
<1>2. Insight(s)!JobSound(j)
  OBVIOUS
<1> HIDE DEF j
<1> QED BY <1>1, <1>2 DEF InsightMoves, InsightOwes

LEMMA InsightAsks ==
  ASSUME NEW s \in InsightScenes, NEW w, NEW h, Insight(s)!Ask(w, <<h>>), Insight(s)!WriteSound(h),
         h.c = "evaluationRecords" => h.row.passed
  PROVE  InsightMoves(s, w)
<1> DEFINE j == [at |-> "write", todo |-> <<h>>]
<1>1. j.at = "write" /\ j.todo = <<h>> /\ j.todo[1] = h
  OBVIOUS
<1> HIDE DEF j
<1>2. Insight(s)!JobSound(j)
  BY <1>1 DEF Insight!JobSound
<1> QED BY <1>2, InsightStarts DEF j

(* The writes: a new row, and a row that changes its status.               *)
LEMMA InsightNew ==
  ASSUME NEW s \in InsightScenes, Insight(s)!IInv, NEW c \in InsightTables,
         NEW row \in Insight(s)!RowType[c]
  PROVE  LET h == Insight(s)!New(c, row) IN Insight(s)!WriteSound(h) /\ h.c = c /\ h.row = row
<1>1. Insight(s)!Collections = InsightTables
  BY InsightTyped DEF Insight!IInv
<1> QED BY <1>1 DEF Insight!New, Insight!WriteSound, Insight!WriteTyped

LEMMA InsightSet ==
  ASSUME NEW s \in InsightScenes, Insight(s)!IInv,
         NEW c \in InsightTables \ {"evaluationRecords"}, NEW x \in DOMAIN db[c], NEW to,
         [db[c][x] EXCEPT !.status = to] \in Insight(s)!RowType[c],
         c = "kpiDefinitions" => to = "RETIRED" /\ "status" \in DOMAIN db[c][x]
  PROVE  LET h == Insight(s)!Set(c, x, to) IN Insight(s)!WriteSound(h) /\ h.c = c
<1>1. Insight(s)!Collections = InsightTables
  BY InsightTyped DEF Insight!IInv
<1>2. [db[c][x] EXCEPT !.status = to].model = db[c][x].model
  OBVIOUS
<1> QED BY <1>1, <1>2 DEF Insight!Set, Insight!Put, Insight!WriteSound, Insight!WriteTyped, Insight!Ids

LEMMA InsightGivesUp ==
  ASSUME NEW s \in InsightScenes, NEW w, Insight(s)!GiveUp(w),
         Insight(s)!Deathless /\ Insight(s)!Room("driftAlerts") =>
           \A x : ~InsightOwes(s, job[w], x)
  PROVE  InsightMoves(s, w)
<1> DEFINE j == Insight(s)!Idle
<1>1. j.at = "idle" /\ job' = [job EXCEPT ![w] = j] /\ UNCHANGED db
  BY DEF Insight!GiveUp, Insight!Return, Insight!Carry, Insight!Idle
<1> HIDE DEF j
<1>2. Insight(s)!JobSound(j)
  BY <1>1 DEF Insight!JobSound
<1> QED BY <1>1, <1>2 DEF InsightMoves

LEMMA InsightHandles ==
  ASSUME NEW s \in InsightScenes, Insight(s)!IInv, NEW w \in Cast[s].workers,
         Insight(s)!Measure(w) \/ Insight(s)!Advise(w) \/ Insight(s)!GovernModels(w)
  PROVE  InsightMoves(s, w)
<1>1. /\ DOMAIN db = InsightTables
      /\ \A c \in InsightTables : \A x \in DOMAIN db[c] : db[c][x] \in Insight(s)!RowType[c] /\ x \in Nat
  BY InsightTyped DEF Insight!IInv
<1>2. CASE Insight(s)!ComputeExecution(w)
  <2>1. PICK failed \in SUBSET Cast[s].gates, good \in BOOLEAN :
          Insight(s)!Ask(w, <<Insight(s)!New("executionAssuranceIndices", [failedGates |-> failed, passing |-> good /\ failed = {}])>>)
    BY <1>2 DEF Insight!ComputeExecution, Insight!Ids, Insight!NewExecutionIndex
  <2>2. [failedGates |-> failed, passing |-> good /\ failed = {}] \in Insight(s)!RowType["executionAssuranceIndices"]
    BY <1>1 DEF Insight!RowType, Insight!ExecutionAssuranceIndex, InsightTables
  <2> QED BY <2>1, <2>2, InsightNew, InsightAsks DEF InsightTables
<1>3. CASE Insight(s)!ComputeSettlement(w)
  <2>1. PICK held \in BOOLEAN, good \in BOOLEAN :
          Insight(s)!Ask(w, <<Insight(s)!New("settlementAssuranceIndices", [activeHold |-> held, passing |-> good /\ ~held])>>)
    BY <1>3 DEF Insight!ComputeSettlement, Insight!Ids, Insight!NewSettlementIndex
  <2>2. [activeHold |-> held, passing |-> good /\ ~held] \in Insight(s)!RowType["settlementAssuranceIndices"]
    BY <1>1 DEF Insight!RowType, Insight!SettlementAssuranceIndex, InsightTables
  <2> QED BY <2>1, <2>2, InsightNew, InsightAsks DEF InsightTables
<1>4. CASE Insight(s)!Define(w)
  <2>1. Insight(s)!Ask(w, <<Insight(s)!New("kpiDefinitions", [status |-> "ACTIVE"])>>)
    BY <1>4 DEF Insight!Define, Insight!Ids
  <2>2. [status |-> "ACTIVE"] \in Insight(s)!RowType["kpiDefinitions"]
    BY <1>1 DEF Insight!RowType, Insight!KpiDefinition, InsightTables
  <2> QED BY <2>1, <2>2, InsightNew, InsightAsks DEF InsightTables
<1>5. CASE Insight(s)!RecordValue(w)
  <2>1. PICK x \in DOMAIN db["kpiDefinitions"], b \in BOOLEAN :
          Insight(s)!Ask(w, <<Insight(s)!New("kpiValues", [definition |-> x, onTrack |-> b])>>)
    BY <1>5 DEF Insight!RecordValue, Insight!Ids, Insight!NewValue
  <2>2. [definition |-> x, onTrack |-> b] \in Insight(s)!RowType["kpiValues"]
    BY <1>1 DEF Insight!RowType, Insight!KpiValue, InsightTables
  <2> QED BY <2>1, <2>2, InsightNew, InsightAsks DEF InsightTables
<1>6. CASE Insight(s)!Compose(w)
  <2>1. PICK r \in Cast[s].roles, widgets \in SUBSET SUBSET Cast[s].roles :
          Insight(s)!Ask(w, <<Insight(s)!New("dashboardSnapshots",
                                [role |-> r, widgets |-> {x \in widgets : r \in x}])>>)
    BY <1>6 DEF Insight!Compose, Insight!Ids, Insight!NewSnapshot
  <2> DEFINE v == {x \in widgets : r \in x}
  <2>2. v \in SUBSET SUBSET Cast[s].roles /\ Insight(s)!Ask(w, <<Insight(s)!New("dashboardSnapshots", [role |-> r, widgets |-> v])>>)
    BY <2>1
  <2> HIDE DEF v
  <2>3. [role |-> r, widgets |-> v] \in Insight(s)!RowType["dashboardSnapshots"]
    BY <2>2 DEF Insight!RowType, Insight!DashboardSnapshot
  <2> QED BY <2>2, <2>3, InsightNew, InsightAsks DEF InsightTables
<1>7. CASE Insight(s)!ForecastExecution(w)
  <2>1. Insight(s)!Ask(w, <<Insight(s)!New("executionForecasts", [reviewStatus |-> "NOT_REVIEWED"])>>)
    BY <1>7 DEF Insight!ForecastExecution, Insight!Ids, Insight!NewForecast
  <2>2. [reviewStatus |-> "NOT_REVIEWED"] \in Insight(s)!RowType["executionForecasts"]
    BY <1>1 DEF Insight!RowType, Insight!Forecast, InsightTables, Insight!ReviewStatus
  <2> QED BY <2>1, <2>2, InsightNew, InsightAsks DEF InsightTables
<1>8. CASE Insight(s)!ForecastFinance(w)
  <2>1. Insight(s)!Ask(w, <<Insight(s)!New("financialForecasts", [reviewStatus |-> "NOT_REVIEWED"])>>)
    BY <1>8 DEF Insight!ForecastFinance, Insight!Ids, Insight!NewFinancialForecast
  <2>2. [reviewStatus |-> "NOT_REVIEWED"] \in Insight(s)!RowType["financialForecasts"]
    BY <1>1 DEF Insight!RowType, Insight!Forecast, InsightTables, Insight!ReviewStatus
  <2> QED BY <2>1, <2>2, InsightNew, InsightAsks DEF InsightTables
<1>9. CASE Insight(s)!Score(w)
  <2>1. PICK b \in BOOLEAN :
          Insight(s)!Ask(w, <<Insight(s)!New("performanceScorecards", [passing |-> b])>>)
    BY <1>9 DEF Insight!Score, Insight!Ids, Insight!NewScorecard
  <2>2. [passing |-> b] \in Insight(s)!RowType["performanceScorecards"]
    BY <1>1 DEF Insight!RowType, Insight!Measurement, InsightTables
  <2> QED BY <2>1, <2>2, InsightNew, InsightAsks DEF InsightTables
<1>10. CASE Insight(s)!Snapshot(w)
  <2>1. PICK b \in BOOLEAN :
          Insight(s)!Ask(w, <<Insight(s)!New("portfolioSnapshots", [passing |-> b])>>)
    BY <1>10 DEF Insight!Snapshot, Insight!Ids, Insight!NewPortfolio
  <2>2. [passing |-> b] \in Insight(s)!RowType["portfolioSnapshots"]
    BY <1>1 DEF Insight!RowType, Insight!Measurement, InsightTables
  <2> QED BY <2>1, <2>2, InsightNew, InsightAsks DEF InsightTables
<1>11. CASE Insight(s)!AssessRenewal(w)
  <2>1. PICK b \in BOOLEAN :
          Insight(s)!Ask(w, <<Insight(s)!New("renewalAssessments", [passing |-> b])>>)
    BY <1>11 DEF Insight!AssessRenewal, Insight!Ids, Insight!NewRenewal
  <2>2. [passing |-> b] \in Insight(s)!RowType["renewalAssessments"]
    BY <1>1 DEF Insight!RowType, Insight!Measurement, InsightTables
  <2> QED BY <2>1, <2>2, InsightNew, InsightAsks DEF InsightTables
<1>12. CASE Insight(s)!Recommend(w)
  <2>1. PICK x \in DOMAIN db["modelRegistrations"] :
          Insight(s)!Ask(w, <<Insight(s)!New("recommendations", [model |-> x, status |-> "PENDING"])>>)
    BY <1>12 DEF Insight!Recommend, Insight!Ids
  <2>2. [model |-> x, status |-> "PENDING"] \in Insight(s)!RowType["recommendations"]
    BY <1>1 DEF Insight!RowType, Insight!Recommendation, InsightTables
  <2> QED BY <2>1, <2>2, InsightNew, InsightAsks DEF InsightTables
<1>13. CASE Insight(s)!RegisterModel(w)
  <2>1. PICK m \in Cast[s].models :
          Insight(s)!Ask(w, <<Insight(s)!New("modelRegistrations", [model |-> m, status |-> "ACTIVE"])>>)
    BY <1>13 DEF Insight!RegisterModel, Insight!Ids
  <2>2. [model |-> m, status |-> "ACTIVE"] \in Insight(s)!RowType["modelRegistrations"]
    BY <1>1 DEF Insight!RowType, Insight!ModelRegistration, InsightTables
  <2> QED BY <2>1, <2>2, InsightNew, InsightAsks DEF InsightTables
<1>14. CASE Insight(s)!RaiseDrift(w)
  <2>1. PICK x \in DOMAIN db["modelRegistrations"] :
          Insight(s)!Ask(w, <<Insight(s)!New("driftAlerts", [model |-> x, status |-> "OPEN"])>>)
    BY <1>14 DEF Insight!RaiseDrift, Insight!Ids, Insight!NewAlert
  <2>2. [model |-> x, status |-> "OPEN"] \in Insight(s)!RowType["driftAlerts"]
    BY <1>1 DEF Insight!RowType, Insight!DriftAlert, InsightTables
  <2> QED BY <2>1, <2>2, InsightNew, InsightAsks DEF InsightTables
<1>15. CASE Insight(s)!SubmitFeedback(w)
  <2>1. PICK x \in DOMAIN db["modelRegistrations"] :
          Insight(s)!Ask(w, <<Insight(s)!New("modelFeedback", [model |-> x])>>)
    BY <1>15 DEF Insight!SubmitFeedback, Insight!Ids, Insight!NewFeedback
  <2>2. [model |-> x] \in Insight(s)!RowType["modelFeedback"]
    BY <1>1 DEF Insight!RowType, Insight!ModelFeedback, InsightTables
  <2> QED BY <2>1, <2>2, InsightNew, InsightAsks DEF InsightTables
<1>16. CASE Insight(s)!Retire(w)
  <2>1. PICK x \in DOMAIN db["kpiDefinitions"] :
          Insight(s)!Ask(w, <<Insight(s)!Set("kpiDefinitions", x, "RETIRED")>>)
    BY <1>16 DEF Insight!Retire, Insight!Ids, Insight!PutKpi
  <2>2. [db["kpiDefinitions"][x] EXCEPT !.status = "RETIRED"] \in Insight(s)!RowType["kpiDefinitions"] /\ "status" \in DOMAIN db["kpiDefinitions"][x]
    BY <1>1 DEF Insight!RowType, Insight!KpiDefinition, InsightTables
  <2> QED BY <2>1, <2>2, InsightSet, InsightAsks DEF InsightTables
<1>17. CASE Insight(s)!DeprecateModel(w)
  <2>1. PICK x \in DOMAIN db["modelRegistrations"] :
          Insight(s)!Ask(w, <<Insight(s)!Set("modelRegistrations", x, "DEPRECATED")>>)
    BY <1>17 DEF Insight!DeprecateModel, Insight!Ids, Insight!PutModel
  <2>2. [db["modelRegistrations"][x] EXCEPT !.status = "DEPRECATED"] \in Insight(s)!RowType["modelRegistrations"]
    BY <1>1 DEF Insight!RowType, Insight!ModelRegistration, InsightTables
  <2> QED BY <2>1, <2>2, InsightSet, InsightAsks DEF InsightTables
<1>18. CASE Insight(s)!AcknowledgeDrift(w)
  <2>1. PICK x \in DOMAIN db["driftAlerts"] :
          Insight(s)!Ask(w, <<Insight(s)!Set("driftAlerts", x, "ACKNOWLEDGED")>>)
    BY <1>18 DEF Insight!AcknowledgeDrift, Insight!Ids, Insight!PutAlert
  <2>2. [db["driftAlerts"][x] EXCEPT !.status = "ACKNOWLEDGED"] \in Insight(s)!RowType["driftAlerts"]
    BY <1>1 DEF Insight!RowType, Insight!DriftAlert, InsightTables
  <2> QED BY <2>1, <2>2, InsightSet, InsightAsks DEF InsightTables
<1>19. CASE Insight(s)!ResolveDrift(w)
  <2>1. PICK x \in DOMAIN db["driftAlerts"] :
          Insight(s)!Ask(w, <<Insight(s)!Set("driftAlerts", x, "RESOLVED")>>)
    BY <1>19 DEF Insight!ResolveDrift, Insight!Ids, Insight!PutAlert
  <2>2. [db["driftAlerts"][x] EXCEPT !.status = "RESOLVED"] \in Insight(s)!RowType["driftAlerts"]
    BY <1>1 DEF Insight!RowType, Insight!DriftAlert, InsightTables
  <2> QED BY <2>1, <2>2, InsightSet, InsightAsks DEF InsightTables
<1>20. CASE Insight(s)!DecideRecommendation(w)
  <2>1. PICK x \in DOMAIN db["recommendations"], to \in {"ACCEPTED", "DISMISSED"} :
          Insight(s)!Ask(w, <<Insight(s)!Set("recommendations", x, to)>>)
    BY <1>20 DEF Insight!DecideRecommendation, Insight!Ids, Insight!PutRecommendation
  <2>2. [db["recommendations"][x] EXCEPT !.status = to] \in Insight(s)!RowType["recommendations"]
    BY <1>1 DEF Insight!RowType, Insight!Recommendation, InsightTables
  <2> QED BY <2>1, <2>2, InsightSet, InsightAsks DEF InsightTables
<1>21. CASE Insight(s)!ReviewForecast(w)
  <2>1. PICK c \in {"executionForecasts", "financialForecasts"}, to \in {"ACCEPTED", "REJECTED"} :
          \E x \in DOMAIN db[c] : Insight(s)!Ask(w, <<Insight(s)!Put(c, x, [reviewStatus |-> to])>>)
    BY <1>21 DEF Insight!ReviewForecast, Insight!Ids
  <2>2. PICK x \in DOMAIN db[c] : Insight(s)!Ask(w, <<Insight(s)!Put(c, x, [reviewStatus |-> to])>>)
    BY <2>1
  <2> DEFINE h == Insight(s)!Put(c, x, [reviewStatus |-> to])
  <2>3. [reviewStatus |-> to] \in Insight(s)!RowType[c]
    <3>1. [reviewStatus |-> to] \in Insight(s)!Forecast
      BY DEF Insight!Forecast, Insight!ReviewStatus
    <3>2. Insight(s)!RowType[c] = Insight(s)!Forecast
      BY DEF Insight!RowType
    <3> QED BY <3>1, <3>2
  <2>4. h.op = "replace" /\ h.c = c /\ h.id = x /\ h.row = [reviewStatus |-> to]
    BY DEF Insight!Put
  <2>5. Insight(s)!WriteSound(h)
    <3>1. Insight(s)!Collections = InsightTables
      BY InsightTyped DEF Insight!IInv
    <3> HIDE DEF h
    <3> QED BY <2>3, <2>4, <3>1 DEF Insight!WriteSound, Insight!WriteTyped, Insight!Ids, InsightTables
  <2>6. h.c # "evaluationRecords"
    BY <2>4
  <2> QED BY <2>2, <2>5, <2>6, InsightAsks
<1>22. CASE Insight(s)!RecordEvaluation(w)
  <2> DEFINE e(x, b) == Insight(s)!NewEvaluation([model |-> x, passed |-> b])
  <2>1. PICK x \in DOMAIN db["modelRegistrations"], b \in BOOLEAN :
          Insight(s)!Ask(w, <<e(x, b)>> \o (IF b THEN <<>> ELSE <<Insight(s)!NewAlert(x)>>))
    BY <1>22 DEF Insight!RecordEvaluation, Insight!Ids
  <2>2. CASE b
    <3>1. Insight(s)!Ask(w, <<e(x, TRUE)>>)
      <4>1. <<e(x, TRUE)>> \o <<>> = <<e(x, TRUE)>>
        BY TodoOfOne, ConcatEmptySeq DEF ListedTodo
      <4>2. b = TRUE
        BY <2>2
      <4> HIDE DEF e
      <4> QED BY <2>1, <4>1, <4>2
    <3>2. [model |-> x, passed |-> TRUE] \in Insight(s)!RowType["evaluationRecords"]
      BY <1>1 DEF Insight!RowType, Insight!EvaluationRecord, InsightTables
    <3> QED BY <3>1, <3>2, InsightNew, InsightAsks DEF Insight!NewEvaluation, InsightTables
  <2>3. CASE ~b
    <3> DEFINE f == Insight(s)!FailedEvaluation(x)
               a == Insight(s)!NewAlert(x)
               j == [at |-> "write", todo |-> <<f, a>>]
    <3>1. Insight(s)!Ask(w, <<f, a>>)
      <4>1. <<f>> \o <<a>> = <<f, a>>
        BY TodoOfTwo
      <4>2. e(x, b) = f
        BY <2>3 DEF Insight!FailedEvaluation
      <4>3. (IF b THEN <<>> ELSE <<Insight(s)!NewAlert(x)>>) = <<a>>
        BY <2>3
      <4>4. <<e(x, b)>> \o (IF b THEN <<>> ELSE <<Insight(s)!NewAlert(x)>>) = <<f, a>>
        BY <4>1, <4>2, <4>3
      <4> QED BY <2>1, <4>4
    <3>2. j.at = "write" /\ j.todo = <<f, a>>
      OBVIOUS
    <3> HIDE DEF j
    <3>3. Insight(s)!JobSound(j)
      BY <3>2 DEF Insight!JobSound, Insight!Ids
    <3> QED BY <3>1, <3>3, InsightStarts DEF j
  <2> QED BY <2>2, <2>3
<1> QED BY <1>2, <1>3, <1>4, <1>5, <1>6, <1>7, <1>8, <1>9, <1>10, <1>11, <1>12, <1>13,
           <1>14, <1>15, <1>16, <1>17, <1>18, <1>19, <1>20, <1>21, <1>22
        DEF Insight!Measure, Insight!Advise, Insight!GovernModels

LEMMA InsightCommits ==
  ASSUME NEW s \in InsightScenes, Insight(s)!IInv, NEW w \in Cast[s].workers,
         Insight(s)!Commit(w, Insight(s)!Admits(Insight(s)!Due(w)))
  PROVE  InsightMoves(s, w) \/ InsightWrites(s, w)
<1> DEFINE t == job[w].todo
<1>1. job[w].at = "write" /\ Insight(s)!JobSound(job[w])
  BY DEF Insight!Commit, Insight!At, Insight!IInv
<1>2. CASE t = <<t[1]>> /\ Insight(s)!WriteSound(t[1]) /\ (t[1].c = "evaluationRecords" => t[1].row.passed)
  <2> DEFINE h == t[1]
             j == Insight(s)!Idle
  <2>1. Insight(s)!Due(w) = h /\ Tail(t) = <<>>
    BY <1>2, TodoOfOne DEF Insight!Due
  <2>2. \A x : InsightOwes(s, job[w], x) => h = Insight(s)!NewAlert(x)
    <3> SUFFICES ASSUME NEW x, InsightOwes(s, job[w], x) PROVE h = Insight(s)!NewAlert(x)
      OBVIOUS
    <3>1. t = <<Insight(s)!NewAlert(x)>>
      BY DEF InsightOwes
    <3> QED BY <3>1
  <2>3. CASE Insight(s)!GiveUp(w) /\ (~Insight(s)!Admits(h) \/ (h.op = "append" /\ ~Insight(s)!Room(h.c)))
    <3>1. \A x : h = Insight(s)!NewAlert(x) => Insight(s)!Admits(h) /\ h.c = "driftAlerts"
      BY DEF Insight!NewAlert, Insight!New, Insight!Admits, Insight!KeyFree, Insight!Consistent
    <3> HIDE DEF h
    <3>2. Insight(s)!Room("driftAlerts") => \A x : ~InsightOwes(s, job[w], x)
      BY <2>2, <2>3, <3>1
    <3> QED BY <2>3, <3>2, InsightGivesUp
  <2>4. CASE Insight(s)!Admits(h) /\ db' = Insight(s)!Written(h) /\ Insight(s)!Return(w)
    <3>1. j.at = "idle" /\ job' = [job EXCEPT ![w] = j]
      BY <2>4 DEF Insight!Return, Insight!Carry, Insight!Idle
    <3> HIDE DEF j
    <3>2. Insight(s)!JobSound(j)
      BY <3>1 DEF Insight!JobSound
    <3> QED BY <1>2, <2>2, <2>4, <3>1, <3>2 DEF InsightWrites
  <2> QED BY <2>1, <2>3, <2>4 DEF Insight!Commit
<1>3. ASSUME NEW x \in Insight(s)!Ids("modelRegistrations"),
             t = <<Insight(s)!FailedEvaluation(x), Insight(s)!NewAlert(x)>>
      PROVE  InsightMoves(s, w) \/ InsightWrites(s, w)
  <2> DEFINE f == Insight(s)!FailedEvaluation(x)
             a == Insight(s)!NewAlert(x)
             j == [at |-> "write", todo |-> <<a>>]
  <2>1. Insight(s)!Due(w) = f /\ Tail(t) = <<a>> /\ Len(t) = 2
    BY <1>3, TodoOfTwo DEF Insight!Due
  <2>2. \A y : ~InsightOwes(s, job[w], y)
    <3> SUFFICES ASSUME NEW y, InsightOwes(s, job[w], y) PROVE FALSE
      OBVIOUS
    <3>1. Len(<<Insight(s)!NewAlert(y)>>) = 1
      BY TodoOfOne
    <3> QED BY <2>1, <3>1 DEF InsightOwes
  <2>3. x \in Nat /\ x \in DOMAIN db["modelRegistrations"]
    BY InsightTyped DEF Insight!IInv, Insight!Ids, InsightTables
  <2>4. Insight(s)!WriteSound(f) /\ f.c = "evaluationRecords" /\ f.row = [model |-> x, passed |-> FALSE] /\ f.op = "append"
    <3>1. [model |-> x, passed |-> FALSE] \in Insight(s)!RowType["evaluationRecords"]
      BY <2>3 DEF Insight!RowType, Insight!EvaluationRecord
    <3> QED BY <3>1, InsightNew DEF Insight!FailedEvaluation, Insight!NewEvaluation, InsightTables, Insight!New
  <2>5. Insight(s)!WriteSound(a) /\ a.c = "driftAlerts"
    <3>1. [model |-> x, status |-> "OPEN"] \in Insight(s)!RowType["driftAlerts"]
      BY <2>3 DEF Insight!RowType, Insight!DriftAlert
    <3> QED BY <3>1, InsightNew DEF Insight!NewAlert, InsightTables
  <2>6. <<a>> # <<>> /\ j.at = "write" /\ j.todo = <<a>> /\ j.todo[1] = a
    OBVIOUS
  <2>7. CASE Insight(s)!GiveUp(w)
    BY <2>2, <2>7, InsightGivesUp
  <2>8. CASE Insight(s)!Admits(f) /\ db' = Insight(s)!Written(f) /\ Insight(s)!Carry(w, j)
    <3>1. job' = [job EXCEPT ![w] = j]
      BY <2>8 DEF Insight!Carry
    <3>2. f.row.model = x
      BY <2>4
    <3> HIDE DEF j, f
    <3>3. Insight(s)!JobSound(j) /\ InsightOwes(s, j, x)
      BY <2>5, <2>6 DEF Insight!JobSound, InsightOwes
    <3> QED BY <2>2, <2>4, <2>8, <3>1, <3>2, <3>3 DEF InsightWrites
  <2> QED BY <2>1, <2>6, <2>7, <2>8 DEF Insight!Commit
<1> QED BY <1>1, <1>2, <1>3 DEF Insight!JobSound

LEMMA InsightTakes ==
  ASSUME NEW s \in InsightScenes, Insight(s)!IInv, [Insight(s)!Next]_<<db, job>>
  PROVE  \E w \in Cast[s].workers : InsightMoves(s, w) \/ InsightWrites(s, w)
<1>1. CASE Insight(s)!Proceed
  BY <1>1, InsightHandles, InsightCommits DEF Insight!Proceed, Insight!Handle
<1>2. ASSUME NEW w \in Cast[s].mortals, Insight(s)!Die(w) PROVE w \in Cast[s].workers /\ InsightMoves(s, w)
  <2>1. w \in Cast[s].workers /\ Insight(s)!GiveUp(w) /\ ~Insight(s)!Deathless
    BY <1>2, PlatformAssumption DEF Insight!InsightsAssumption, Insight!Die, Insight!Crash, Insight!GiveUp,
       Insight!Deathless
  <2> QED BY <2>1, InsightGivesUp
<1>3. CASE UNCHANGED <<db, job>>
  <2>1. PICK w \in Cast[s].workers : TRUE
    BY PlatformAssumption DEF Insight!InsightsAssumption
  <2>2. job' = [job EXCEPT ![w] = job[w]] /\ Insight(s)!JobSound(job[w])
    BY <1>3, CarryStays DEF Insight!IInv
  <2>3. InsightMoves(s, w)
    BY <1>3, <2>2 DEF InsightMoves
  <2> QED BY <2>3
<1> QED BY <1>1, <1>2, <1>3 DEF Insight!Next

LEMMA InsightInit ==
  ASSUME NEW s \in InsightScenes, Insight(s)!Empty PROVE Insight(s)!IInv /\ Insight(s)!FlagInv
<1>1. /\ db = [c \in Insight(s)!Collections |-> <<>>]
      /\ job = [w \in Cast[s].workers |-> Insight(s)!Idle]
      /\ Insight(s)!Collections = InsightTables
  BY PlatformAssumption DEF Insight!Empty, Insight!InsightsAssumption, Insight!RowType, InsightTables
<1>2. \A c \in InsightTables : db[c] = <<>> /\ DOMAIN db[c] = {}
  BY <1>1
<1>3. Insight(s)!TablesTyped(Insight(s)!RowType)
  <2>1. \A T : <<>> \in Seq(T)
    OBVIOUS
  <2> QED BY <1>1, <1>2, <2>1 DEF Insight!TablesTyped
<1>4. Insight(s)!OneKpi
  <2>1. {x \in Insight(s)!Ids("kpiDefinitions") : Insight(s)!InStatus("kpiDefinitions", x, {"ACTIVE"})} = {}
    BY <1>2 DEF Insight!Ids, InsightTables
  <2> QED BY <2>1, InsightCardinality, FS_EmptySet DEF Insight!OneKpi
<1>5. Insight(s)!OneRegistration /\ Insight(s)!FlagInv
  BY <1>2 DEF Insight!Ids, InsightTables, Insight!OneRegistration, Insight!FlagInv
<1>6. job = [w \in Cast[s].workers |-> job[w]]
  BY <1>1
<1>7. \A w \in Cast[s].workers : Insight(s)!JobSound(job[w])
  BY <1>1 DEF Insight!JobSound, Insight!Idle
<1> QED BY <1>3, <1>4, <1>5, <1>6, <1>7 DEF Insight!IInv

LEMMA InsightPreserves ==
  ASSUME NEW s \in InsightScenes, Insight(s)!IInv, [Insight(s)!Next]_<<db, job>>
  PROVE  Insight(s)!IInv'
<1>1. PICK w \in Cast[s].workers : InsightMoves(s, w) \/ InsightWrites(s, w)
  BY InsightTakes
<1>2. job = [v \in Cast[s].workers |-> job[v]] /\ \A v \in Cast[s].workers : Insight(s)!JobSound(job[v])
  BY DEF Insight!IInv
<1>3. CASE InsightMoves(s, w)
  <2>1. PICK j : job' = [job EXCEPT ![w] = j] /\ UNCHANGED db /\ Insight(s)!JobSound(j)
    BY <1>3 DEF InsightMoves
  <2>2. job' = [v \in Cast[s].workers |-> job'[v]] /\ \A v \in Cast[s].workers : Insight(s)!JobSound(job'[v])
    BY <1>2, <2>1, CarryMoves
  <2>3. \A i : Insight(s)!JobSound(i) => Insight(s)!JobSound(i)'
    BY <2>1 DEF Insight!JobSound, Insight!WriteSound, Insight!WriteTyped, Insight!Ids, Insight!FailedEvaluation,
       Insight!NewEvaluation, Insight!NewAlert, Insight!New
  <2> QED BY <2>1, <2>2, <2>3 DEF Insight!IInv, Insight!TablesTyped, Insight!OneKpi, Insight!OneRegistration,
     Insight!Ids, Insight!InStatus
<1>4. CASE InsightWrites(s, w)
  <2>1. PICK h, j : /\ Insight(s)!WriteSound(h) /\ Insight(s)!Admits(h) /\ db' = Insight(s)!Written(h)
                    /\ job' = [job EXCEPT ![w] = j] /\ Insight(s)!JobSound(j)
    BY <1>4 DEF InsightWrites
  <2>2. job' = [v \in Cast[s].workers |-> job'[v]] /\ \A v \in Cast[s].workers : Insight(s)!JobSound(job'[v])
    BY <1>2, <2>1, CarryMoves
  <2>3. /\ Insight(s)!TablesTyped(Insight(s)!RowType)'
        /\ Insight(s)!OneKpi' /\ Insight(s)!OneRegistration'
        /\ \A i : Insight(s)!JobSound(i) => Insight(s)!JobSound(i)'
    BY <2>1, InsightWritten
  <2> QED BY <2>2, <2>3 DEF Insight!IInv
<1> QED BY <1>1, <1>3, <1>4

(* While no request dies and there is room for alerts, every failed        *)
(* evaluation has an alert or a request that is about to write it.         *)
LEMMA InsightFlags ==
  ASSUME NEW s \in InsightScenes, Insight(s)!IInv, Insight(s)!FlagInv, [Insight(s)!Next]_<<db, job>>
  PROVE  Insight(s)!FlagInv'
<1> DEFINE c == "driftAlerts"
           v == "evaluationRecords"
           F(D, x) == {e \in DOMAIN D[v] : D[v][e] = [model |-> x, passed |-> FALSE]}
           A(D, x) == {a \in DOMAIN D[c] : D[c][a].model = x}
           O(J, x) == {w \in Cast[s].workers : InsightOwes(s, J[w], x)}
<1> SUFFICES ASSUME Insight(s)!Deathless, Insight(s)!Room(c)', NEW x
             PROVE  Cardinality(F(db', x)) <= Cardinality(A(db', x)) + Cardinality(O(job', x))
  BY InsightCardinality DEF Insight!FlagInv, Insight!Deathless, Insight!Flagged, Insight!Failed, Insight!Alerts,
     Insight!Owing, InsightOwes, Insight!Ids, Insight!At, Insight!NewAlert, Insight!New
<1>1. PICK w \in Cast[s].workers : InsightMoves(s, w) \/ InsightWrites(s, w)
  BY InsightTakes
<1>2. Insight(s)!TablesTyped(Insight(s)!RowType)'
  BY InsightPreserves DEF Insight!IInv
<1>3. /\ c \in InsightTables /\ v \in InsightTables /\ DOMAIN db = InsightTables
      /\ \A t \in {c, v} : DOMAIN db[t] = 1..Len(db[t]) /\ Len(db[t]) \in Nat
      /\ \A t \in {c, v} : DOMAIN db'[t] = 1..Len(db'[t]) /\ Len(db'[t]) \in Nat
  <2>1. c \in InsightTables /\ v \in InsightTables
    BY DEF InsightTables
  <2>2. DOMAIN db = InsightTables /\ Insight(s)!Collections = InsightTables
    BY InsightTyped DEF Insight!IInv
  <2>3. \A t \in {c, v} : DOMAIN db[t] = 1..Len(db[t]) /\ Len(db[t]) \in Nat
    BY <2>1, InsightTyped DEF Insight!IInv
  <2>4. \A t \in {c, v} : db'[t] \in Seq(Insight(s)!RowType[t])
    BY <1>2, <2>1, <2>2 DEF Insight!TablesTyped
  <2> QED BY <2>1, <2>2, <2>3, <2>4, LenProperties
<1>4. /\ IsFiniteSet(F(db, x)) /\ IsFiniteSet(A(db', x))
      /\ IsFiniteSet(O(job, x)) /\ IsFiniteSet(O(job', x))
  <2>1. IsFiniteSet(Cast[s].workers)
    BY PlatformAssumption DEF Insight!InsightsAssumption, Insight!IsFiniteSet, IsFiniteSet
  <2>2. F(db, x) \subseteq 1..Len(db[v]) /\ A(db', x) \subseteq 1..Len(db'[c])
    BY <1>3
  <2>3. Len(db[v]) \in Nat /\ Len(db'[c]) \in Nat
    BY <1>3
  <2>4. O(job, x) \subseteq Cast[s].workers /\ O(job', x) \subseteq Cast[s].workers
    OBVIOUS
  <2> HIDE DEF F, A, O, c, v
  <2> QED BY <2>1, <2>2, <2>3, <2>4, FS_Subset, RowsFinite
<1>5. job = [u \in Cast[s].workers |-> job[u]]
  BY DEF Insight!IInv
<1>6. Insight(s)!Room(c) => Cardinality(F(db, x)) <= Cardinality(A(db, x)) + Cardinality(O(job, x))
  <2>1. CASE F(db, x) = {}
    <3>1. IsFiniteSet(A(db, x))
      <4>1. A(db, x) \subseteq 1..Len(db[c]) /\ Len(db[c]) \in Nat
        BY <1>3
      <4> HIDE DEF A, c
      <4> QED BY <4>1, RowsFinite
    <3> DEFINE p == Cardinality(A(db, x))
               q == Cardinality(O(job, x))
    <3>2. p \in Nat /\ q \in Nat
      BY <1>4, <3>1, FS_CardinalityType
    <3>3. 0 <= p + q
      <4> HIDE DEF p, q
      <4> QED BY <3>2
    <3> HIDE DEF F
    <3> QED BY <2>1, <3>3, FS_EmptySet
  <2>2. ASSUME NEW e \in F(db, x), Insight(s)!Room(c)
        PROVE  Cardinality(F(db, x)) <= Cardinality(A(db, x)) + Cardinality(O(job, x))
    <3>1. db[v][e].model = x /\ e \in Insight(s)!Ids(v)
      BY DEF Insight!Ids
    <3>2. Insight(s)!Flagged(x)
      BY <2>2, <3>1 DEF Insight!FlagInv
    <3> QED BY <3>2, InsightCardinality DEF Insight!Flagged, Insight!Failed, Insight!Alerts,
       Insight!Owing, InsightOwes, Insight!Ids, Insight!At, Insight!NewAlert, Insight!New
  <2> QED BY <2>1, <2>2
<1>7. CASE InsightMoves(s, w)
  <2>1. UNCHANGED db /\ Insight(s)!Room(c)
    BY <1>7 DEF InsightMoves, Insight!Room
  <2>2. O(job, x) \subseteq O(job', x)
    <3>1. PICK j : job' = [job EXCEPT ![w] = j] /\ (InsightOwes(s, job[w], x) => InsightOwes(s, j, x))
      BY <1>7, <2>1 DEF InsightMoves
    <3> QED BY <1>5, <3>1, CarryMoves
  <2>3. F(db', x) = F(db, x) /\ A(db', x) = A(db, x)
    BY <2>1
  <2> HIDE DEF F, A, O
  <2>4. O(job, x) \ {c} \subseteq O(job', x)
    BY <2>2
  <2> DEFINE m == Cardinality(O(job, x))
             n == Cardinality(O(job', x))
             p == Cardinality(A(db, x))
             k == Cardinality(F(db, x))
  <2>5. m \in Nat /\ n \in Nat /\ m <= n /\ p \in Nat /\ k \in Nat /\ k <= p + m
    BY <1>4, <1>6, <2>1, <2>2, <2>3, PartSmaller
  <2>6. k <= p + n
    <3> HIDE DEF m, n, p, k
    <3> QED BY <2>5
  <2> QED BY <2>3, <2>6
<1>8. CASE InsightWrites(s, w)
  <2>1. PICK h, j : /\ Insight(s)!WriteSound(h) /\ db' = Insight(s)!Written(h)
                    /\ job' = [job EXCEPT ![w] = j]
                    /\ \A y : InsightOwes(s, job[w], y) => h = Insight(s)!NewAlert(y)
                    /\ h.c = v /\ ~h.row.passed => h.op = "append" /\ InsightOwes(s, j, h.row.model)
    BY <1>8 DEF InsightWrites
  <2>2. /\ h.c \in InsightTables /\ h.row \in Insight(s)!RowType[h.c] /\ h.op \in {"append", "replace"}
        /\ h.op = "replace" => h.id \in DOMAIN db[h.c]
        /\ Lands(db, db', h) /\ Keeps(db, db', h) /\ Adds(db, db', h)
    BY <2>1, InsightLands
  <2>3. Insight(s)!Room(c)
    <3>1. Len(db'[c]) = Len(db[c]) \/ Len(db'[c]) = Len(db[c]) + 1
      BY <1>3, <2>2 DEF Lands
    <3> DEFINE m == Len(db[c])
               n == Len(db'[c])
               k == Cast[s].rows[c]
    <3>2. n < k /\ m \in Nat /\ (n = m \/ n = m + 1)
      BY <1>3, <3>1 DEF Insight!Room
    <3>3. k \in Nat
      BY <1>3, InsightTyped, PlatformAssumption DEF Insight!InsightsAssumption, Insight!IInv
    <3> HIDE DEF m, n, k
    <3>4. m < k
      BY <3>2, <3>3
    <3> QED BY <3>4 DEF m, k, Insight!Room
  <2>4. A(db, x) \subseteq A(db', x)
    <3>1. h.c = c /\ h.op = "replace" => h.row.model = db[c][h.id].model
      BY <2>1 DEF Insight!WriteSound
    <3> QED BY <1>3, <2>2, <3>1 DEF Keeps
  <2>5. job'[w] = j /\ \A u \in Cast[s].workers \ {w} : job'[u] = job[u]
    BY <1>5, <2>1, CarryMoves
  <2>6. O(job, x) \ {w} \subseteq O(job', x)
    BY <2>5
  <2>7. w \in O(job, x) => A(db', x) \ A(db, x) # {}
    <3> SUFFICES ASSUME w \in O(job, x) PROVE A(db', x) \ A(db, x) # {}
      OBVIOUS
    <3>1. h.op = "append" /\ h.c = c /\ h.row.model = x
      BY <2>1 DEF Insight!NewAlert, Insight!New
    <3>2. Len(db[c]) + 1 \in DOMAIN db'[c] /\ db'[c][Len(db[c]) + 1] = h.row
      BY <2>2, <3>1 DEF Lands, Place
    <3>3. Len(db[c]) + 1 \notin DOMAIN db[c]
      BY <1>3
    <3> QED BY <3>1, <3>2, <3>3
  <2>8. \/ F(db', x) \subseteq F(db, x)
        \/ (\E n : F(db', x) \subseteq F(db, x) \cup {n}) /\ w \notin O(job, x) /\ w \in O(job', x)
    <3>1. CASE h.c = v /\ ~h.row.passed /\ h.row.model = x
      <4>1. h.op = "append" /\ w \in O(job', x)
        BY <2>1, <2>5, <3>1
      <4>2. \A y : h # Insight(s)!NewAlert(y)
        BY <3>1 DEF Insight!NewAlert, Insight!New
      <4>3. F(db', x) \subseteq F(db, x) \cup {Len(db[v]) + 1}
        BY <1>3, <2>2, <4>1 DEF Keeps, Adds
      <4> QED BY <2>1, <4>1, <4>2, <4>3
    <3>2. CASE h.c # v
      BY <1>3, <2>2, <3>2 DEF Lands
    <3>3. CASE h.c = v /\ (h.row.passed \/ h.row.model # x)
      <4>1. h.row # [model |-> x, passed |-> FALSE]
        BY <3>3
      <4>2. h.op = "append"
        BY <2>1, <2>2, <3>3 DEF Insight!WriteSound
      <4> QED BY <1>3, <2>2, <4>1, <4>2 DEF Keeps, Adds
    <3> QED BY <3>1, <3>2, <3>3
  <2>9. Cardinality(F(db, x)) <= Cardinality(A(db, x)) + Cardinality(O(job, x))
    BY <1>6, <2>3
  <2> HIDE DEF F, A, O
  <2> QED BY <1>4, <2>4, <2>6, <2>7, <2>8, <2>9, Covered
<1> QED BY <1>1, <1>7, <1>8

LEMMA InsightPromises ==
  ASSUME NEW s \in InsightScenes, Insight(s)!IInv, Insight(s)!FlagInv
  PROVE  /\ Insight(s)!TypeOK /\ Insight(s)!OneKpi /\ Insight(s)!OneRegistration
         /\ Insight(s)!Deathless => Insight(s)!FailedIsFlagged
<1>1. Insight(s)!TypeOK
  BY InsightTyped DEF Insight!IInv, Insight!TypeOK, Insight!Ids
<1>2. ASSUME Insight(s)!Deathless, Insight(s)!Quiet, Insight(s)!Room("driftAlerts"),
             NEW x \in Insight(s)!Ids("modelRegistrations")
      PROVE  Insight(s)!Cardinality(Insight(s)!Failed(x)) <= Insight(s)!Cardinality(Insight(s)!Alerts(x))
  <2>1. Insight(s)!Owing(x) = {}
    BY <1>2 DEF Insight!Owing, Insight!Quiet, Insight!At
  <2>2. IsFiniteSet(Insight(s)!Alerts(x))
    <3>1. Len(db["driftAlerts"]) \in Nat /\ DOMAIN db["driftAlerts"] = 1..Len(db["driftAlerts"])
      BY InsightTyped DEF Insight!IInv, InsightTables
    <3>2. IsFiniteSet(1..Len(db["driftAlerts"]))
      BY <3>1, FS_Interval
    <3> QED BY <3>1, <3>2, FS_Subset DEF Insight!Alerts, Insight!Ids
  <2> DEFINE k == Cardinality(Insight(s)!Failed(x))
             p == Cardinality(Insight(s)!Alerts(x))
  <2>3. CASE Insight(s)!Failed(x) = {}
    <3>1. k = 0 /\ p \in Nat
      BY <2>2, <2>3, FS_EmptySet, FS_CardinalityType
    <3>2. k <= p
      <4> HIDE DEF k, p
      <4> QED BY <3>1
    <3> QED BY <3>2, InsightCardinality
  <2>4. ASSUME NEW e \in Insight(s)!Failed(x) PROVE k <= p
    <3>1. Insight(s)!Flagged(x)
      BY <1>2, <2>4 DEF Insight!FlagInv, Insight!Failed
    <3>2. p \in Nat /\ k <= p + 0
      BY <2>1, <2>2, <3>1, InsightCardinality, FS_EmptySet, FS_CardinalityType DEF Insight!Flagged
    <3> HIDE DEF k, p
    <3> QED BY <3>2
  <2> QED BY <2>3, <2>4, InsightCardinality
<1> QED BY <1>1, <1>2 DEF Insight!IInv, Insight!FailedIsFlagged

----------------------------------------------------------------------------
(* Engines 16 to 20.                                                       *)

LEMMA ReadingCardinality ==
  ASSUME NEW s, NEW S PROVE Reading(s)!Cardinality(S) = Cardinality(S)
  BY DEF Reading!Cardinality, Cardinality

ReadingTables ==
  {"contractVersionsV2", "contractAnalysisRuns", "analysisReviews", "contractRiskAssessments",
   "repositoryDocuments", "agreementIntelligenceVersions"}

LEMMA ReadingTyped ==
  ASSUME NEW s \in ReadingScenes, Reading(s)!TablesTyped(Reading(s)!RowType)
  PROVE  /\ Reading(s)!Collections = ReadingTables /\ DOMAIN db = ReadingTables
         /\ \A c \in ReadingTables :
              /\ db[c] \in Seq(Reading(s)!RowType[c]) /\ DOMAIN db[c] = 1..Len(db[c]) /\ Len(db[c]) \in Nat
              /\ \A x \in DOMAIN db[c] : db[c][x] \in Reading(s)!RowType[c] /\ x \in Nat
<1>1. Reading(s)!Collections = ReadingTables /\ DOMAIN db = ReadingTables
  BY PlatformAssumption DEF Reading!ReadingAssumption, Reading!TablesTyped, Reading!RowType, ReadingTables
<1>2. \A c \in ReadingTables : db[c] \in Seq(Reading(s)!RowType[c])
  BY <1>1 DEF Reading!TablesTyped
<1> QED BY <1>1, <1>2, LenProperties

(* A write, and the tables after it.                                       *)
LEMMA ReadingLands ==
  ASSUME NEW s \in ReadingScenes, Reading(s)!IInv, NEW h, Reading(s)!WriteSound(h), db' = Reading(s)!Written(h)
  PROVE  /\ Reading(s)!TablesTyped(Reading(s)!RowType)' /\ h.c \in ReadingTables
         /\ h.op \in {"append", "replace"} /\ h.row \in Reading(s)!RowType[h.c]
         /\ h.op = "replace" => h.id \in DOMAIN db[h.c]
         /\ Lands(db, db', h) /\ Keeps(db, db', h) /\ Adds(db, db', h)
         /\ \A c \in ReadingTables : DOMAIN db'[c] = 1..Len(db'[c]) /\ Len(db'[c]) \in Nat
<1> DEFINE T == Reading(s)!RowType
           C == Reading(s)!Collections
<1>1. Fitting(db, C, T, h) /\ db' = Holding(db, h) /\ C = ReadingTables
  BY ReadingTyped DEF Reading!IInv, Reading!TablesTyped, Reading!WriteSound, Reading!WriteTyped,
     Reading!Ids, Reading!Written, Tabled, Fitting, Holding
<1>2. Tabled(db', C, T) /\ Lands(db, db', h) /\ Keeps(db, db', h) /\ Adds(db, db', h)
  <2> HIDE DEF T, C
  <2> QED BY <1>1, Landing
<1>3. \A c \in ReadingTables : DOMAIN db'[c] = 1..Len(db'[c]) /\ Len(db'[c]) \in Nat
  <2>1. \A c \in ReadingTables : db'[c] \in Seq(T[c])
    BY <1>1, <1>2 DEF Tabled
  <2> HIDE DEF T
  <2> QED BY <2>1, LenProperties
<1> QED BY <1>1, <1>2, <1>3 DEF Tabled, Fitting, Reading!TablesTyped

(* A new row.                                                              *)
LEMMA ReadingNew ==
  ASSUME NEW s \in ReadingScenes, Reading(s)!IInv, NEW c \in ReadingTables, NEW row \in Reading(s)!RowType[c]
  PROVE  LET h == Reading(s)!New(c, row)
         IN Reading(s)!WriteTyped(h, Reading(s)!RowType) /\ h.op = "append" /\ h.c = c /\ h.row = row
<1>1. Reading(s)!Collections = ReadingTables
  BY ReadingTyped DEF Reading!IInv
<1> QED BY <1>1 DEF Reading!New, Reading!WriteTyped

(* A row in place of the one read before.                                  *)
LEMMA ReadingPut ==
  ASSUME NEW s \in ReadingScenes, Reading(s)!IInv, NEW c \in ReadingTables, NEW x \in DOMAIN db[c],
         NEW row \in Reading(s)!RowType[c]
  PROVE  LET h == Reading(s)!Put(c, x, row)
         IN /\ Reading(s)!WriteTyped(h, Reading(s)!RowType)
            /\ h.op = "replace" /\ h.c = c /\ h.id = x /\ h.row = row
<1>1. Reading(s)!Collections = ReadingTables
  BY ReadingTyped DEF Reading!IInv
<1> QED BY <1>1 DEF Reading!Put, Reading!WriteTyped, Reading!Ids

(* Two readings or two contract versions are never in force at once.       *)
ReadingForce(D) == {x \in DOMAIN D["agreementIntelligenceVersions"] :
                         D["agreementIntelligenceVersions"][x].status \in {"PUBLISHED"}}
ContractForce(D) == {x \in DOMAIN D["contractVersionsV2"] :
                          D["contractVersionsV2"][x].status \in {"ACTIVE"}}

LEMMA ReadingInForce ==
  ASSUME NEW s
  PROVE  /\ Reading(s)!InForce("agreementIntelligenceVersions") = ReadingForce(db)
         /\ Reading(s)!InForce("contractVersionsV2") = ContractForce(db)
         /\ Reading(s)!InForce("agreementIntelligenceVersions")' = ReadingForce(db')
         /\ Reading(s)!InForce("contractVersionsV2")' = ContractForce(db')
  BY DEF Reading!InForce, Reading!InStatus, Reading!Ids, ReadingForce, ContractForce

(* What may be written to the table of readings.                           *)
LEMMA ReadingJudged ==
  ASSUME NEW s \in ReadingScenes, Reading(s)!IInv, NEW h, Reading(s)!WriteSound(h),
         Reading(s)!Admits(h), db' = Reading(s)!Written(h)
  PROVE  Reading(s)!OneReading' /\ Reading(s)!PublishedReviewed' /\ Reading(s)!OneOpinion'
<1> DEFINE c == "agreementIntelligenceVersions"
           r == "analysisReviews"
<1>1. /\ c \in DOMAIN db /\ r \in DOMAIN db
      /\ DOMAIN db[c] = 1..Len(db[c]) /\ Len(db[c]) \in Nat
      /\ DOMAIN db'[c] = 1..Len(db'[c]) /\ Len(db'[c]) \in Nat
      /\ DOMAIN db[r] = 1..Len(db[r]) /\ Len(db[r]) \in Nat
      /\ h.op \in {"append", "replace"} /\ (h.op = "replace" => h.id \in DOMAIN db[h.c])
      /\ Keeps(db, db', h) /\ Adds(db, db', h)
  <2>1. c \in ReadingTables /\ r \in ReadingTables
    BY DEF ReadingTables
  <2> QED BY <2>1, ReadingTyped, ReadingLands DEF Reading!IInv
<1>2. Reading(s)!OneReading'
  <2> DEFINE K(D) == ReadingForce(D)
  <2>1. /\ Reading(s)!OneReading <=> Cardinality(K(db)) <= 1
        /\ Reading(s)!OneReading' <=> Cardinality(K(db')) <= 1
    BY ReadingCardinality, ReadingInForce DEF Reading!OneReading
  <2>2. K(db) \subseteq 1..Len(db[c]) /\ K(db') \subseteq 1..Len(db'[c])
    BY <1>1 DEF ReadingForce
  <2>3. \A x, y \in K(db) : x = y
    <3>1. Cardinality(K(db)) <= 1 /\ Len(db[c]) \in Nat
      BY <1>1, <2>1 DEF Reading!IInv
    <3> HIDE DEF K, c
    <3> QED BY <2>2, <3>1, AtMostOne
  <2>4. \A x, y \in K(db') : x = y
    <3>1. h.c = c /\ h.row.status = "PUBLISHED" => K(db) \subseteq (IF h.op = "append" THEN {} ELSE {h.id})
      BY ReadingInForce DEF Reading!Admits, Reading!OneInForce
    <3>2. h.c = c /\ h.op = "append" => h.row.status = "DRAFT"
      BY DEF Reading!WriteSound
    <3>3. ASSUME NEW x \in K(db')
          PROVE  x \in K(db) \/ (h.c = c /\ h.op = "replace" /\ x = h.id /\ K(db) \subseteq {x})
      BY <1>1, <3>1, <3>2 DEF Keeps, Adds, ReadingForce
    <3> HIDE DEF K
    <3> QED BY <2>3, <3>3
  <2>5. Len(db'[c]) \in Nat
    BY <1>1
  <2> HIDE DEF K, c
  <2> QED BY <2>1, <2>2, <2>4, <2>5, AtMostOne
<1>3. Reading(s)!PublishedReviewed'
  <2>1. \A x \in DOMAIN db[c] : db[c][x].status # "DRAFT" => Reading(s)!Judged(db[c][x].items)
    BY DEF Reading!IInv, Reading!PublishedReviewed, Reading!Ids, Reading!Judged
  <2>2. h.c = c /\ h.row.status # "DRAFT" => Reading(s)!Judged(h.row.items)
    <3>1. h.c = c => h.row \in Reading(s)!AgreementIntelligenceVersion
      BY DEF Reading!WriteSound, Reading!WriteTyped, Reading!RowType
    <3> QED BY <3>1 DEF Reading!WriteSound, Reading!Admits, Reading!Reviewed, Reading!Judged,
          Reading!AgreementIntelligenceVersion
  <2>3. \A x \in DOMAIN db'[c] : db'[c][x].status # "DRAFT" => Reading(s)!Judged(db'[c][x].items)
    BY <1>1, <2>1, <2>2 DEF Keeps, Adds
  <2> QED BY <2>3 DEF Reading!PublishedReviewed, Reading!Ids, Reading!Judged
<1>4. Reading(s)!OneOpinion'
  <2> DEFINE k(a) == <<a.run, a.finding, a.by>>
  <2>1. \A x, y \in DOMAIN db[r] : k(db[r][x]) = k(db[r][y]) => x = y
    BY DEF Reading!IInv, Reading!OneOpinion, Reading!Ids
  <2>2. h.c = r => h.op = "append" /\ \A x \in DOMAIN db[r] : k(db[r][x]) # k(h.row)
    BY <1>1 DEF Reading!WriteSound, Reading!Admits, Reading!KeyFree, Reading!Ids
  <2>3. \A x \in DOMAIN db[r] : db'[r][x] = db[r][x]
    BY <1>1, <2>2 DEF Keeps
  <2>4. \A x \in DOMAIN db'[r] : x \in DOMAIN db[r]
          \/ (h.op = "append" /\ h.c = r /\ x = Len(db[r]) + 1 /\ db'[r][x] = h.row)
    BY <1>1 DEF Adds
  <2> HIDE DEF k, r
  <2>5. \A x, y \in DOMAIN db'[r] : k(db'[r][x]) = k(db'[r][y]) => x = y
    BY <2>1, <2>2, <2>3, <2>4
  <2> QED BY <2>5 DEF Reading!OneOpinion, Reading!Ids, k, r
<1> QED BY <1>2, <1>3, <1>4

(* What may be written to the table of contract versions, and what others  *)
(* are about to write to it.                                               *)
LEMMA ReadingPlaced ==
  ASSUME NEW s \in ReadingScenes, Reading(s)!IInv, NEW h, Reading(s)!WriteSound(h),
         Reading(s)!Admits(h), db' = Reading(s)!Written(h)
  PROVE  Reading(s)!InPlace' /\ \A g : Reading(s)!WriteSound(g) => Reading(s)!WriteSound(g)'
<1> DEFINE c == "contractVersionsV2"
<1>1. /\ DOMAIN db = ReadingTables /\ c \in ReadingTables
      /\ DOMAIN db[c] = 1..Len(db[c]) /\ Len(db[c]) \in Nat
      /\ DOMAIN db'[c] = 1..Len(db'[c]) /\ Len(db'[c]) \in Nat
      /\ h.op \in {"append", "replace"} /\ (h.op = "replace" => h.id \in DOMAIN db[h.c])
      /\ Lands(db, db', h) /\ Keeps(db, db', h) /\ Adds(db, db', h)
  <2>1. c \in ReadingTables
    BY DEF ReadingTables
  <2> QED BY <2>1, ReadingTyped, ReadingLands DEF Reading!IInv
<1>2. /\ \A x \in DOMAIN db[c] : db[c][x].number = x
      /\ ContractForce(db) \subseteq {Len(db[c])}
  BY ReadingInForce DEF Reading!IInv, Reading!InPlace, Reading!Ids
<1>3. /\ h.c = c /\ h.op = "append" => h.row.number = Len(db[c]) + 1 /\ ContractForce(db) = {}
      /\ h.c = c /\ h.op = "replace" =>
           /\ h.row = [db[c][h.id] EXCEPT !.status = "SUPERSEDED"] /\ h.row.status = "SUPERSEDED"
           /\ h.row.number = db[c][h.id].number /\ h.row.hash = db[c][h.id].hash
  <2>1. ASSUME h.c = c, h.op = "append" PROVE h.row.number = Len(db[c]) + 1 /\ ContractForce(db) = {}
    <3>1. h.row.number <= Len(db[c]) + 1 /\ h.row.status = "ACTIVE"
      BY <2>1 DEF Reading!WriteSound, Reading!Succeeds, Reading!Count
    <3>2. h.row.number \in Nat \ {0}
      <4>1. h.row \in Reading(s)!RowType[c]
        BY <2>1, ReadingLands
      <4> QED BY <4>1 DEF Reading!RowType, Reading!ContractVersion
    <3>3. \A x \in DOMAIN db[c] : x # h.row.number
      BY <1>2, <2>1 DEF Reading!Admits, Reading!KeyFree, Reading!Ids
    <3>4. ContractForce(db) = {}
      BY <2>1, <3>1, ReadingInForce DEF Reading!Admits, Reading!OneInForce
    <3> DEFINE n == h.row.number
               m == Len(db[c])
    <3>5. n \in Nat \ {0} /\ m \in Nat /\ n <= m + 1 /\ n \notin 1..m
      BY <1>1, <3>1, <3>2, <3>3
    <3>6. n = m + 1
      <4> HIDE DEF n, m
      <4> QED BY <3>5
    <3> QED BY <3>4, <3>6
  <2>2. ASSUME h.c = c, h.op = "replace"
        PROVE  /\ h.row = [db[c][h.id] EXCEPT !.status = "SUPERSEDED"] /\ h.row.status = "SUPERSEDED"
               /\ h.row.number = db[c][h.id].number /\ h.row.hash = db[c][h.id].hash
    <3>1. h.row = [db[c][h.id] EXCEPT !.status = "SUPERSEDED"] /\ h.id \in DOMAIN db[c]
      BY <1>1, <2>2 DEF Reading!WriteSound, Reading!Retires
    <3>2. db[c][h.id] \in Reading(s)!RowType[c]
      BY <1>1, <3>1, ReadingTyped DEF Reading!IInv
    <3>3. db[c][h.id] \in [number : Nat \ {0}, hash : Cast[s].hashes, status : {"ACTIVE", "SUPERSEDED"}]
      BY <3>2 DEF Reading!RowType, Reading!ContractVersion
    <3> QED BY <3>1, <3>3
  <2> QED BY <2>1, <2>2
<1>4. Reading(s)!InPlace'
  <2>1. \A x \in DOMAIN db'[c] : db'[c][x].number = x
    BY <1>1, <1>2, <1>3 DEF Keeps, Adds
  <2>2. ContractForce(db') \subseteq {Len(db'[c])}
    <3>1. CASE h.c = c /\ h.op = "append"
      <4>1. \A x \in ContractForce(db') : x = Len(db[c]) + 1
        BY <1>1, <1>3, <3>1 DEF Keeps, Adds, ContractForce
      <4>2. Len(db'[c]) = Len(db[c]) + 1
        BY <1>1, <3>1 DEF Lands
      <4> QED BY <4>1, <4>2
    <3>2. CASE ~(h.c = c /\ h.op = "append")
      <4>1. ContractForce(db') \subseteq ContractForce(db)
        BY <1>1, <1>3, <3>2 DEF Keeps, Adds, ContractForce
      <4>2. Len(db'[c]) = Len(db[c])
        BY <1>1, <3>2 DEF Lands
      <4> QED BY <1>2, <4>1, <4>2
    <3> QED BY <3>1, <3>2
  <2> QED BY <2>1, <2>2, ReadingInForce DEF Reading!InPlace, Reading!Ids
<1>5. ASSUME NEW g, Reading(s)!WriteSound(g) PROVE Reading(s)!WriteSound(g)'
  <2>1. g.c \in ReadingTables /\ (g.op = "replace" => g.id \in DOMAIN db[g.c])
    BY <1>5, ReadingTyped DEF Reading!IInv, Reading!WriteSound, Reading!WriteTyped, Reading!Ids
  <2>2. Reading(s)!WriteTyped(g, Reading(s)!RowType)'
    BY <1>1, <1>5, <2>1 DEF Keeps, Reading!WriteSound, Reading!WriteTyped, Reading!Ids
  <2>3. g.c = c /\ g.op = "append" => Reading(s)!Succeeds(g.row)'
    <3> SUFFICES ASSUME g.c = c, g.op = "append" PROVE Reading(s)!Succeeds(g.row)'
      OBVIOUS
    <3>1. /\ g.row.status = "ACTIVE" /\ g.row.number <= Len(db[c]) + 1 /\ g.row.number \in Nat
          /\ g.row.number = Len(db[c]) + 1 =>
               Len(db[c]) < Cast[s].rows[c] /\ \A x \in DOMAIN db[c] : db[c][x].hash # g.row.hash
      <4>1. g.row \in Reading(s)!ContractVersion
        BY <1>5 DEF Reading!WriteSound, Reading!WriteTyped, Reading!RowType
      <4> QED BY <1>5, <4>1 DEF Reading!WriteSound, Reading!Succeeds, Reading!Count, Reading!Ids, Reading!Room,
            Reading!ContractVersion
    <3>2. CASE h.c = c /\ h.op = "append"
      <4> DEFINE n == g.row.number
                 m == Len(db[c])
      <4>1. Len(db'[c]) = m + 1 /\ n <= m + 1 /\ n \in Nat /\ m \in Nat
        BY <1>1, <3>1, <3>2 DEF Lands
      <4>2. n <= Len(db'[c]) + 1 /\ n # Len(db'[c]) + 1
        <5> HIDE DEF n, m
        <5> QED BY <4>1
      <4> QED BY <3>1, <4>2 DEF Reading!Succeeds, Reading!Count
    <3>3. CASE ~(h.c = c /\ h.op = "append")
      <4>1. Len(db'[c]) = Len(db[c]) /\ DOMAIN db'[c] = DOMAIN db[c]
        BY <1>1, <3>3 DEF Lands
      <4>2. \A x \in DOMAIN db[c] : db'[c][x].hash = db[c][x].hash
        BY <1>1, <1>3, <3>3 DEF Keeps
      <4> QED BY <3>1, <4>1, <4>2 DEF Reading!Succeeds, Reading!Count, Reading!Ids, Reading!Room
    <3> QED BY <3>2, <3>3
  <2>4. Reading(s)!Retires(g) => g.row = [db'[c][g.id] EXCEPT !.status = "SUPERSEDED"]
    <3> SUFFICES ASSUME Reading(s)!Retires(g) PROVE g.row = [db'[c][g.id] EXCEPT !.status = "SUPERSEDED"]
      OBVIOUS
    <3>1. g.row = [db[c][g.id] EXCEPT !.status = "SUPERSEDED"] /\ g.id \in DOMAIN db[c]
      BY <1>5, <2>1 DEF Reading!WriteSound, Reading!Retires
    <3>2. db'[c][g.id] = db[c][g.id] \/ db'[c][g.id] = [db[c][g.id] EXCEPT !.status = "SUPERSEDED"]
      BY <1>1, <1>3, <3>1 DEF Keeps
    <3>3. db[c][g.id] \in Reading(s)!ContractVersion
      BY <3>1, <1>1, ReadingTyped DEF Reading!IInv, Reading!RowType
    <3> QED BY <3>1, <3>2, <3>3 DEF Reading!ContractVersion
  <2>5. UNCHANGED Reading(s)!Judged(g.row.items)
    BY DEF Reading!Judged
  <2> QED BY <1>5, <2>2, <2>3, <2>4, <2>5 DEF Reading!WriteSound, Reading!Retires
<1> QED BY <1>4, <1>5

(* A request moves to its next call or makes a write.  While no request    *)
(* dies, and no version is in force, the one that writes the next version  *)
(* goes on until it has.  One that retires a version has its successor     *)
(* still to write.                                                         *)
ReadingMoves(s, w) ==
  \E j : /\ job' = [job EXCEPT ![w] = j] /\ UNCHANGED db /\ Reading(s)!JobSound(j)
         /\ Reading(s)!Deathless /\ Reading(s)!InForce("contractVersionsV2") = {} =>
              ~Reading(s)!Succeeding(job[w]) \/ j = job[w]

ReadingFollows(s, h, j) ==
  \E g : /\ j.at = "write" /\ j.todo = <<g>> /\ Reading(s)!WriteSound(g) /\ ~Reading(s)!Retires(g)
         /\ g.c = "contractVersionsV2" /\ h.id < g.row.number

ReadingWrites(s, w) ==
  \E h, j : /\ Reading(s)!WriteSound(h) /\ Reading(s)!Admits(h) /\ db' = Reading(s)!Written(h)
            /\ job' = [job EXCEPT ![w] = j] /\ Reading(s)!JobSound(j)
            /\ Reading(s)!Retires(h) => ReadingFollows(s, h, j)
            /\ Reading(s)!Succeeding(job[w]) => h.c = "contractVersionsV2" /\ h.op = "append"

LEMMA ReadingStarts ==
  ASSUME NEW s \in ReadingScenes, NEW w, NEW j, Reading(s)!JobSound(j),
         job' = [job EXCEPT ![w] = j], UNCHANGED db, job[w].at # "write"
  PROVE  ReadingMoves(s, w)
  BY DEF ReadingMoves, Reading!Succeeding

LEMMA ReadingAsks ==
  ASSUME NEW s \in ReadingScenes, NEW w, NEW h, Reading(s)!Ask(w, <<h>>) \/ Reading(s)!Decide(w, <<h>>),
         job[w].at # "write", Reading(s)!WriteSound(h), ~Reading(s)!Retires(h)
  PROVE  ReadingMoves(s, w)
<1> DEFINE j == [at |-> "write", todo |-> <<h>>]
<1>1. j.at = "write" /\ j.todo = <<h>> /\ j.todo[1] = h
  OBVIOUS
<1>2. job' = [job EXCEPT ![w] = j] /\ UNCHANGED db
  BY DEF Reading!Ask, Reading!Receive, Reading!Carry, Reading!Decide, Reading!Then
<1> HIDE DEF j
<1>3. Reading(s)!JobSound(j)
  BY <1>1 DEF Reading!JobSound
<1> QED BY <1>2, <1>3, ReadingStarts

LEMMA ReadingAsksTwo ==
  ASSUME NEW s \in ReadingScenes, NEW w, NEW h, NEW g,
         Reading(s)!Ask(w, <<h, g>>) \/ Reading(s)!Decide(w, <<h, g>>), job[w].at # "write",
         Reading(s)!WriteSound(h), Reading(s)!WriteSound(g), ~Reading(s)!Retires(g),
         Reading(s)!Retires(h) => g.c = "contractVersionsV2" /\ h.id < g.row.number
  PROVE  ReadingMoves(s, w)
<1> DEFINE j == [at |-> "write", todo |-> <<h, g>>]
<1>1. j.at = "write" /\ j.todo = <<h, g>> /\ j.todo[1] = h /\ j.todo[2] = g
  OBVIOUS
<1>2. job' = [job EXCEPT ![w] = j] /\ UNCHANGED db
  BY DEF Reading!Ask, Reading!Receive, Reading!Carry, Reading!Decide, Reading!Then
<1> HIDE DEF j
<1>3. Reading(s)!JobSound(j)
  BY <1>1 DEF Reading!JobSound
<1> QED BY <1>2, <1>3, ReadingStarts

LEMMA ReadingHandles ==
  ASSUME NEW s \in ReadingScenes, Reading(s)!IInv, NEW w \in Cast[s].workers,
         Reading(s)!Handle(w), ~Reading(s)!Commit(w, Reading(s)!Admits(Reading(s)!Due(w)))
  PROVE  ReadingMoves(s, w)
<1>1. /\ DOMAIN db = ReadingTables
      /\ \A c \in ReadingTables :
           \A x \in DOMAIN db[c] : db[c][x] \in Reading(s)!RowType[c] /\ x \in Nat
      /\ \A c \in ReadingTables : Len(db[c]) \in Nat /\ DOMAIN db[c] = 1..Len(db[c])
  BY ReadingTyped DEF Reading!IInv
<1>2. \A t : Reading(s)!Ask(w, t) => job[w].at # "write"
  BY DEF Reading!Ask, Reading!Receive, Reading!At

<1>3. CASE Reading(s)!Analyze(w)
  <2>1. PICK found \in SUBSET Cast[s].items :
          Reading(s)!Ask(w, <<Reading(s)!New("contractAnalysisRuns", [findings |-> found])>>)
    BY <1>3 DEF Reading!Analyze, Reading!Ids, Reading!Count, Reading!NewRun
  <2> DEFINE r == [findings |-> found]
             h == Reading(s)!New("contractAnalysisRuns", r)
  <2>2. "contractAnalysisRuns" \in ReadingTables /\ r \in Reading(s)!RowType["contractAnalysisRuns"]
    BY <1>1 DEF Reading!RowType, Reading!AnalysisRun, Reading!Decisions, ReadingTables
  <2>3. TRUE
    OBVIOUS
  <2> HIDE DEF r
  <2>4. Reading(s)!WriteSound(h) /\ ~Reading(s)!Retires(h)
    <3>1. Reading(s)!WriteTyped(h, Reading(s)!RowType) /\ h.op = "append" /\ h.c = "contractAnalysisRuns" /\ h.row = r
      BY <2>2, ReadingNew
    <3> HIDE DEF h
    <3> QED BY <2>3, <3>1 DEF Reading!WriteSound, Reading!Retires
  <2> QED BY <1>2, <2>1, <2>4, ReadingAsks DEF r
<1>4. CASE Reading(s)!Assess(w)
  <2>1. Reading(s)!Ask(w, <<Reading(s)!New("contractRiskAssessments", [version |-> Len(db["contractRiskAssessments"]) + 1, status |-> "DRAFT"])>>)
    BY <1>4 DEF Reading!Assess, Reading!Ids, Reading!Count
  <2> DEFINE r == [version |-> Len(db["contractRiskAssessments"]) + 1, status |-> "DRAFT"]
             h == Reading(s)!New("contractRiskAssessments", r)
  <2>2. "contractRiskAssessments" \in ReadingTables /\ r \in Reading(s)!RowType["contractRiskAssessments"]
    BY <1>1 DEF Reading!RowType, Reading!RiskAssessment, Reading!Decisions, ReadingTables
  <2>3. TRUE
    OBVIOUS
  <2> HIDE DEF r
  <2>4. Reading(s)!WriteSound(h) /\ ~Reading(s)!Retires(h)
    <3>1. Reading(s)!WriteTyped(h, Reading(s)!RowType) /\ h.op = "append" /\ h.c = "contractRiskAssessments" /\ h.row = r
      BY <2>2, ReadingNew
    <3> HIDE DEF h
    <3> QED BY <2>3, <3>1 DEF Reading!WriteSound, Reading!Retires
  <2> QED BY <1>2, <2>1, <2>4, ReadingAsks DEF r
<1>5. CASE Reading(s)!Store(w)
  <2>1. Reading(s)!Ask(w, <<Reading(s)!New("repositoryDocuments", [legalHold |-> FALSE])>>)
    BY <1>5 DEF Reading!Store, Reading!Ids, Reading!Count
  <2> DEFINE r == [legalHold |-> FALSE]
             h == Reading(s)!New("repositoryDocuments", r)
  <2>2. "repositoryDocuments" \in ReadingTables /\ r \in Reading(s)!RowType["repositoryDocuments"]
    BY <1>1 DEF Reading!RowType, Reading!RepositoryDocument, Reading!Decisions, ReadingTables
  <2>3. TRUE
    OBVIOUS
  <2> HIDE DEF r
  <2>4. Reading(s)!WriteSound(h) /\ ~Reading(s)!Retires(h)
    <3>1. Reading(s)!WriteTyped(h, Reading(s)!RowType) /\ h.op = "append" /\ h.c = "repositoryDocuments" /\ h.row = r
      BY <2>2, ReadingNew
    <3> HIDE DEF h
    <3> QED BY <2>3, <3>1 DEF Reading!WriteSound, Reading!Retires
  <2> QED BY <1>2, <2>1, <2>4, ReadingAsks DEF r
<1>6. CASE Reading(s)!Propose(w)
  <2>1. Reading(s)!Ask(w, <<Reading(s)!New("agreementIntelligenceVersions", [version |-> Len(db["agreementIntelligenceVersions"]) + 1, status |-> "DRAFT", items |-> [i \in Cast[s].items |-> "PENDING"]])>>)
    BY <1>6 DEF Reading!Propose, Reading!Ids, Reading!Count
  <2> DEFINE r == [version |-> Len(db["agreementIntelligenceVersions"]) + 1, status |-> "DRAFT", items |-> [i \in Cast[s].items |-> "PENDING"]]
             h == Reading(s)!New("agreementIntelligenceVersions", r)
  <2>2. "agreementIntelligenceVersions" \in ReadingTables /\ r \in Reading(s)!RowType["agreementIntelligenceVersions"]
    BY <1>1 DEF Reading!RowType, Reading!AgreementIntelligenceVersion, Reading!Decisions, ReadingTables
  <2>3. r.status = "DRAFT"
    OBVIOUS
  <2> HIDE DEF r
  <2>4. Reading(s)!WriteSound(h) /\ ~Reading(s)!Retires(h)
    <3>1. Reading(s)!WriteTyped(h, Reading(s)!RowType) /\ h.op = "append" /\ h.c = "agreementIntelligenceVersions" /\ h.row = r
      BY <2>2, ReadingNew
    <3> HIDE DEF h
    <3> QED BY <2>3, <3>1 DEF Reading!WriteSound, Reading!Retires
  <2> QED BY <1>2, <2>1, <2>4, ReadingAsks DEF r
<1>7. CASE Reading(s)!ReviewFinding(w)
  <2> DEFINE c == "analysisReviews"
             r(x, i, u, to) == [run |-> x, finding |-> i, by |-> u, decision |-> to]
  <2>1. PICK x \in DOMAIN db["contractAnalysisRuns"], u \in Cast[s].reviewers, to \in Reading(s)!Decisions :
          \E i \in db["contractAnalysisRuns"][x].findings : Reading(s)!Ask(w, <<Reading(s)!New(c, r(x, i, u, to))>>)
    BY <1>7 DEF Reading!ReviewFinding, Reading!Ids, Reading!NewReview
  <2>2. PICK i \in db["contractAnalysisRuns"][x].findings : Reading(s)!Ask(w, <<Reading(s)!New(c, r(x, i, u, to))>>)
    BY <2>1
  <2>3. c \in ReadingTables /\ r(x, i, u, to) \in Reading(s)!RowType[c]
    <3>1. "contractAnalysisRuns" \in ReadingTables
      BY DEF ReadingTables
    <3>2. db["contractAnalysisRuns"][x] \in Reading(s)!RowType["contractAnalysisRuns"] /\ x \in Nat
      BY <1>1, <3>1
    <3>3. i \in Cast[s].items /\ x \in Nat
      BY <3>2 DEF Reading!RowType, Reading!AnalysisRun
    <3> QED BY <3>3 DEF Reading!RowType, Reading!AnalysisReview, ReadingTables
  <2> DEFINE h == Reading(s)!New(c, r(x, i, u, to))
  <2> HIDE DEF r
  <2>4. Reading(s)!WriteSound(h) /\ ~Reading(s)!Retires(h)
    <3>1. Reading(s)!WriteTyped(h, Reading(s)!RowType) /\ h.op = "append" /\ h.c = c
      BY <2>3, ReadingNew
    <3> HIDE DEF h
    <3> QED BY <3>1 DEF Reading!WriteSound, Reading!Retires
  <2> QED BY <1>2, <2>2, <2>4, ReadingAsks
<1>8. CASE Reading(s)!Validate(w)
  <2>1. PICK x \in DOMAIN db["contractRiskAssessments"] :
          /\ Reading(s)!Ask(w, <<Reading(s)!Put("contractRiskAssessments", x, [db["contractRiskAssessments"][x] EXCEPT !.status = "VALIDATED"])>>)
          /\ TRUE
    BY <1>8 DEF Reading!Validate, Reading!Ids, Reading!Set, Reading!PutRisk, Reading!InStatus
  <2> DEFINE r == [db["contractRiskAssessments"][x] EXCEPT !.status = "VALIDATED"]
             h == Reading(s)!Put("contractRiskAssessments", x, r)
  <2>2. "contractRiskAssessments" \in ReadingTables
    BY DEF ReadingTables
  <2>3. db["contractRiskAssessments"][x] \in Reading(s)!RiskAssessment
    BY <1>1, <2>2 DEF Reading!RowType
  <2>4. r \in Reading(s)!RowType["contractRiskAssessments"]
    BY <2>1, <2>3 DEF Reading!RowType, Reading!RiskAssessment, Reading!Decisions
  <2> HIDE DEF r
  <2>5. Reading(s)!WriteSound(h) /\ ~Reading(s)!Retires(h)
    <3>1. /\ Reading(s)!WriteTyped(h, Reading(s)!RowType)
          /\ h.op = "replace" /\ h.c = "contractRiskAssessments" /\ h.row = r
      BY <2>2, <2>4, ReadingPut
    <3> HIDE DEF h
    <3> QED BY <2>4, <3>1 DEF Reading!WriteSound, Reading!Retires
  <2> QED BY <1>2, <2>1, <2>5, ReadingAsks DEF r
<1>9. CASE Reading(s)!Hold(w)
  <2>1. PICK x \in DOMAIN db["repositoryDocuments"] :
          /\ Reading(s)!Ask(w, <<Reading(s)!Put("repositoryDocuments", x, [db["repositoryDocuments"][x] EXCEPT !.legalHold = TRUE])>>)
          /\ TRUE
    BY <1>9 DEF Reading!Hold, Reading!Ids, Reading!Set, Reading!PutDocument, Reading!InStatus
  <2> DEFINE r == [db["repositoryDocuments"][x] EXCEPT !.legalHold = TRUE]
             h == Reading(s)!Put("repositoryDocuments", x, r)
  <2>2. "repositoryDocuments" \in ReadingTables
    BY DEF ReadingTables
  <2>3. db["repositoryDocuments"][x] \in Reading(s)!RepositoryDocument
    BY <1>1, <2>2 DEF Reading!RowType
  <2>4. r \in Reading(s)!RowType["repositoryDocuments"]
    BY <2>1, <2>3 DEF Reading!RowType, Reading!RepositoryDocument, Reading!Decisions
  <2> HIDE DEF r
  <2>5. Reading(s)!WriteSound(h) /\ ~Reading(s)!Retires(h)
    <3>1. /\ Reading(s)!WriteTyped(h, Reading(s)!RowType)
          /\ h.op = "replace" /\ h.c = "repositoryDocuments" /\ h.row = r
      BY <2>2, <2>4, ReadingPut
    <3> HIDE DEF h
    <3> QED BY <2>4, <3>1 DEF Reading!WriteSound, Reading!Retires
  <2> QED BY <1>2, <2>1, <2>5, ReadingAsks DEF r
<1>10. CASE Reading(s)!Review(w)
  <2>1. PICK x \in DOMAIN db["agreementIntelligenceVersions"], i \in Cast[s].items, to \in Reading(s)!Decisions :
          /\ Reading(s)!Ask(w, <<Reading(s)!Put("agreementIntelligenceVersions", x, [db["agreementIntelligenceVersions"][x] EXCEPT !.items[i] = to])>>)
          /\ db["agreementIntelligenceVersions"][x].status = "DRAFT"
    BY <1>10 DEF Reading!Review, Reading!Ids, Reading!Set, Reading!PutReading, Reading!InStatus
  <2> DEFINE r == [db["agreementIntelligenceVersions"][x] EXCEPT !.items[i] = to]
             h == Reading(s)!Put("agreementIntelligenceVersions", x, r)
  <2>2. "agreementIntelligenceVersions" \in ReadingTables
    BY DEF ReadingTables
  <2>3. db["agreementIntelligenceVersions"][x] \in Reading(s)!AgreementIntelligenceVersion
    BY <1>1, <2>2 DEF Reading!RowType
  <2>4. r \in Reading(s)!RowType["agreementIntelligenceVersions"] /\ r.status = "DRAFT"
    BY <2>1, <2>3 DEF Reading!RowType, Reading!AgreementIntelligenceVersion, Reading!Decisions
  <2> HIDE DEF r
  <2>5. Reading(s)!WriteSound(h) /\ ~Reading(s)!Retires(h)
    <3>1. /\ Reading(s)!WriteTyped(h, Reading(s)!RowType)
          /\ h.op = "replace" /\ h.c = "agreementIntelligenceVersions" /\ h.row = r
      BY <2>2, <2>4, ReadingPut
    <3> HIDE DEF h
    <3> QED BY <2>4, <3>1 DEF Reading!WriteSound, Reading!Retires
  <2> QED BY <1>2, <2>1, <2>5, ReadingAsks DEF r
<1>11. CASE Reading(s)!RegisterExecuted(w)
  <2> DEFINE c == "contractVersionsV2"
             r(d) == [number |-> Len(db[c]) + 1, hash |-> d, status |-> "ACTIVE"]
             old(x) == [db[c][x] EXCEPT !.status = "SUPERSEDED"]
  <2>1. PICK d \in Cast[s].hashes :
          /\ Reading(s)!Room(c) /\ \A x \in DOMAIN db[c] : db[c][x].hash # d
          /\ \/ Reading(s)!Ask(w, <<Reading(s)!New(c, r(d))>>)
             \/ \E x \in DOMAIN db[c] : Reading(s)!Ask(w, <<Reading(s)!Put(c, x, old(x)), Reading(s)!New(c, r(d))>>)
    BY <1>11 DEF Reading!RegisterExecuted, Reading!Ids, Reading!Successor, Reading!PutContract, Reading!Set,
       Reading!Count
  <2>2. c \in ReadingTables /\ Len(db[c]) \in Nat
    BY <1>1 DEF ReadingTables
  <2>3. r(d) \in Reading(s)!RowType[c] /\ Reading(s)!Succeeds(r(d)) /\ r(d).number = Len(db[c]) + 1
    BY <2>1, <2>2 DEF Reading!RowType, Reading!ContractVersion, Reading!Succeeds, Reading!Count, Reading!Ids
  <2> HIDE DEF r
  <2> DEFINE g == Reading(s)!New(c, r(d))
  <2>4. Reading(s)!WriteSound(g) /\ ~Reading(s)!Retires(g) /\ g.c = c /\ g.row.number = Len(db[c]) + 1
    <3>1. Reading(s)!WriteTyped(g, Reading(s)!RowType) /\ g.op = "append" /\ g.c = c /\ g.row = r(d)
      BY <2>2, <2>3, ReadingNew
    <3> HIDE DEF g
    <3> QED BY <2>3, <3>1 DEF Reading!WriteSound, Reading!Retires
  <2>5. ASSUME NEW x \in DOMAIN db[c]
        PROVE  LET h == Reading(s)!Put(c, x, old(x))
               IN Reading(s)!WriteSound(h) /\ h.id < g.row.number
    <3> DEFINE h == Reading(s)!Put(c, x, old(x))
    <3>1. db[c][x] \in Reading(s)!ContractVersion
      BY <1>1, <2>2 DEF Reading!RowType
    <3>2. old(x) \in Reading(s)!RowType[c]
      BY <3>1 DEF Reading!RowType, Reading!ContractVersion
    <3> HIDE DEF old
    <3>3. /\ Reading(s)!WriteTyped(h, Reading(s)!RowType)
          /\ h.op = "replace" /\ h.c = c /\ h.id = x /\ h.row = old(x)
      BY <2>2, <3>2, ReadingPut
    <3>4. x \in 1..Len(db[c])
      BY <1>1, <2>2
    <3> HIDE DEF h
    <3>5. h.id < g.row.number
      BY <2>2, <2>4, <3>3, <3>4
    <3> QED BY <3>3, <3>5 DEF Reading!WriteSound, Reading!Retires, old, h
  <2> HIDE DEF g, old
  <2>6. CASE Reading(s)!Ask(w, <<g>>)
    BY <1>2, <2>4, <2>6, ReadingAsks
  <2>7. ASSUME NEW x \in DOMAIN db[c], Reading(s)!Ask(w, <<Reading(s)!Put(c, x, old(x)), g>>)
        PROVE  ReadingMoves(s, w)
    BY <1>2, <2>4, <2>5, <2>7, ReadingAsksTwo
  <2> QED BY <2>1, <2>6, <2>7 DEF g
<1>12. CASE Reading(s)!Publish(w)
  <2> DEFINE c == "agreementIntelligenceVersions"
  <2>1. PICK x \in DOMAIN db[c] : Reading(s)!Look(w, [at |-> "published", id |-> x, row |-> [db[c][x] EXCEPT !.status = "PUBLISHED"]])
    BY <1>12 DEF Reading!Publish, Reading!Ids
  <2> DEFINE j == [at |-> "published", id |-> x, row |-> [db[c][x] EXCEPT !.status = "PUBLISHED"]]
  <2>2. job' = [job EXCEPT ![w] = j] /\ UNCHANGED db /\ job[w].at # "write"
    BY <2>1 DEF Reading!Look, Reading!Receive, Reading!Carry, Reading!At
  <2>3. db[c][x] \in Reading(s)!AgreementIntelligenceVersion
    <3>1. c \in ReadingTables
      BY DEF ReadingTables
    <3> QED BY <1>1, <3>1 DEF Reading!RowType
  <2>4. j.at = "published" /\ j.id = x /\ j.row \in Reading(s)!AgreementIntelligenceVersion /\ j.row.status = "PUBLISHED"
    BY <2>3 DEF Reading!AgreementIntelligenceVersion
  <2> HIDE DEF j
  <2>5. Reading(s)!JobSound(j)
    BY <2>4 DEF Reading!JobSound, Reading!Ids
  <2> QED BY <2>2, <2>5, ReadingStarts
<1>13. CASE Reading(s)!ReadPublished(w)
  <2> DEFINE c == "agreementIntelligenceVersions"
             g == Reading(s)!Put(c, job[w].id, job[w].row)
             old(x) == [db[c][x] EXCEPT !.status = "SUPERSEDED"]
  <2>1. /\ job[w].at = "published"
        /\ \/ Reading(s)!Decide(w, <<g>>)
           \/ \E x \in ReadingForce(db) : Reading(s)!Decide(w, <<Reading(s)!Put(c, x, old(x)), g>>)
    BY <1>13, ReadingInForce DEF Reading!ReadPublished, Reading!At, Reading!PutReading, Reading!Set
  <2>2. /\ job[w].id \in DOMAIN db[c] /\ job[w].row \in Reading(s)!RowType[c] /\ job[w].row.status = "PUBLISHED"
        /\ c \in ReadingTables
    BY <2>1 DEF Reading!IInv, Reading!JobSound, Reading!Ids, Reading!RowType, ReadingTables
  <2>3. Reading(s)!WriteSound(g) /\ ~Reading(s)!Retires(g)
    <3>1. /\ Reading(s)!WriteTyped(g, Reading(s)!RowType)
          /\ g.op = "replace" /\ g.c = c /\ g.row.status = "PUBLISHED"
      BY <2>2, ReadingPut
    <3> HIDE DEF g
    <3> QED BY <3>1 DEF Reading!WriteSound, Reading!Retires
  <2>4. ASSUME NEW x \in ReadingForce(db)
        PROVE  LET h == Reading(s)!Put(c, x, old(x)) IN Reading(s)!WriteSound(h) /\ ~Reading(s)!Retires(h)
    <3> DEFINE h == Reading(s)!Put(c, x, old(x))
    <3>1. x \in DOMAIN db[c] /\ db[c][x].status # "DRAFT"
      BY DEF ReadingForce
    <3>2. db[c][x] \in Reading(s)!AgreementIntelligenceVersion /\ Reading(s)!Judged(db[c][x].items)
      BY <1>1, <2>2, <3>1 DEF Reading!RowType, Reading!IInv, Reading!PublishedReviewed, Reading!Ids, Reading!Judged
    <3>3. old(x) \in Reading(s)!RowType[c] /\ old(x).items = db[c][x].items
      BY <3>2 DEF Reading!RowType, Reading!AgreementIntelligenceVersion
    <3> HIDE DEF old
    <3>4. /\ Reading(s)!WriteTyped(h, Reading(s)!RowType)
          /\ h.op = "replace" /\ h.c = c /\ h.row = old(x)
      BY <2>2, <3>1, <3>3, ReadingPut
    <3> HIDE DEF h
    <3> QED BY <3>2, <3>3, <3>4 DEF Reading!WriteSound, Reading!Retires, old, h
  <2> HIDE DEF g, old
  <2>5. job[w].at # "write"
    BY <2>1
  <2>6. CASE Reading(s)!Decide(w, <<g>>)
    BY <2>3, <2>5, <2>6, ReadingAsks
  <2>7. ASSUME NEW x \in ReadingForce(db), Reading(s)!Decide(w, <<Reading(s)!Put(c, x, old(x)), g>>)
        PROVE  ReadingMoves(s, w)
    BY <2>3, <2>4, <2>5, <2>7, ReadingAsksTwo
  <2> QED BY <2>1, <2>6, <2>7
<1> QED BY <1>3, <1>4, <1>5, <1>6, <1>7, <1>8, <1>9, <1>10, <1>11, <1>12, <1>13 DEF Reading!Handle

LEMMA ReadingGivesUp ==
  ASSUME NEW s \in ReadingScenes, NEW w, Reading(s)!GiveUp(w),
         ~Reading(s)!Deathless \/ Reading(s)!InForce("contractVersionsV2") # {} \/ ~Reading(s)!Succeeding(job[w])
  PROVE  ReadingMoves(s, w)
<1> DEFINE j == Reading(s)!Idle
<1>1. j.at = "idle" /\ job' = [job EXCEPT ![w] = j] /\ UNCHANGED db
  BY DEF Reading!GiveUp, Reading!Return, Reading!Carry, Reading!Idle
<1> HIDE DEF j
<1>2. Reading(s)!JobSound(j)
  BY <1>1 DEF Reading!JobSound
<1> QED BY <1>1, <1>2 DEF ReadingMoves

(* The next version of the contract is not refused.                        *)
LEMMA ReadingSucceeds ==
  ASSUME NEW s \in ReadingScenes, Reading(s)!IInv, NEW w, Reading(s)!Succeeding(job[w]), NEW h,
         job[w].todo = <<h>>, Reading(s)!WriteSound(h), ~Reading(s)!Retires(h)
  PROVE  /\ h.c = "contractVersionsV2" /\ h.op = "append"
         /\ Reading(s)!InForce(h.c) = {} => Reading(s)!Admits(h) /\ Reading(s)!Room(h.c)
<1>1. h.c = "contractVersionsV2" /\ h.op = "append" /\ h.row.number = Reading(s)!Count(h.c)
  BY DEF Reading!Succeeding, Reading!Retires, Reading!WriteSound, Reading!WriteTyped
<1>2. ASSUME Reading(s)!InForce(h.c) = {} PROVE Reading(s)!Admits(h) /\ Reading(s)!Room(h.c)
  <2>1. Reading(s)!Room(h.c) /\ \A x \in DOMAIN db[h.c] : db[h.c][x].hash # h.row.hash
    BY <1>1 DEF Reading!WriteSound, Reading!Succeeds, Reading!Ids
  <2>2. \A x \in DOMAIN db[h.c] : db[h.c][x].number # h.row.number
    <3>1. /\ \A x \in DOMAIN db[h.c] : db[h.c][x].number = x
          /\ DOMAIN db[h.c] = 1..Len(db[h.c]) /\ Len(db[h.c]) \in Nat
      BY <1>1, ReadingTyped DEF Reading!IInv, Reading!InPlace, Reading!Ids, ReadingTables
    <3> QED BY <1>1, <3>1 DEF Reading!Count
  <2>3. Reading(s)!KeyFree(h)
    BY <1>1, <2>1, <2>2 DEF Reading!KeyFree, Reading!Ids
  <2> QED BY <1>1, <1>2, <2>1, <2>3 DEF Reading!Admits, Reading!OneInForce
<1> QED BY <1>1, <1>2

LEMMA ReadingCommits ==
  ASSUME NEW s \in ReadingScenes, Reading(s)!IInv, NEW w \in Cast[s].workers,
         Reading(s)!Commit(w, Reading(s)!Admits(Reading(s)!Due(w)))
  PROVE  ReadingMoves(s, w) \/ ReadingWrites(s, w)
<1> DEFINE t == job[w].todo
<1>1. Reading(s)!JobSound(job[w]) /\ job[w].at = "write"
  BY DEF Reading!Commit, Reading!At, Reading!IInv
<1>2. ASSUME NEW h, t = <<h>>, Reading(s)!WriteSound(h), ~Reading(s)!Retires(h)
      PROVE  ReadingMoves(s, w) \/ ReadingWrites(s, w)
  <2>1. Reading(s)!Due(w) = h /\ Tail(t) = <<>>
    BY <1>2, TodoOfOne DEF Reading!Due
  <2>2. \/ /\ Reading(s)!Admits(h) /\ db' = Reading(s)!Written(h) /\ Reading(s)!Return(w)
        \/ /\ ~Reading(s)!Admits(h) \/ ~Reading(s)!Room(h.c)
           /\ Reading(s)!GiveUp(w)
    BY <2>1 DEF Reading!Commit
  <2>3. CASE Reading(s)!Admits(h) /\ db' = Reading(s)!Written(h) /\ Reading(s)!Return(w)
    <3> DEFINE j == Reading(s)!Idle
    <3>1. j.at = "idle" /\ job' = [job EXCEPT ![w] = j]
      BY <2>3 DEF Reading!Return, Reading!Carry, Reading!Idle
    <3> HIDE DEF j
    <3>2. Reading(s)!JobSound(j)
      BY <3>1 DEF Reading!JobSound
    <3>3. Reading(s)!Succeeding(job[w]) => h.c = "contractVersionsV2" /\ h.op = "append"
      BY <1>2, ReadingSucceeds
    <3> QED BY <1>2, <2>3, <3>1, <3>2, <3>3 DEF ReadingWrites
  <2>4. CASE (~Reading(s)!Admits(h) \/ ~Reading(s)!Room(h.c)) /\ Reading(s)!GiveUp(w)
    <3>1. Reading(s)!InForce("contractVersionsV2") # {} \/ ~Reading(s)!Succeeding(job[w])
      BY <1>2, <2>4, ReadingSucceeds
    <3> QED BY <2>4, <3>1, ReadingGivesUp
  <2> QED BY <2>2, <2>3, <2>4
<1>3. ASSUME NEW h, NEW g, t = <<h, g>>, Reading(s)!WriteSound(h), Reading(s)!WriteSound(g),
             ~Reading(s)!Retires(g),
             Reading(s)!Retires(h) => g.c = "contractVersionsV2" /\ h.id < g.row.number
      PROVE  ReadingMoves(s, w) \/ ReadingWrites(s, w)
  <2>1. Reading(s)!Due(w) = h /\ Tail(t) = <<g>> /\ <<g>> # <<>> /\ Len(t) = 2
    BY <1>3, TodoOfTwo DEF Reading!Due
  <2>2. ~Reading(s)!Succeeding(job[w])
    <3> SUFFICES ASSUME Reading(s)!Succeeding(job[w]) PROVE FALSE
      OBVIOUS
    <3>1. Len(<<t[1]>>) = 1 /\ t = <<t[1]>>
      BY TodoOfOne DEF Reading!Succeeding
    <3> HIDE DEF t
    <3> QED BY <2>1, <3>1
  <2>3. \/ /\ Reading(s)!Admits(h) /\ db' = Reading(s)!Written(h)
           /\ Reading(s)!Carry(w, [at |-> "write", todo |-> <<g>>])
        \/ Reading(s)!GiveUp(w)
    BY <2>1 DEF Reading!Commit
  <2>4. CASE /\ Reading(s)!Admits(h) /\ db' = Reading(s)!Written(h)
             /\ Reading(s)!Carry(w, [at |-> "write", todo |-> <<g>>])
    <3> DEFINE j == [at |-> "write", todo |-> <<g>>]
    <3>1. j.at = "write" /\ j.todo = <<g>> /\ j.todo[1] = g /\ job' = [job EXCEPT ![w] = j]
      BY <2>4 DEF Reading!Carry
    <3> HIDE DEF j
    <3>2. Reading(s)!JobSound(j)
      BY <1>3, <3>1 DEF Reading!JobSound
    <3>3. Reading(s)!Retires(h) => ReadingFollows(s, h, j)
      BY <1>3, <3>1 DEF ReadingFollows
    <3> QED BY <1>3, <2>2, <2>4, <3>1, <3>2, <3>3 DEF ReadingWrites
  <2> QED BY <2>2, <2>3, <2>4, ReadingGivesUp
<1> QED BY <1>1, <1>2, <1>3 DEF Reading!JobSound

LEMMA ReadingTakes ==
  ASSUME NEW s \in ReadingScenes, Reading(s)!IInv, [Reading(s)!Next]_<<db, job>>
  PROVE  \E w \in Cast[s].workers : ReadingMoves(s, w) \/ ReadingWrites(s, w)
<1>1. CASE Reading(s)!Proceed
  BY <1>1, ReadingHandles, ReadingCommits DEF Reading!Proceed
<1>2. ASSUME NEW w \in Cast[s].mortals, Reading(s)!Die(w) PROVE w \in Cast[s].workers /\ ReadingMoves(s, w)
  <2>1. w \in Cast[s].workers /\ Reading(s)!GiveUp(w) /\ ~Reading(s)!Deathless
    BY <1>2, PlatformAssumption DEF Reading!ReadingAssumption, Reading!Die, Reading!Crash, Reading!GiveUp,
       Reading!Deathless
  <2> QED BY <2>1, ReadingGivesUp
<1>3. CASE UNCHANGED <<db, job>>
  <2>1. PICK w \in Cast[s].workers : TRUE
    BY PlatformAssumption DEF Reading!ReadingAssumption
  <2>2. job' = [job EXCEPT ![w] = job[w]] /\ Reading(s)!JobSound(job[w])
    BY <1>3, CarryStays DEF Reading!IInv
  <2>3. ReadingMoves(s, w)
    BY <1>3, <2>2 DEF ReadingMoves
  <2> QED BY <2>3
<1> QED BY <1>1, <1>2, <1>3 DEF Reading!Next

LEMMA ReadingInit ==
  ASSUME NEW s \in ReadingScenes, Reading(s)!Empty PROVE Reading(s)!IInv /\ Reading(s)!KeptInv
<1>1. /\ db = [c \in Reading(s)!Collections |-> <<>>]
      /\ job = [w \in Cast[s].workers |-> Reading(s)!Idle]
      /\ Reading(s)!Collections = ReadingTables
  BY PlatformAssumption DEF Reading!Empty, Reading!ReadingAssumption, Reading!RowType, ReadingTables
<1>2. \A c \in ReadingTables : db[c] = <<>> /\ DOMAIN db[c] = {}
  BY <1>1
<1>3. Reading(s)!TablesTyped(Reading(s)!RowType)
  <2>1. \A T : <<>> \in Seq(T)
    OBVIOUS
  <2> QED BY <1>1, <1>2, <2>1 DEF Reading!TablesTyped
<1>4. /\ DOMAIN db["contractVersionsV2"] = {} /\ DOMAIN db["agreementIntelligenceVersions"] = {}
      /\ DOMAIN db["analysisReviews"] = {}
  BY <1>2 DEF ReadingTables
<1>5. Reading(s)!OneReading
  <2>1. ReadingForce(db) = {}
    BY <1>4 DEF ReadingForce
  <2> QED BY <2>1, ReadingCardinality, ReadingInForce, FS_EmptySet DEF Reading!OneReading
<1>6. /\ Reading(s)!PublishedReviewed /\ Reading(s)!OneOpinion /\ Reading(s)!InPlace /\ Reading(s)!KeptInv
  <2>1. ContractForce(db) = {}
    BY <1>4 DEF ContractForce
  <2> QED BY <1>4, <2>1, ReadingInForce DEF Reading!PublishedReviewed, Reading!OneOpinion, Reading!InPlace,
        Reading!KeptInv, Reading!Ids
<1>7. job = [w \in Cast[s].workers |-> job[w]]
  BY <1>1
<1>8. \A w \in Cast[s].workers : Reading(s)!JobSound(job[w])
  BY <1>1 DEF Reading!JobSound, Reading!Idle
<1> QED BY <1>3, <1>5, <1>6, <1>7, <1>8 DEF Reading!IInv

LEMMA ReadingPreserves ==
  ASSUME NEW s \in ReadingScenes, Reading(s)!IInv, [Reading(s)!Next]_<<db, job>>
  PROVE  Reading(s)!IInv'
<1>1. PICK w \in Cast[s].workers : ReadingMoves(s, w) \/ ReadingWrites(s, w)
  BY ReadingTakes
<1>2. job = [v \in Cast[s].workers |-> job[v]] /\ \A v \in Cast[s].workers : Reading(s)!JobSound(job[v])
  BY DEF Reading!IInv
<1>3. CASE ReadingMoves(s, w)
  <2>1. PICK j : job' = [job EXCEPT ![w] = j] /\ UNCHANGED db /\ Reading(s)!JobSound(j)
    BY <1>3 DEF ReadingMoves
  <2>2. job' = [v \in Cast[s].workers |-> job'[v]] /\ \A v \in Cast[s].workers : Reading(s)!JobSound(job'[v])
    BY <1>2, <2>1, CarryMoves
  <2>3. \A g : Reading(s)!WriteSound(g) => Reading(s)!WriteSound(g)'
    BY <2>1 DEF Reading!WriteSound, Reading!WriteTyped, Reading!Ids, Reading!Judged,
       Reading!Succeeds, Reading!Retires, Reading!Count, Reading!Room
  <2>4. \A i : Reading(s)!JobSound(i) => Reading(s)!JobSound(i)'
    BY <2>1, <2>3 DEF Reading!JobSound, Reading!Retires, Reading!Ids
  <2> QED BY <2>1, <2>2, <2>4 DEF Reading!IInv, Reading!TablesTyped, Reading!OneReading, Reading!InPlace,
        Reading!PublishedReviewed, Reading!OneOpinion, Reading!Ids, Reading!InForce, Reading!InStatus
<1>4. CASE ReadingWrites(s, w)
  <2>1. PICK h, j : /\ Reading(s)!WriteSound(h) /\ Reading(s)!Admits(h) /\ db' = Reading(s)!Written(h)
                    /\ job' = [job EXCEPT ![w] = j] /\ Reading(s)!JobSound(j)
    BY <1>4 DEF ReadingWrites
  <2>2. job' = [v \in Cast[s].workers |-> job'[v]] /\ \A v \in Cast[s].workers : Reading(s)!JobSound(job'[v])
    BY <1>2, <2>1, CarryMoves
  <2>3. \A g : Reading(s)!WriteSound(g) => Reading(s)!WriteSound(g)'
    BY <2>1, ReadingPlaced
  <2>4. \A x : x \in Reading(s)!Ids("agreementIntelligenceVersions")
          => x \in Reading(s)!Ids("agreementIntelligenceVersions")'
    <3>1. Keeps(db, db', h)
      BY <2>1, ReadingLands
    <3> QED BY <3>1, ReadingTyped DEF Reading!IInv, Reading!Ids, ReadingTables, Keeps
  <2>5. ASSUME NEW i, Reading(s)!JobSound(i) PROVE Reading(s)!JobSound(i)'
    BY <2>3, <2>4, <2>5 DEF Reading!JobSound, Reading!Retires
  <2>6. /\ Reading(s)!TablesTyped(Reading(s)!RowType)' /\ Reading(s)!InPlace'
        /\ Reading(s)!OneReading' /\ Reading(s)!PublishedReviewed' /\ Reading(s)!OneOpinion'
    BY <2>1, ReadingLands, ReadingPlaced, ReadingJudged
  <2> QED BY <2>2, <2>5, <2>6 DEF Reading!IInv
<1> QED BY <1>1, <1>3, <1>4

(* While no request dies: one version of a contract is in force, or        *)
(* somebody is about to write the next.                                    *)
LEMMA ReadingKeeps ==
  ASSUME NEW s \in ReadingScenes, Reading(s)!IInv, Reading(s)!KeptInv, [Reading(s)!Next]_<<db, job>>
  PROVE  Reading(s)!KeptInv'
<1> DEFINE c == "contractVersionsV2"
<1> SUFFICES ASSUME Reading(s)!Deathless, DOMAIN db'[c] # {}, ContractForce(db') = {}
             PROVE  \E v \in Cast[s].workers : Reading(s)!Succeeding(job[v])'
  BY ReadingInForce DEF Reading!KeptInv, Reading!Ids, Reading!Deathless
<1>1. PICK w \in Cast[s].workers : ReadingMoves(s, w) \/ ReadingWrites(s, w)
  BY ReadingTakes
<1>2. job = [v \in Cast[s].workers |-> job[v]]
  BY DEF Reading!IInv
<1>3. DOMAIN db[c] = {} \/ ContractForce(db) # {} \/ \E v \in Cast[s].workers : Reading(s)!Succeeding(job[v])
  BY ReadingInForce DEF Reading!KeptInv, Reading!Ids
<1>4. CASE ReadingMoves(s, w)
  <2>1. PICK j : /\ job' = [job EXCEPT ![w] = j] /\ UNCHANGED db
                 /\ ContractForce(db) = {} => ~Reading(s)!Succeeding(job[w]) \/ j = job[w]
    BY <1>4, ReadingInForce DEF ReadingMoves
  <2>2. job'[w] = j /\ \A v \in Cast[s].workers \ {w} : job'[v] = job[v]
    BY <1>2, <2>1, CarryMoves
  <2>3. PICK v \in Cast[s].workers : Reading(s)!Succeeding(job[v])
    BY <1>3, <2>1
  <2>4. job'[v] = job[v]
    BY <2>1, <2>2, <2>3
  <2> QED BY <2>1, <2>3, <2>4 DEF Reading!Succeeding, Reading!Count
<1>5. CASE ReadingWrites(s, w)
  <2>1. PICK h, j : /\ Reading(s)!WriteSound(h) /\ Reading(s)!Admits(h) /\ db' = Reading(s)!Written(h)
                    /\ job' = [job EXCEPT ![w] = j]
                    /\ Reading(s)!Retires(h) => ReadingFollows(s, h, j)
                    /\ Reading(s)!Succeeding(job[w]) => h.c = c /\ h.op = "append"
    BY <1>5 DEF ReadingWrites
  <2>2. job'[w] = j /\ \A v \in Cast[s].workers \ {w} : job'[v] = job[v]
    BY <1>2, <2>1, CarryMoves
  <2>3. /\ c \in DOMAIN db /\ h.op \in {"append", "replace"}
        /\ h.op = "replace" => h.id \in DOMAIN db[h.c]
        /\ Lands(db, db', h) /\ Keeps(db, db', h) /\ Len(db[c]) \in Nat
    <3>1. c \in ReadingTables
      BY DEF ReadingTables
    <3> QED BY <2>1, <3>1, ReadingLands, ReadingTyped DEF Reading!IInv
  <2>4. ~(h.c = c /\ h.op = "append")
    <3> SUFFICES ASSUME h.c = c, h.op = "append" PROVE FALSE
      OBVIOUS
    <3>1. h.row.status = "ACTIVE"
      BY <2>1 DEF Reading!WriteSound, Reading!Succeeds
    <3>2. Len(db[c]) + 1 \in DOMAIN db'[c] /\ db'[c][Len(db[c]) + 1] = h.row
      BY <2>3 DEF Lands, Place
    <3> QED BY <3>1, <3>2 DEF ContractForce
  <2>5. /\ DOMAIN db'[c] = DOMAIN db[c] /\ Len(db'[c]) = Len(db[c])
        /\ \A x \in DOMAIN db[c] : db'[c][x] = db[c][x] \/ (h.c = c /\ h.op = "replace" /\ x = h.id)
    BY <2>3, <2>4 DEF Lands, Place, Keeps
  <2>6. ASSUME NEW v \in Cast[s].workers, Reading(s)!Succeeding(job[v])
        PROVE  Reading(s)!Succeeding(job[v])'
    <3>1. job'[v] = job[v]
      BY <2>1, <2>2, <2>4, <2>6
    <3> QED BY <2>5, <2>6, <3>1 DEF Reading!Succeeding, Reading!Count
  <2>7. ASSUME NEW x \in ContractForce(db) PROVE Reading(s)!Succeeding(job[w])'
    <3>1. h.c = c /\ h.op = "replace" /\ x = h.id
      BY <2>5 DEF ContractForce
    <3>2. PICK g : /\ j.at = "write" /\ j.todo = <<g>> /\ Reading(s)!WriteSound(g) /\ ~Reading(s)!Retires(g)
                   /\ g.c = c /\ h.id < g.row.number
      BY <2>1, <3>1 DEF Reading!Retires, ReadingFollows
    <3>3. x = Len(db[c])
      BY ReadingInForce DEF Reading!IInv, Reading!InPlace
    <3>4. g.row.number <= Len(db[c]) + 1 /\ g.row.number \in Nat
      <4>1. g.op = "append" /\ g.row \in Reading(s)!ContractVersion
        BY <3>2 DEF Reading!WriteSound, Reading!WriteTyped, Reading!Retires, Reading!RowType
      <4> QED BY <3>2, <4>1 DEF Reading!WriteSound, Reading!Succeeds, Reading!Count, Reading!ContractVersion
    <3> DEFINE n == g.row.number
               m == Len(db[c])
    <3>5. n \in Nat /\ m \in Nat /\ m < n /\ n <= m + 1
      BY <2>3, <3>1, <3>2, <3>3, <3>4
    <3>6. n = m + 1
      <4> HIDE DEF n, m
      <4> QED BY <3>5
    <3>7. <<g>>[1] = g
      OBVIOUS
    <3> QED BY <2>2, <2>5, <3>2, <3>6, <3>7 DEF Reading!Succeeding, Reading!Count
  <2> QED BY <1>3, <2>5, <2>6, <2>7
<1> QED BY <1>1, <1>4, <1>5

LEMMA ReadingPromises ==
  ASSUME NEW s \in ReadingScenes, Reading(s)!IInv, Reading(s)!KeptInv
  PROVE  /\ Reading(s)!TypeOK /\ Reading(s)!OneOpinion /\ Reading(s)!OneReading
         /\ Reading(s)!PublishedReviewed
         /\ Reading(s)!Deathless => Reading(s)!ContractKept
<1>1. Reading(s)!TypeOK
  BY ReadingTyped DEF Reading!IInv, Reading!TypeOK, Reading!Ids
<1>2. ASSUME Reading(s)!Deathless, Reading(s)!Quiet, Reading(s)!Ids("contractVersionsV2") # {}
      PROVE  Reading(s)!Cardinality(Reading(s)!InForce("contractVersionsV2")) = 1
  <2>1. \A w \in Cast[s].workers : ~Reading(s)!Succeeding(job[w])
    BY <1>2 DEF Reading!Succeeding, Reading!Quiet, Reading!At
  <2>2. Reading(s)!InForce("contractVersionsV2") # {}
    BY <1>2, <2>1 DEF Reading!KeptInv
  <2>3. Reading(s)!InForce("contractVersionsV2") = {Len(db["contractVersionsV2"])}
    BY <2>2 DEF Reading!IInv, Reading!InPlace
  <2> QED BY <2>3, FS_Singleton, ReadingCardinality
<1> QED BY <1>1, <1>2 DEF Reading!IInv, Reading!ContractKept

----------------------------------------------------------------------------
(* Engines 14 and 15.                                                      *)

LEMMA ExecutionCardinality ==
  ASSUME NEW s, NEW S PROVE Execution(s)!Cardinality(S) = Cardinality(S)
  BY DEF Execution!Cardinality, Cardinality

ExecutionTables ==
  {"approvalPolicies", "approvalRequests", "approvalDecisions", "signaturePackages",
   "signatureCallbacks", "agreementExecutionCertificates"}

LEMMA ExecutionTyped ==
  ASSUME NEW s \in ExecutionScenes, Execution(s)!TablesTyped(Execution(s)!RowType)
  PROVE  /\ Execution(s)!Collections = ExecutionTables /\ DOMAIN db = ExecutionTables
         /\ \A c \in ExecutionTables :
              /\ db[c] \in Seq(Execution(s)!RowType[c]) /\ DOMAIN db[c] = 1..Len(db[c]) /\ Len(db[c]) \in Nat
              /\ \A x \in DOMAIN db[c] : db[c][x] \in Execution(s)!RowType[c] /\ x \in Nat
<1>1. Execution(s)!Collections = ExecutionTables /\ DOMAIN db = ExecutionTables
  BY PlatformAssumption DEF Execution!ExecutionAssumption, Execution!TablesTyped, Execution!RowType, ExecutionTables
<1>2. \A c \in ExecutionTables : db[c] \in Seq(Execution(s)!RowType[c])
  BY <1>1 DEF Execution!TablesTyped
<1> QED BY <1>1, <1>2, LenProperties

(* A write, and the tables after it.                                       *)
LEMMA ExecutionLands ==
  ASSUME NEW s \in ExecutionScenes, Execution(s)!IInv, NEW h, Execution(s)!WriteSound(h), db' = Execution(s)!Written(h)
  PROVE  /\ Execution(s)!TablesTyped(Execution(s)!RowType)' /\ h.c \in ExecutionTables
         /\ h.op \in {"append", "replace"} /\ h.row \in Execution(s)!RowType[h.c]
         /\ h.op = "replace" => h.id \in DOMAIN db[h.c]
         /\ Lands(db, db', h) /\ Keeps(db, db', h) /\ Adds(db, db', h)
         /\ \A c \in ExecutionTables : DOMAIN db'[c] = 1..Len(db'[c]) /\ Len(db'[c]) \in Nat
<1> DEFINE T == Execution(s)!RowType
           C == Execution(s)!Collections
<1>1. Fitting(db, C, T, h) /\ db' = Holding(db, h) /\ C = ExecutionTables
  BY ExecutionTyped DEF Execution!IInv, Execution!TablesTyped, Execution!WriteSound, Execution!WriteTyped,
     Execution!Ids, Execution!Written, Tabled, Fitting, Holding
<1>2. Tabled(db', C, T) /\ Lands(db, db', h) /\ Keeps(db, db', h) /\ Adds(db, db', h)
  <2> HIDE DEF T, C
  <2> QED BY <1>1, Landing
<1>3. \A c \in ExecutionTables : DOMAIN db'[c] = 1..Len(db'[c]) /\ Len(db'[c]) \in Nat
  <2>1. \A c \in ExecutionTables : db'[c] \in Seq(T[c])
    BY <1>1, <1>2 DEF Tabled
  <2> HIDE DEF T
  <2> QED BY <2>1, LenProperties
<1> QED BY <1>1, <1>2, <1>3 DEF Tabled, Fitting, Execution!TablesTyped

(* A new row.                                                              *)
LEMMA ExecutionNew ==
  ASSUME NEW s \in ExecutionScenes, Execution(s)!IInv, NEW c \in ExecutionTables, NEW row \in Execution(s)!RowType[c]
  PROVE  LET h == Execution(s)!New(c, row)
         IN Execution(s)!WriteTyped(h, Execution(s)!RowType) /\ h.op = "append" /\ h.c = c /\ h.row = row
<1>1. Execution(s)!Collections = ExecutionTables
  BY ExecutionTyped DEF Execution!IInv
<1> QED BY <1>1 DEF Execution!New, Execution!WriteTyped

(* A row in place of the one read before.                                  *)
LEMMA ExecutionPut ==
  ASSUME NEW s \in ExecutionScenes, Execution(s)!IInv, NEW c \in ExecutionTables, NEW x \in DOMAIN db[c],
         NEW row \in Execution(s)!RowType[c]
  PROVE  LET h == Execution(s)!Put(c, x, row)
         IN /\ Execution(s)!WriteTyped(h, Execution(s)!RowType)
            /\ h.op = "replace" /\ h.c = c /\ h.id = x /\ h.row = row
<1>1. Execution(s)!Collections = ExecutionTables
  BY ExecutionTyped DEF Execution!IInv
<1> QED BY <1>1 DEF Execution!Put, Execution!WriteTyped, Execution!Ids

(* What no write changes: policies, decisions, complete packages, and what *)
(* a certificate is of.                                                    *)
ExecutionGrows(D, E) ==
  /\ \A c \in ExecutionTables : \A x \in DOMAIN D[c] : x \in DOMAIN E[c]
  /\ \A x \in DOMAIN D["approvalPolicies"] : E["approvalPolicies"][x] = D["approvalPolicies"][x]
  /\ \A x \in DOMAIN D["approvalDecisions"] : E["approvalDecisions"][x] = D["approvalDecisions"][x]
  /\ \A x \in DOMAIN D["agreementExecutionCertificates"] :
       E["agreementExecutionCertificates"][x].package = D["agreementExecutionCertificates"][x].package
  /\ \A x \in DOMAIN D["signaturePackages"] :
       D["signaturePackages"][x].status = "COMPLETED"
         => E["signaturePackages"][x] = D["signaturePackages"][x]

LEMMA ExecutionGrown ==
  ASSUME NEW s \in ExecutionScenes, Execution(s)!IInv, ExecutionGrows(db, db')
  PROVE  /\ \A x, r, n : Execution(s)!Earned(x, r, n) => Execution(s)!Earned(x, r, n)'
         /\ \A x : Execution(s)!Complete(x) =>
              Execution(s)!Complete(x)' /\ db'["signaturePackages"][x] = db["signaturePackages"][x]
         /\ \A h : Execution(s)!WriteSound(h) => Execution(s)!WriteSound(h)'
         /\ \A h, g : Execution(s)!Counts(h, g) => Execution(s)!Counts(h, g)'
<1>1. \A x, n, u : Execution(s)!Granted(x, n, u) => Execution(s)!Granted(x, n, u)'
  BY DEF ExecutionGrows, ExecutionTables, Execution!Granted, Execution!Ids
<1>2. ASSUME NEW x, NEW r, NEW n, Execution(s)!Earned(x, r, n) PROVE Execution(s)!Earned(x, r, n)'
  BY <1>1, <1>2 DEF ExecutionGrows, ExecutionTables, Execution!Earned, Execution!Ids
<1>3. ASSUME NEW x, Execution(s)!Complete(x)
      PROVE  Execution(s)!Complete(x)' /\ db'["signaturePackages"][x] = db["signaturePackages"][x]
  BY <1>3 DEF ExecutionGrows, ExecutionTables, Execution!Complete, Execution!Ids, Execution!InStatus
<1>4. ASSUME NEW h, Execution(s)!WriteTyped(h, Execution(s)!RowType)
      PROVE  Execution(s)!WriteTyped(h, Execution(s)!RowType)'
  <2>1. Execution(s)!Collections = ExecutionTables
    BY ExecutionTyped DEF Execution!IInv
  <2> QED BY <1>4, <2>1 DEF ExecutionGrows, Execution!WriteTyped, Execution!Ids
<1>5. ASSUME NEW h, Execution(s)!WriteSound(h) PROVE Execution(s)!WriteSound(h)'
  <2>1. Execution(s)!WriteTyped(h, Execution(s)!RowType)'
    BY <1>4, <1>5 DEF Execution!WriteSound
  <2>2. h.c = "approvalRequests" => (IF h.op = "append" THEN h.row.completed = 0 /\ Execution(s)!Earned(0, h.row, 0)
                                     ELSE Execution(s)!Earned(h.id, h.row, h.row.completed))'
    BY <1>2, <1>5 DEF Execution!WriteSound
  <2>3. h.c = "approvalDecisions" => h.row.request \in Execution(s)!Ids("approvalRequests")'
    BY <1>5 DEF ExecutionGrows, ExecutionTables, Execution!WriteSound, Execution!Ids
  <2>4. h.c = "agreementExecutionCertificates" =>
          /\ Execution(s)!Complete(h.row.package)'
          /\ h.op = "replace" => h.row.package = db'["agreementExecutionCertificates"][h.id].package
    BY <1>3, <1>5 DEF ExecutionGrows, Execution!WriteSound, Execution!WriteTyped, Execution!Ids
  <2> QED BY <1>5, <2>1, <2>2, <2>3, <2>4 DEF Execution!WriteSound
<1>6. ASSUME NEW h, NEW g, Execution(s)!Counts(h, g) PROVE Execution(s)!Counts(h, g)'
  BY <1>2, <1>4, <1>5, <1>6 DEF Execution!Counts
<1> QED BY <1>2, <1>3, <1>5, <1>6

(* A write that is admitted.                                               *)
LEMMA ExecutionWritten ==
  ASSUME NEW s \in ExecutionScenes, Execution(s)!IInv, NEW h, Execution(s)!WriteSound(h),
         Execution(s)!Admits(h), db' = Execution(s)!Written(h)
  PROVE  ExecutionGrows(db, db') /\ Execution(s)!RowsSound' /\ Execution(s)!OneCertificate'
<1> DEFINE r == "approvalRequests"
           d == "approvalDecisions"
           p == "signaturePackages"
           e == "agreementExecutionCertificates"
<1>1. /\ DOMAIN db = ExecutionTables
      /\ r \in DOMAIN db /\ d \in DOMAIN db /\ p \in DOMAIN db /\ e \in DOMAIN db /\ "approvalPolicies" \in DOMAIN db
      /\ \A c \in DOMAIN db : DOMAIN db[c] = 1..Len(db[c]) /\ Len(db[c]) \in Nat
      /\ h.op \in {"append", "replace"} /\ (h.op = "replace" => h.id \in DOMAIN db[h.c])
      /\ Keeps(db, db', h) /\ Adds(db, db', h)
  <2>1. {r, d, p, e, "approvalPolicies"} \subseteq ExecutionTables
    BY DEF ExecutionTables
  <2> QED BY <2>1, ExecutionTyped, ExecutionLands DEF Execution!IInv
<1>2. h.op = "replace" => h.c \in {r, p, e}
  BY DEF Execution!WriteSound
<1>3. h.op = "replace" /\ h.c = p => db[p][h.id].status # "COMPLETED"
  BY DEF Execution!Admits, Execution!Closed, Execution!InStatus
<1>4. h.op = "replace" /\ h.c = e => h.row.package = db[e][h.id].package
  BY DEF Execution!WriteSound
<1>5. ExecutionGrows(db, db')
  BY <1>1, <1>2, <1>3, <1>4 DEF ExecutionGrows, Keeps
<1>6. Execution(s)!RowsSound
  BY DEF Execution!IInv
<1>7. /\ h.c = r => h.row.completed = 0 \/ h.op = "replace"
      /\ h.c = r /\ h.op = "replace" => Execution(s)!Earned(h.id, h.row, h.row.completed)'
      /\ h.c = r /\ h.op = "append" => Execution(s)!Earned(0, h.row, 0)'
  BY <1>1, <1>5, ExecutionGrown DEF Execution!WriteSound
<1>8. ASSUME NEW x \in DOMAIN db'[r], NEW y, y = db'[r][x]
      PROVE  Execution(s)!Earned(x, y, y.completed)'
  <2>1. CASE x \in DOMAIN db[r] /\ db'[r][x] = db[r][x]
    BY <1>5, <1>6, <1>8, <2>1, ExecutionGrown DEF Execution!RowsSound, Execution!Ids
  <2>2. CASE h.op = "replace" /\ h.c = r /\ h.id = x /\ db'[r][x] = h.row
    BY <1>7, <1>8, <2>2
  <2>3. CASE h.op = "append" /\ h.c = r /\ db'[r][x] = h.row
    <3>1. h.row.completed = 0 /\ Execution(s)!Earned(0, h.row, 0)'
      BY <1>7, <2>3
    <3>2. \A n \in 0..(0 - 1) : FALSE
      OBVIOUS
    <3> QED BY <1>8, <2>3, <3>1, <3>2 DEF Execution!Earned
  <2> QED BY <1>1, <2>1, <2>2, <2>3 DEF Keeps, Adds
<1>9. ASSUME NEW x \in DOMAIN db'[d] PROVE db'[d][x].request \in DOMAIN db'[r]
  <2>1. h.c = d => h.row.request \in DOMAIN db[r]
    BY DEF Execution!WriteSound, Execution!Ids
  <2>2. \A y \in DOMAIN db[d] : db[d][y].request \in DOMAIN db[r]
    BY <1>6 DEF Execution!RowsSound, Execution!Ids
  <2> QED BY <1>1, <1>2, <2>1, <2>2 DEF Keeps, Adds
<1>10. ASSUME NEW x \in DOMAIN db'[p], db'[p][x].status = "COMPLETED"
       PROVE  Execution(s)!FullySigned(db'[p][x])
  <2>1. h.c = p => h.row.status # "COMPLETED"
    BY DEF Execution!WriteSound
  <2>2. x \in DOMAIN db[p] /\ db'[p][x] = db[p][x]
    BY <1>1, <1>10, <2>1 DEF Keeps, Adds
  <2> QED BY <1>6, <1>10, <2>2 DEF Execution!RowsSound, Execution!Complete, Execution!Ids, Execution!InStatus
<1>11. ASSUME NEW x \in DOMAIN db'[e], NEW y, y = db'[e][x].package PROVE Execution(s)!Complete(y)'
  <2>1. Execution(s)!Complete(y)
    <3>1. h.c = e => Execution(s)!Complete(h.row.package)
      BY DEF Execution!WriteSound
    <3>2. \A z \in DOMAIN db[e] : Execution(s)!Complete(db[e][z].package)
      BY <1>6 DEF Execution!RowsSound, Execution!Ids
    <3> QED BY <1>1, <1>11, <3>1, <3>2 DEF Keeps, Adds
  <2> QED BY <1>5, <2>1, ExecutionGrown
<1>14. ASSUME NEW k, k = "signatureCallbacks", NEW x \in DOMAIN db'[k] PROVE db'[k][x].package \in DOMAIN db'[p]
  <2>1. k \in DOMAIN db /\ h.c # k
    BY <1>1, <1>14 DEF Execution!WriteSound, ExecutionTables
  <2>2. x \in DOMAIN db[k] /\ db'[k][x] = db[k][x]
    BY <1>1, <1>14, <2>1 DEF Keeps, Adds
  <2>3. db[k][x].package \in DOMAIN db[p]
    BY <1>6, <1>14, <2>2 DEF Execution!RowsSound, Execution!Ids
  <2> QED BY <1>1, <2>2, <2>3 DEF Keeps
<1>12. Execution(s)!RowsSound'
  BY <1>8, <1>9, <1>10, <1>11, <1>14 DEF Execution!RowsSound, Execution!Ids, Execution!Complete, Execution!InStatus
<1>13. Execution(s)!OneCertificate'
  <2>1. \A x, y \in DOMAIN db[e] : db[e][x].package = db[e][y].package => x = y
    BY DEF Execution!IInv, Execution!OneCertificate, Execution!Ids
  <2>2. h.c = e /\ h.op = "append" => \A x \in DOMAIN db[e] : db[e][x].package # h.row.package
    BY DEF Execution!Admits, Execution!KeyFree, Execution!Ids
  <2>3. \A x \in DOMAIN db'[e] : \/ x \in DOMAIN db[e] /\ db'[e][x].package = db[e][x].package
                                 \/ h.c = e /\ h.op = "append" /\ x = Len(db[e]) + 1 /\ db'[e][x] = h.row
    BY <1>1, <1>4 DEF Keeps, Adds
  <2>4. \A x, y \in DOMAIN db'[e] : db'[e][x].package = db'[e][y].package => x = y
    <3> HIDE DEF e
    <3> QED BY <2>1, <2>2, <2>3
  <2> QED BY <2>4 DEF Execution!OneCertificate, Execution!Ids
<1> QED BY <1>5, <1>12, <1>13

(* A decision is written: it may be counted now.                           *)
LEMMA ExecutionCounted ==
  ASSUME NEW s \in ExecutionScenes, Execution(s)!IInv, NEW h, NEW g, Execution(s)!Counts(h, g),
         Execution(s)!Admits(h), db' = Execution(s)!Written(h)
  PROVE  Execution(s)!WriteSound(g)'
<1> DEFINE d == "approvalDecisions"
           n == h.row.step
<1>1. Execution(s)!WriteSound(h) /\ h.c = d /\ h.op = "append"
  BY DEF Execution!Counts, Execution!WriteSound, Execution!WriteTyped
<1>2. Execution(s)!Counts(h, g)'
  BY <1>1, ExecutionWritten, ExecutionGrown
<1>3. d \in DOMAIN db /\ Len(db[d]) + 1 \in DOMAIN db'[d] /\ db'[d][Len(db[d]) + 1] = h.row
  BY <1>1, ExecutionLands, ExecutionTyped DEF Execution!IInv, Lands, Place, ExecutionTables
<1>4. n \in Nat /\ g.row.completed = n + 1
  <2>1. h.row \in Execution(s)!RowType[d]
    BY <1>1, ExecutionLands
  <2>2. h.row \in Execution(s)!ApprovalDecision
    BY <2>1 DEF Execution!RowType
  <2> QED BY <2>2 DEF Execution!Counts, Execution!ApprovalDecision
<1>5. g.row.status \in {"PENDING", "APPROVED"} => Execution(s)!Granted(g.id, n, g.row.requester)'
  BY <1>3 DEF Execution!Counts, Execution!Granted, Execution!Ids
<1>6. Execution(s)!Earned(g.id, g.row, n)'
  BY <1>2 DEF Execution!Counts
<1>7. \A k \in 0..((n + 1) - 1) : k = n \/ k \in 0..(n - 1)
  <2> HIDE DEF n
  <2> QED BY <1>4
<1>8. Execution(s)!Earned(g.id, g.row, n + 1)'
  <2> HIDE DEF n
  <2> QED BY <1>5, <1>6, <1>7 DEF Execution!Earned
<1> QED BY <1>2, <1>4, <1>8 DEF Execution!Counts, Execution!WriteSound

(* A request moves to its next call, makes a write, or merges what was     *)
(* reported into the package it has locked.  A request that moves keeps    *)
(* what it is about to count, unless it dies.                              *)
ExecutionMoves(s, w) ==
  \E j : /\ job' = [job EXCEPT ![w] = j] /\ UNCHANGED db /\ Execution(s)!JobSound(j)
         /\ \/ j = job[w]
            \/ /\ j.at = "merge" => Execution(s)!Free(w)
               /\ Execution(s)!Current(j)
               /\ \A x : /\ Execution(s)!Deathless => ~Execution(s)!Counting(job[w], x)
                         /\ Execution(s)!Counting(j, x) =>
                              j.todo[1].row.completed = db["approvalRequests"][x].completed

ExecutionWrites(s, w) ==
  \E h, j : /\ Execution(s)!WriteSound(h) /\ Execution(s)!Admits(h) /\ db' = Execution(s)!Written(h)
            /\ job' = [job EXCEPT ![w] = j]
            /\ job[w].at = "write" /\ h = job[w].todo[1]
            /\ h.c = "signaturePackages" => Execution(s)!Free(w)
            /\ \/ j.at = "idle" /\ job[w].todo = <<h>> /\ h.c # "approvalDecisions"
               \/ \E g : Execution(s)!Counts(h, g) /\ j.at = "write" /\ j.todo = <<g>> /\ job[w].todo = <<h, g>>

ExecutionMerges(s, w) ==
  LET e == job[w].event
      x == job[w].package
      row == Execution(s)!Merged(job[w].row, e)
      p == "signaturePackages"
      k == "signatureCallbacks"
  IN /\ job[w].at = "merge" /\ db[p][x].status \notin {"COMPLETED", "DECLINED"}
     /\ db' = [db EXCEPT ![k] = Append(@, [event |-> e, package |-> x]), ![p][x] = row]
     /\ \E j : job' = [job EXCEPT ![w] = j] /\ j.at = "idle"

LEMMA ExecutionStarts ==
  ASSUME NEW s \in ExecutionScenes, NEW w, NEW j, Execution(s)!JobSound(j), j.at # "write",
         job' = [job EXCEPT ![w] = j], UNCHANGED db,
         ~Execution(s)!Deathless \/ \A x : ~Execution(s)!Counting(job[w], x),
         j.at = "merge" => Execution(s)!Free(w)
  PROVE  ExecutionMoves(s, w)
  BY DEF ExecutionMoves, Execution!Counting, Execution!Current

LEMMA ExecutionAsks ==
  ASSUME NEW s \in ExecutionScenes, NEW w, NEW h, Execution(s)!Ask(w, <<h>>) \/ Execution(s)!Decide(w, <<h>>),
         job[w].at # "write", Execution(s)!WriteSound(h), h.c # "approvalDecisions",
         h.c = "signaturePackages" =>
           IF h.op = "append"
           THEN h.row.request \in Execution(s)!Ids("approvalRequests") /\ Execution(s)!Approved(h.row.request)
           ELSE /\ h.row.signed = db["signaturePackages"][h.id].signed
                /\ h.row.witnessed = db["signaturePackages"][h.id].witnessed,
         h.c = "approvalRequests" /\ h.op = "replace" =>
           h.row.completed = db["approvalRequests"][h.id].completed
  PROVE  ExecutionMoves(s, w)
<1> DEFINE j == [at |-> "write", todo |-> <<h>>]
<1>1. j.at = "write" /\ j.todo = <<h>> /\ j.todo[1] = h
  OBVIOUS
<1>2. job' = [job EXCEPT ![w] = j] /\ UNCHANGED db
  BY DEF Execution!Ask, Execution!Receive, Execution!Carry, Execution!Decide, Execution!Then
<1> HIDE DEF j
<1>3. Execution(s)!JobSound(j)
  BY <1>1 DEF Execution!JobSound
<1>4. Execution(s)!Current(j)
  BY <1>1 DEF Execution!Current
<1>5. \A x : /\ ~Execution(s)!Counting(job[w], x)
             /\ Execution(s)!Counting(j, x) => j.todo[1].row.completed = db["approvalRequests"][x].completed
  BY <1>1 DEF Execution!Counting
<1> QED BY <1>1, <1>2, <1>3, <1>4, <1>5 DEF ExecutionMoves

LEMMA ExecutionHandles ==
  ASSUME NEW s \in ExecutionScenes, Execution(s)!IInv, NEW w \in Cast[s].workers,
         Execution(s)!Handle(w) \/ Execution(s)!LockPackages(w) \/ Execution(s)!ReadCertificates(w)
  PROVE  ExecutionMoves(s, w)
<1>1. /\ DOMAIN db = ExecutionTables
      /\ \A c \in ExecutionTables :
           \A x \in DOMAIN db[c] : db[c][x] \in Execution(s)!RowType[c] /\ x \in Nat
  BY ExecutionTyped DEF Execution!IInv
<1>2. \A t : Execution(s)!Ask(w, t) => job[w].at # "write"
  BY DEF Execution!Ask, Execution!Receive, Execution!At
<1>3. Execution(s)!RowsSound /\ Cast[s].steps \in Nat
  BY PlatformAssumption DEF Execution!IInv, Execution!ExecutionAssumption

<1>4. CASE Execution(s)!Policy(w)
  <2>1. PICK n \in 1..Cast[s].steps :
          /\ Execution(s)!Ask(w, <<Execution(s)!New("approvalPolicies", [steps |-> n])>>)
          /\ TRUE
    BY <1>4 DEF Execution!Policy, Execution!Ids, Execution!NewPolicy
  <2> DEFINE r == [steps |-> n]
             h == Execution(s)!New("approvalPolicies", r)
  <2>2. "approvalPolicies" \in ExecutionTables /\ r \in Execution(s)!RowType["approvalPolicies"]
    BY <1>1, <1>3 DEF Execution!RowType, Execution!ApprovalPolicy, ExecutionTables
  <2> HIDE DEF r
  <2>4. /\ Execution(s)!WriteTyped(h, Execution(s)!RowType)
        /\ h.op = "append" /\ h.c = "approvalPolicies" /\ h.row = r
    BY <2>2, ExecutionNew
  <2>5. Execution(s)!Ask(w, <<h>>)
    BY <2>1 DEF r
  <2> HIDE DEF h
  <2>6. Execution(s)!WriteSound(h)
    BY <2>4 DEF Execution!WriteSound
  <2> QED BY <1>2, <2>1, <2>4, <2>5, <2>6, ExecutionAsks DEF Execution!Ids
<1>5. CASE Execution(s)!Route(w)
  <2>1. PICK p \in DOMAIN db["approvalPolicies"], d \in Cast[s].documents, u \in Cast[s].users :
          /\ Execution(s)!Ask(w, <<Execution(s)!New("approvalRequests", [status |-> "PENDING", document |-> d, policy |-> p, requester |-> u, completed |-> 0])>>)
          /\ TRUE
    BY <1>5 DEF Execution!Route, Execution!Ids
  <2> DEFINE r == [status |-> "PENDING", document |-> d, policy |-> p, requester |-> u, completed |-> 0]
             h == Execution(s)!New("approvalRequests", r)
  <2>2. "approvalRequests" \in ExecutionTables /\ r \in Execution(s)!RowType["approvalRequests"]
    BY <1>1, <1>3 DEF Execution!RowType, Execution!ApprovalRequest, ExecutionTables
  <2>3. r.completed = 0 /\ Execution(s)!Earned(0, r, 0)
    <3>1. db["approvalPolicies"][p].steps \in 1..Cast[s].steps
      <4>1. "approvalPolicies" \in ExecutionTables
        BY DEF ExecutionTables
      <4>2. db["approvalPolicies"][p] \in Execution(s)!RowType["approvalPolicies"]
        BY <1>1, <4>1
      <4> QED BY <4>2 DEF Execution!RowType, Execution!ApprovalPolicy
    <3>2. 0 < db["approvalPolicies"][p].steps /\ \A k \in 0..(0 - 1) : FALSE
      BY <3>1
    <3> QED BY <3>2 DEF Execution!Earned, Execution!Ids
  <2> HIDE DEF r
  <2>4. /\ Execution(s)!WriteTyped(h, Execution(s)!RowType)
        /\ h.op = "append" /\ h.c = "approvalRequests" /\ h.row = r
    BY <2>2, ExecutionNew
  <2>5. Execution(s)!Ask(w, <<h>>)
    BY <2>1 DEF r
  <2> HIDE DEF h
  <2>6. Execution(s)!WriteSound(h)
    BY <2>4, <2>3 DEF Execution!WriteSound
  <2> QED BY <1>2, <2>1, <2>4, <2>5, <2>6, <2>3, ExecutionAsks DEF Execution!Ids
<1>6. CASE Execution(s)!CreatePackage(w)
  <2>1. PICK x \in DOMAIN db["approvalRequests"] :
          /\ Execution(s)!Ask(w, <<Execution(s)!New("signaturePackages", [status |-> "DRAFT", request |-> x, signed |-> {}, witnessed |-> {}])>>)
          /\ Execution(s)!Approved(x)
    BY <1>6 DEF Execution!CreatePackage, Execution!Ids
  <2> DEFINE r == [status |-> "DRAFT", request |-> x, signed |-> {}, witnessed |-> {}]
             h == Execution(s)!New("signaturePackages", r)
  <2>2. "signaturePackages" \in ExecutionTables /\ r \in Execution(s)!RowType["signaturePackages"]
    BY <1>1, <1>3 DEF Execution!RowType, Execution!SignaturePackage, ExecutionTables
  <2>3. r.status = "DRAFT" /\ r.request = x
    OBVIOUS
  <2> HIDE DEF r
  <2>4. /\ Execution(s)!WriteTyped(h, Execution(s)!RowType)
        /\ h.op = "append" /\ h.c = "signaturePackages" /\ h.row = r
    BY <2>2, ExecutionNew
  <2>5. Execution(s)!Ask(w, <<h>>)
    BY <2>1 DEF r
  <2> HIDE DEF h
  <2>6. Execution(s)!WriteSound(h)
    BY <2>4, <2>3 DEF Execution!WriteSound
  <2> QED BY <1>2, <2>1, <2>4, <2>5, <2>6, <2>3, ExecutionAsks DEF Execution!Ids
<1>7. CASE Execution(s)!InvalidateOnChange(w)
  <2>1. PICK x \in DOMAIN db["approvalRequests"] : Execution(s)!Ask(w, <<Execution(s)!Put("approvalRequests", x, [db["approvalRequests"][x] EXCEPT !.status = "INVALIDATED"])>>)
    BY <1>7 DEF Execution!InvalidateOnChange, Execution!Ids, Execution!Set, Execution!PutRequest, Execution!InStatus
  <2> DEFINE r == [db["approvalRequests"][x] EXCEPT !.status = "INVALIDATED"]
             h == Execution(s)!Put("approvalRequests", x, r)
  <2>2. "approvalRequests" \in ExecutionTables
    BY DEF ExecutionTables
  <2>3. db["approvalRequests"][x] \in Execution(s)!ApprovalRequest
    BY <1>1, <2>2 DEF Execution!RowType
  <2>4. /\ r \in Execution(s)!RowType["approvalRequests"]
        /\ r.completed = db["approvalRequests"][x].completed /\ r.status = "INVALIDATED" /\ r.policy = db["approvalRequests"][x].policy
    BY <2>3 DEF Execution!RowType, Execution!ApprovalRequest
  <2> HIDE DEF r
  <2>5. Execution(s)!Earned(x, r, r.completed)
    BY <1>3, <2>4 DEF Execution!Earned, Execution!RowsSound, Execution!Ids
  <2>6. /\ Execution(s)!WriteTyped(h, Execution(s)!RowType)
        /\ h.op = "replace" /\ h.c = "approvalRequests" /\ h.id = x /\ h.row = r
    BY <2>2, <2>4, ExecutionPut
  <2>7. Execution(s)!Ask(w, <<h>>)
    BY <2>1 DEF r
  <2> HIDE DEF h
  <2>8. Execution(s)!WriteSound(h)
    BY <2>4, <2>5, <2>6 DEF Execution!WriteSound
  <2> QED BY <1>2, <2>4, <2>6, <2>7, <2>8, ExecutionAsks
<1>8. CASE Execution(s)!Send(w)
  <2>1. PICK x \in DOMAIN db["signaturePackages"] : Execution(s)!Ask(w, <<Execution(s)!Put("signaturePackages", x, [db["signaturePackages"][x] EXCEPT !.status = "SENT"])>>)
    BY <1>8 DEF Execution!Send, Execution!Ids, Execution!Set, Execution!PutPackage, Execution!InStatus
  <2> DEFINE r == [db["signaturePackages"][x] EXCEPT !.status = "SENT"]
             h == Execution(s)!Put("signaturePackages", x, r)
  <2>2. "signaturePackages" \in ExecutionTables
    BY DEF ExecutionTables
  <2>3. db["signaturePackages"][x] \in Execution(s)!SignaturePackage
    BY <1>1, <2>2 DEF Execution!RowType
  <2>4. /\ r \in Execution(s)!RowType["signaturePackages"]
        /\ r.status = "SENT" /\ r.signed = db["signaturePackages"][x].signed /\ r.witnessed = db["signaturePackages"][x].witnessed
    BY <2>3 DEF Execution!RowType, Execution!SignaturePackage
  <2> HIDE DEF r
  <2>5. TRUE
    OBVIOUS
  <2>6. /\ Execution(s)!WriteTyped(h, Execution(s)!RowType)
        /\ h.op = "replace" /\ h.c = "signaturePackages" /\ h.id = x /\ h.row = r
    BY <2>2, <2>4, ExecutionPut
  <2>7. Execution(s)!Ask(w, <<h>>)
    BY <2>1 DEF r
  <2> HIDE DEF h
  <2>8. Execution(s)!WriteSound(h)
    BY <2>4, <2>5, <2>6 DEF Execution!WriteSound
  <2> QED BY <1>2, <2>4, <2>6, <2>7, <2>8, ExecutionAsks
<1>9. CASE Execution(s)!Revoke(w)
  <2>1. PICK x \in DOMAIN db["agreementExecutionCertificates"] : Execution(s)!Ask(w, <<Execution(s)!Put("agreementExecutionCertificates", x, [db["agreementExecutionCertificates"][x] EXCEPT !.status = "REVOKED"])>>)
    BY <1>9 DEF Execution!Revoke, Execution!Ids, Execution!Set, Execution!PutCertificate, Execution!InStatus
  <2> DEFINE r == [db["agreementExecutionCertificates"][x] EXCEPT !.status = "REVOKED"]
             h == Execution(s)!Put("agreementExecutionCertificates", x, r)
  <2>2. "agreementExecutionCertificates" \in ExecutionTables
    BY DEF ExecutionTables
  <2>3. db["agreementExecutionCertificates"][x] \in Execution(s)!ExecutionCertificate
    BY <1>1, <2>2 DEF Execution!RowType
  <2>4. /\ r \in Execution(s)!RowType["agreementExecutionCertificates"]
        /\ r.package = db["agreementExecutionCertificates"][x].package
    BY <2>3 DEF Execution!RowType, Execution!ExecutionCertificate
  <2> HIDE DEF r
  <2>5. Execution(s)!Complete(r.package)
    BY <1>3, <2>4 DEF Execution!RowsSound, Execution!Ids
  <2>6. /\ Execution(s)!WriteTyped(h, Execution(s)!RowType)
        /\ h.op = "replace" /\ h.c = "agreementExecutionCertificates" /\ h.id = x /\ h.row = r
    BY <2>2, <2>4, ExecutionPut
  <2>7. Execution(s)!Ask(w, <<h>>)
    BY <2>1 DEF r
  <2> HIDE DEF h
  <2>8. Execution(s)!WriteSound(h)
    BY <2>4, <2>5, <2>6 DEF Execution!WriteSound
  <2> QED BY <1>2, <2>4, <2>6, <2>7, <2>8, ExecutionAsks
<1>10. CASE Execution(s)!DecideRequest(w)
  <2> DEFINE q == "approvalRequests"
             a == "approvalDecisions"
  <2>1. PICK x \in DOMAIN db[q], u \in Cast[s].users, d \in {"APPROVE", "REJECT"} :
          /\ db[q][x].status = "PENDING" /\ u # db[q][x].requester
          /\ Execution(s)!Ask(w, <<Execution(s)!New(a, [request |-> x, step |-> db[q][x].completed, approver |-> u,
                                                       decision |-> d]),
                                   Execution(s)!Put(q, x, Execution(s)!Counted(db[q][x], d))>>)
    BY <1>10 DEF Execution!DecideRequest, Execution!Ids, Execution!NewDecision, Execution!PutRequest, Execution!Approver
  <2> DEFINE r == db[q][x]
             b == [request |-> x, step |-> r.completed, approver |-> u, decision |-> d]
             y == Execution(s)!Counted(r, d)
             h == Execution(s)!New(a, b)
             g == Execution(s)!Put(q, x, y)
             j == [at |-> "write", todo |-> <<h, g>>]
  <2>2. q \in ExecutionTables /\ a \in ExecutionTables /\ "approvalPolicies" \in ExecutionTables
    BY DEF ExecutionTables
  <2>3. r \in Execution(s)!ApprovalRequest /\ x \in Nat
    BY <1>1, <2>2 DEF Execution!RowType
  <2>4. Execution(s)!Earned(x, r, r.completed)
    BY <1>3 DEF Execution!RowsSound, Execution!Ids
  <2>5. /\ r.policy \in DOMAIN db["approvalPolicies"] /\ r.completed < db["approvalPolicies"][r.policy].steps
        /\ db["approvalPolicies"][r.policy].steps \in 1..Cast[s].steps /\ r.completed \in Nat
    <3>1. r.policy \in DOMAIN db["approvalPolicies"] /\ r.completed < db["approvalPolicies"][r.policy].steps
      BY <2>1, <2>4 DEF Execution!Earned, Execution!Ids
    <3>2. db["approvalPolicies"][r.policy] \in Execution(s)!RowType["approvalPolicies"]
      BY <1>1, <2>2, <3>1
    <3> QED BY <2>3, <3>1, <3>2 DEF Execution!RowType, Execution!ApprovalPolicy, Execution!ApprovalRequest
  <2>6. b \in Execution(s)!RowType[a]
    BY <2>3, <2>5 DEF Execution!RowType, Execution!ApprovalDecision
  <2>7. /\ y.completed = r.completed + 1 /\ y.requester = r.requester /\ y.policy = r.policy
        /\ y.status = Execution(s)!Decided(r, d) /\ y.document = r.document
        /\ y = [status |-> y.status, document |-> y.document, policy |-> y.policy, requester |-> y.requester,
                completed |-> y.completed]
    <3> DEFINE o == Execution(s)!Decided(r, d)
               k == r.completed + 1
    <3>1. y = [r EXCEPT !.completed = k, !.status = o]
      BY <2>3 DEF Execution!Counted, Execution!ApprovalRequest
    <3>2. r = [status |-> r.status, document |-> r.document, policy |-> r.policy, requester |-> r.requester,
               completed |-> r.completed]
      BY <2>3 DEF Execution!ApprovalRequest
    <3> HIDE DEF o, k, y, r
    <3>3. y = [status |-> o, document |-> r.document, policy |-> r.policy, requester |-> r.requester, completed |-> k]
      BY <3>1, <3>2
    <3> QED BY <3>3 DEF o, k
  <2>8. /\ y.status \in {"PENDING", "APPROVED", "REJECTED"}
        /\ y.status \in {"PENDING", "APPROVED"} => d = "APPROVE"
        /\ y.status = "APPROVED" => y.completed = db["approvalPolicies"][r.policy].steps
        /\ y.status = "PENDING" => y.completed # db["approvalPolicies"][r.policy].steps
    BY <2>1, <2>7 DEF Execution!Decided
  <2>9. /\ y.completed \in 0..Cast[s].steps
        /\ y.status = "PENDING" => y.completed < db["approvalPolicies"][r.policy].steps
    <3> DEFINE k == r.completed
               m == db["approvalPolicies"][r.policy].steps
               z == y.completed
               l == Cast[s].steps
    <3>1. k \in Nat /\ m \in 1..l /\ k < m /\ z = k + 1 /\ (y.status = "PENDING" => z # m) /\ l \in Nat
      BY <1>3, <2>5, <2>7, <2>8
    <3> HIDE DEF k, m, z, l
    <3>2. z \in 0..l /\ (y.status = "PENDING" => z < m)
      BY <3>1
    <3> QED BY <3>2 DEF z, l, m
  <2>10. y \in Execution(s)!RowType[q]
    <3> HIDE DEF y
    <3> QED BY <2>3, <2>7, <2>8, <2>9 DEF Execution!RowType, Execution!ApprovalRequest
  <2>11. Execution(s)!Earned(x, y, r.completed)
    <3> HIDE DEF y
    <3> QED BY <2>1, <2>4, <2>7, <2>8, <2>9 DEF Execution!Earned
  <2>12. b.request = x /\ b.step = r.completed /\ b.approver = u /\ b.decision = d
    OBVIOUS
  <2> HIDE DEF y, b
  <2>13. /\ Execution(s)!WriteTyped(h, Execution(s)!RowType) /\ h.op = "append" /\ h.c = a /\ h.row = b
         /\ Execution(s)!WriteTyped(g, Execution(s)!RowType)
         /\ g.op = "replace" /\ g.c = q /\ g.id = x /\ g.row = y
    BY <2>2, <2>6, <2>10, ExecutionNew, ExecutionPut
  <2>14. job' = [job EXCEPT ![w] = j] /\ UNCHANGED db /\ job[w].at = "idle"
    BY <2>1 DEF Execution!Ask, Execution!Receive, Execution!Carry, Execution!At, y, b
  <2>15. j.at = "write" /\ j.todo = <<h, g>> /\ j.todo[1] = h /\ j.todo[2] = g
    OBVIOUS
  <2> HIDE DEF h, g, j
  <2>16. Execution(s)!WriteSound(h)
    BY <2>12, <2>13 DEF Execution!WriteSound, Execution!Ids
  <2>17. Execution(s)!Counts(h, g)
    BY <2>1, <2>7, <2>8, <2>11, <2>12, <2>13, <2>16 DEF Execution!Counts
  <2>18. Execution(s)!JobSound(j)
    BY <2>15, <2>17 DEF Execution!JobSound
  <2>19. Execution(s)!Current(j)
    BY <2>12, <2>13, <2>15 DEF Execution!Current
  <2>20. \A z : ~Execution(s)!Counting(j, z) /\ ~Execution(s)!Counting(job[w], z)
    <3>1. Len(<<h, g>>) = 2 /\ Len(<<h>>) = 1
      BY TodoOfTwo, TodoOfOne
    <3> QED BY <2>14, <2>15, <3>1 DEF Execution!Counting
  <2> QED BY <2>14, <2>15, <2>18, <2>19, <2>20 DEF ExecutionMoves
<1>11. CASE Execution(s)!Callback(w)
  <2>1. PICK e \in Cast[s].events, x \in DOMAIN db["signaturePackages"] : Execution(s)!Look(w, [at |-> "lock", event |-> e, package |-> x])
    BY <1>11 DEF Execution!Callback, Execution!Ids, Execution!InStatus
  <2> DEFINE j == [at |-> "lock", event |-> e, package |-> x]
  <2>2. job' = [job EXCEPT ![w] = j] /\ UNCHANGED db /\ job[w].at = "idle"
    BY <2>1 DEF Execution!Look, Execution!Receive, Execution!Carry, Execution!At
  <2>3. j.at = "lock" /\ j.event = e /\ j.package = x
    OBVIOUS
  <2> HIDE DEF j
  <2>4. Execution(s)!JobSound(j)
    BY <2>1, <2>3 DEF Execution!JobSound, Execution!Ids
  <2> QED BY <2>2, <2>3, <2>4, ExecutionStarts DEF Execution!Counting
<1>12. CASE Execution(s)!Issue(w)
  <2>1. PICK x \in DOMAIN db["signaturePackages"] : db["signaturePackages"][x].status = "COMPLETED" /\ Execution(s)!Look(w, [at |-> "certificates", package |-> x])
    BY <1>12 DEF Execution!Issue, Execution!Ids, Execution!InStatus
  <2> DEFINE j == [at |-> "certificates", package |-> x]
  <2>2. job' = [job EXCEPT ![w] = j] /\ UNCHANGED db /\ job[w].at = "idle"
    BY <2>1 DEF Execution!Look, Execution!Receive, Execution!Carry, Execution!At
  <2>3. j.at = "certificates" /\ j.package = x
    OBVIOUS
  <2> HIDE DEF j
  <2>4. Execution(s)!JobSound(j)
    BY <2>1, <2>3 DEF Execution!JobSound, Execution!Ids, Execution!Complete, Execution!InStatus
  <2> QED BY <2>2, <2>3, <2>4, ExecutionStarts DEF Execution!Counting
<1>13. CASE Execution(s)!LockPackages(w)
  <2> DEFINE p == job[w].package
             i == Execution(s)!Idle
             j == [at |-> "merge", event |-> job[w].event, package |-> p, row |-> db["signaturePackages"][p]]
  <2>1. /\ job[w].at = "lock" /\ Execution(s)!Free(w) /\ UNCHANGED db
        /\ job' = [job EXCEPT ![w] = i] \/ job' = [job EXCEPT ![w] = j]
    BY <1>13 DEF Execution!LockPackages, Execution!At, Execution!GiveUp, Execution!Return, Execution!Carry, Execution!Then
  <2>2. Execution(s)!JobSound(job[w])
    BY DEF Execution!IInv
  <2>3. i.at = "idle" /\ j.at = "merge" /\ j.event = job[w].event /\ j.package = p /\ j.row = db["signaturePackages"][p]
    BY DEF Execution!Idle
  <2> HIDE DEF i, j
  <2>4. Execution(s)!JobSound(i) /\ Execution(s)!JobSound(j)
    BY <2>1, <2>2, <2>3 DEF Execution!JobSound
  <2> QED BY <2>1, <2>3, <2>4, ExecutionStarts DEF Execution!Counting
<1>14. CASE Execution(s)!ReadCertificates(w)
  <2> DEFINE c == "agreementExecutionCertificates"
             r == [status |-> "VALID", package |-> job[w].package]
             h == Execution(s)!New(c, r)
  <2>1. job[w].at = "certificates" /\ (Execution(s)!GiveUp(w) \/ Execution(s)!Decide(w, <<h>>))
    BY <1>14 DEF Execution!ReadCertificates, Execution!At
  <2>2. Execution(s)!Complete(job[w].package)
    BY <2>1 DEF Execution!IInv, Execution!JobSound
  <2>3. job[w].package \in Nat
    <3>1. "signaturePackages" \in ExecutionTables
      BY DEF ExecutionTables
    <3> QED BY <1>1, <2>2, <3>1 DEF Execution!Complete, Execution!Ids
  <2>4. c \in ExecutionTables /\ r \in Execution(s)!RowType[c] /\ r.package = job[w].package
    BY <2>3 DEF Execution!RowType, Execution!ExecutionCertificate, ExecutionTables
  <2> HIDE DEF r
  <2>5. Execution(s)!WriteTyped(h, Execution(s)!RowType) /\ h.op = "append" /\ h.c = c /\ h.row = r
    BY <2>4, ExecutionNew
  <2> HIDE DEF h
  <2>6. Execution(s)!WriteSound(h)
    BY <2>2, <2>4, <2>5 DEF Execution!WriteSound
  <2>7. CASE Execution(s)!Decide(w, <<h>>)
    BY <2>1, <2>5, <2>6, <2>7, ExecutionAsks
  <2>8. CASE Execution(s)!GiveUp(w)
    <3> DEFINE i == Execution(s)!Idle
    <3>1. i.at = "idle" /\ job' = [job EXCEPT ![w] = i] /\ UNCHANGED db
      BY <2>8 DEF Execution!GiveUp, Execution!Return, Execution!Carry, Execution!Idle
    <3> HIDE DEF i
    <3>2. Execution(s)!JobSound(i)
      BY <3>1 DEF Execution!JobSound
    <3> QED BY <2>1, <3>1, <3>2, ExecutionStarts DEF Execution!Counting
  <2> QED BY <2>1, <2>7, <2>8
<1> QED BY <1>4, <1>5, <1>6, <1>7, <1>8, <1>9, <1>10, <1>11, <1>12, <1>13, <1>14
        DEF Execution!Handle

(* A package after what was reported of it: nothing signed is lost.        *)
LEMMA ExecutionMergedRow ==
  ASSUME NEW s \in ExecutionScenes, NEW r \in Execution(s)!SignaturePackage, NEW e \in Cast[s].events
  PROVE  LET y == Execution(s)!Merged(r, e)
         IN /\ y \in Execution(s)!SignaturePackage
            /\ r.signed \subseteq y.signed /\ r.witnessed \subseteq y.witnessed
            /\ e.act = "SIGNED" => Execution(s)!Concerned(e) \subseteq y.signed
            /\ e.act = "WITNESSED" => Execution(s)!Concerned(e) \subseteq y.witnessed
            /\ e.act = "DECLINED" => y.status = "DECLINED"
            /\ y.status = "COMPLETED" => Execution(s)!FullySigned(y)
<1> DEFINE y == Execution(s)!Merged(r, e)
           signed == r.signed \cup (IF e.act = "SIGNED" THEN Execution(s)!Concerned(e) ELSE {})
           witnessed == r.witnessed \cup (IF e.act = "WITNESSED" THEN Execution(s)!Concerned(e) ELSE {})
           full == signed = Cast[s].signers /\ Cast[s].witnessed \subseteq witnessed
           st == IF full THEN "COMPLETED" ELSE "PARTIALLY_SIGNED"
<1>1. Execution(s)!Concerned(e) \subseteq Cast[s].signers
  BY DEF Execution!Concerned
<1>2. CASE e.act = "DECLINED"
  <2>1. y = [r EXCEPT !.status = "DECLINED"]
    BY <1>2 DEF Execution!Merged
  <2> QED BY <1>2, <2>1 DEF Execution!SignaturePackage
<1>3. CASE e.act # "DECLINED"
  <2>1. y = [r EXCEPT !.signed = signed, !.witnessed = witnessed, !.status = st]
    BY <1>3 DEF Execution!Merged
  <2>2. /\ signed \subseteq Cast[s].signers /\ witnessed \subseteq Cast[s].signers
        /\ r.signed \subseteq signed /\ r.witnessed \subseteq witnessed
        /\ e.act = "SIGNED" => Execution(s)!Concerned(e) \subseteq signed
        /\ e.act = "WITNESSED" => Execution(s)!Concerned(e) \subseteq witnessed
    BY <1>1, <1>3 DEF Execution!SignaturePackage
  <2>3. st \in {"COMPLETED", "PARTIALLY_SIGNED"} /\ (st = "COMPLETED" => full)
    OBVIOUS
  <2>4. full => signed = Cast[s].signers /\ Cast[s].witnessed \subseteq witnessed
    OBVIOUS
  <2> HIDE DEF signed, witnessed, st, full
  <2>5. /\ y.signed = signed /\ y.witnessed = witnessed /\ y.status = st
        /\ y \in Execution(s)!SignaturePackage
    <3> HIDE DEF y
    <3> QED BY <2>1, <2>2, <2>3 DEF Execution!SignaturePackage
  <2> HIDE DEF y
  <2> QED BY <1>3, <2>2, <2>3, <2>4, <2>5 DEF Execution!FullySigned, y
<1> QED BY <1>2, <1>3

(* The transaction of a callback, and the tables after it.                 *)
LEMMA ExecutionMerged ==
  ASSUME NEW s \in ExecutionScenes, Execution(s)!IInv, NEW w \in Cast[s].workers, ExecutionMerges(s, w)
  PROVE  LET e == job[w].event
             x == job[w].package
             p == "signaturePackages"
             k == "signatureCallbacks"
             row == db'[p][x]
         IN /\ ExecutionGrows(db, db') /\ Execution(s)!TablesTyped(Execution(s)!RowType)'
            /\ Execution(s)!RowsSound' /\ Execution(s)!OneCertificate'
            /\ \A c \in ExecutionTables \ {p, k} : db'[c] = db[c]
            /\ x \in DOMAIN db[p] /\ DOMAIN db'[p] = DOMAIN db[p] /\ Len(db'[p]) = Len(db[p])
            /\ \A y \in DOMAIN db[p] \ {x} : db'[p][y] = db[p][y]
            /\ db[p][x].status # "DECLINED"
            /\ db[p][x].signed \subseteq row.signed /\ db[p][x].witnessed \subseteq row.witnessed
            /\ e.act = "SIGNED" => Execution(s)!Concerned(e) \subseteq row.signed
            /\ e.act = "WITNESSED" => Execution(s)!Concerned(e) \subseteq row.witnessed
            /\ e.act = "DECLINED" => row.status = "DECLINED"
            /\ \A y \in DOMAIN db'[k] : \/ y \in DOMAIN db[k] /\ db'[k][y] = db[k][y]
                                        \/ db'[k][y] = [event |-> e, package |-> x]
<1> DEFINE e == job[w].event
           x == job[w].package
           p == "signaturePackages"
           k == "signatureCallbacks"
           row == Execution(s)!Merged(job[w].row, e)
           u == [event |-> e, package |-> x]
           T == Execution(s)!RowType
<1>1. /\ e \in Cast[s].events /\ x \in DOMAIN db[p] /\ job[w].row = db[p][x]
      /\ db[p][x].status \notin {"COMPLETED", "DECLINED"}
  BY DEF ExecutionMerges, Execution!IInv, Execution!JobSound, Execution!Ids
<1>2. /\ p \in ExecutionTables /\ k \in ExecutionTables /\ DOMAIN db = ExecutionTables
      /\ \A c \in ExecutionTables : /\ db[c] \in Seq(T[c]) /\ DOMAIN db[c] = 1..Len(db[c]) /\ Len(db[c]) \in Nat
                                    /\ \A y \in DOMAIN db[c] : db[c][y] \in T[c] /\ y \in Nat
  BY ExecutionTyped DEF Execution!IInv, ExecutionTables
<1>3. db[p][x] \in Execution(s)!SignaturePackage
  BY <1>1, <1>2 DEF Execution!RowType
<1>4. /\ row \in T[p]
      /\ db[p][x].signed \subseteq row.signed /\ db[p][x].witnessed \subseteq row.witnessed
      /\ e.act = "SIGNED" => Execution(s)!Concerned(e) \subseteq row.signed
      /\ e.act = "WITNESSED" => Execution(s)!Concerned(e) \subseteq row.witnessed
      /\ e.act = "DECLINED" => row.status = "DECLINED"
      /\ row.status = "COMPLETED" => Execution(s)!FullySigned(row)
  BY <1>1, <1>3, ExecutionMergedRow DEF Execution!RowType
<1>5. u \in T[k]
  BY <1>1, <1>2 DEF Execution!RowType, Execution!SignatureCallback
<1>6. db' = [db EXCEPT ![k] = Append(@, u), ![p][x] = row]
  BY DEF ExecutionMerges
<1> HIDE DEF row, u, T, e, x
<1>7. /\ DOMAIN db' = ExecutionTables /\ db'[k] = Append(db[k], u) /\ db'[p] = [db[p] EXCEPT ![x] = row]
      /\ \A c \in ExecutionTables \ {p, k} : db'[c] = db[c]
  BY <1>2, <1>6
<1>8. /\ db'[p] \in Seq(T[p]) /\ DOMAIN db'[p] = DOMAIN db[p] /\ Len(db'[p]) = Len(db[p])
      /\ db'[p][x] = row /\ \A y \in DOMAIN db[p] \ {x} : db'[p][y] = db[p][y]
  <2> DEFINE q == db[p]
             S == T[p]
             z == [q EXCEPT ![x] = row]
  <2>1. q \in Seq(S) /\ x \in DOMAIN q /\ row \in S /\ db'[p] = z
    BY <1>1, <1>2, <1>4, <1>7
  <2> HIDE DEF q, S
  <2>2. z \in Seq(S) /\ Len(z) = Len(q)
    BY <2>1
  <2>3. DOMAIN z = DOMAIN q /\ z[x] = row /\ \A y \in DOMAIN q \ {x} : z[y] = q[y]
    BY <2>1
  <2> QED BY <2>1, <2>2, <2>3 DEF q, S
<1>9. /\ db'[k] \in Seq(T[k]) /\ DOMAIN db'[k] = 1..(Len(db[k]) + 1)
      /\ db'[k][Len(db[k]) + 1] = u /\ \A y \in DOMAIN db[k] : db'[k][y] = db[k][y]
  <2> DEFINE q == db[k]
             S == T[k]
  <2>1. q \in Seq(S) /\ u \in S /\ db'[k] = Append(q, u) /\ Len(q) \in Nat /\ DOMAIN q = 1..Len(q)
    BY <1>2, <1>5, <1>7
  <2> HIDE DEF q, S
  <2>2. /\ Append(q, u) \in Seq(S) /\ Len(Append(q, u)) = Len(q) + 1
        /\ Append(q, u)[Len(q) + 1] = u /\ \A y \in 1..Len(q) : Append(q, u)[y] = q[y]
    BY <2>1, AppendProperties
  <2> QED BY <2>1, <2>2, LenProperties DEF q, S
<1>10. Execution(s)!TablesTyped(T)'
  <2>1. Execution(s)!Collections = ExecutionTables
    BY ExecutionTyped DEF Execution!IInv
  <2>2. \A c \in ExecutionTables : db'[c] \in Seq(T[c])
    BY <1>2, <1>7, <1>8, <1>9
  <2> QED BY <1>7, <2>1, <2>2 DEF Execution!TablesTyped, T
<1>11. ExecutionGrows(db, db')
  <2>1. DOMAIN db[k] \subseteq DOMAIN db'[k]
    <3> DEFINE n == Len(db[k])
    <3>1. n \in Nat /\ DOMAIN db[k] = 1..n /\ DOMAIN db'[k] = 1..(n + 1)
      BY <1>2, <1>9
    <3> HIDE DEF n
    <3> QED BY <3>1
  <2> QED BY <1>1, <1>7, <1>8, <2>1 DEF ExecutionGrows, ExecutionTables
<1>14. \A y \in DOMAIN db'[k] : (y \in DOMAIN db[k] /\ db'[k][y] = db[k][y]) \/ db'[k][y] = u
  <2> DEFINE n == Len(db[k])
  <2>1. n \in Nat /\ DOMAIN db[k] = 1..n /\ DOMAIN db'[k] = 1..(n + 1)
    BY <1>2, <1>9
  <2>2. \A y \in 1..(n + 1) : y \in 1..n \/ y = n + 1
    <3> HIDE DEF n
    <3> QED BY <2>1
  <2> QED BY <1>9, <2>1, <2>2
<1>12. Execution(s)!RowsSound'
  <2>1. Execution(s)!RowsSound
    BY DEF Execution!IInv
  <2>2. /\ db'["approvalRequests"] = db["approvalRequests"] /\ db'["approvalDecisions"] = db["approvalDecisions"]
        /\ db'["agreementExecutionCertificates"] = db["agreementExecutionCertificates"]
    BY <1>7 DEF ExecutionTables
  <2>3. ASSUME NEW y \in DOMAIN db'[p], db'[p][y].status = "COMPLETED"
        PROVE  Execution(s)!FullySigned(db'[p][y])
    BY <1>4, <1>8, <2>1, <2>3 DEF Execution!RowsSound, Execution!Complete, Execution!Ids, Execution!InStatus
  <2>4. ASSUME NEW y \in DOMAIN db["approvalRequests"], NEW z, z = db["approvalRequests"][y]
        PROVE  Execution(s)!Earned(y, z, z.completed)'
    BY <1>11, <2>1, <2>4, ExecutionGrown DEF Execution!RowsSound, Execution!Ids
  <2>5. ASSUME NEW y \in DOMAIN db["agreementExecutionCertificates"], NEW z,
               z = db["agreementExecutionCertificates"][y].package
        PROVE  Execution(s)!Complete(z)'
    BY <1>11, <2>1, <2>5, ExecutionGrown DEF Execution!RowsSound, Execution!Ids
  <2>6. \A y \in DOMAIN db'[k] : db'[k][y].package \in DOMAIN db'[p]
    <3>1. \A y \in DOMAIN db[k] : db[k][y].package \in DOMAIN db[p]
      BY <2>1 DEF Execution!RowsSound, Execution!Ids
    <3>2. u.package \in DOMAIN db[p]
      BY <1>1 DEF u
    <3> QED BY <1>8, <1>14, <3>1, <3>2
  <2> QED BY <2>1, <2>2, <2>3, <2>4, <2>5, <2>6 DEF Execution!RowsSound, Execution!Ids, Execution!Complete,
        Execution!InStatus
<1>13. Execution(s)!OneCertificate'
  <2>1. db'["agreementExecutionCertificates"] = db["agreementExecutionCertificates"]
    BY <1>7 DEF ExecutionTables
  <2> QED BY <2>1 DEF Execution!IInv, Execution!OneCertificate, Execution!Ids
<1> QED BY <1>1, <1>4, <1>7, <1>8, <1>10, <1>11, <1>12, <1>13, <1>14 DEF T, x, e, u

LEMMA ExecutionGivesUp ==
  ASSUME NEW s \in ExecutionScenes, NEW w, Execution(s)!GiveUp(w),
         ~Execution(s)!Deathless \/ \A x : ~Execution(s)!Counting(job[w], x)
  PROVE  ExecutionMoves(s, w)
<1> DEFINE j == Execution(s)!Idle
<1>1. j.at = "idle" /\ job' = [job EXCEPT ![w] = j] /\ UNCHANGED db
  BY DEF Execution!GiveUp, Execution!Return, Execution!Carry, Execution!Idle
<1> HIDE DEF j
<1>2. Execution(s)!JobSound(j)
  BY <1>1 DEF Execution!JobSound
<1> QED BY <1>1, <1>2, ExecutionStarts

LEMMA ExecutionCommits ==
  ASSUME NEW s \in ExecutionScenes, Execution(s)!IInv, NEW w \in Cast[s].workers, Execution(s)!Write(w)
  PROVE  ExecutionMoves(s, w) \/ ExecutionWrites(s, w)
<1> DEFINE t == job[w].todo
<1>1. /\ Execution(s)!JobSound(job[w]) /\ job[w].at = "write"
      /\ t[1].c = "signaturePackages" => Execution(s)!Free(w)
      /\ Execution(s)!Commit(w, Execution(s)!Admits(Execution(s)!Due(w)))
  BY DEF Execution!Write, Execution!At, Execution!IInv
<1>2. ASSUME NEW h, t = <<h>>, Execution(s)!WriteSound(h), h.c # "approvalDecisions"
      PROVE  ExecutionMoves(s, w) \/ ExecutionWrites(s, w)
  <2>1. Execution(s)!Due(w) = h /\ Tail(t) = <<>> /\ t[1] = h
    BY <1>2, TodoOfOne DEF Execution!Due
  <2>2. \/ /\ Execution(s)!Admits(h) /\ db' = Execution(s)!Written(h) /\ Execution(s)!Return(w)
        \/ /\ ~Execution(s)!Admits(h) \/ h.op = "append"
           /\ Execution(s)!GiveUp(w)
    BY <1>1, <2>1 DEF Execution!Commit
  <2>3. CASE Execution(s)!Admits(h) /\ db' = Execution(s)!Written(h) /\ Execution(s)!Return(w)
    <3> DEFINE j == Execution(s)!Idle
    <3>1. j.at = "idle" /\ job' = [job EXCEPT ![w] = j]
      BY <2>3 DEF Execution!Return, Execution!Carry, Execution!Idle
    <3> HIDE DEF j
    <3> QED BY <1>1, <1>2, <2>1, <2>3, <3>1 DEF ExecutionWrites
  <2>4. CASE (~Execution(s)!Admits(h) \/ h.op = "append") /\ Execution(s)!GiveUp(w)
    <3>1. \A x : ~Execution(s)!Counting(job[w], x)
      BY <2>1, <2>4 DEF Execution!Counting, Execution!Admits, Execution!Closed
    <3> QED BY <2>4, <3>1, ExecutionGivesUp
  <2> QED BY <2>2, <2>3, <2>4
<1>3. ASSUME NEW h, NEW g, t = <<h, g>>, Execution(s)!Counts(h, g)
      PROVE  ExecutionMoves(s, w) \/ ExecutionWrites(s, w)
  <2>1. Execution(s)!Due(w) = h /\ Tail(t) = <<g>> /\ <<g>> # <<>> /\ Len(t) = 2 /\ t[1] = h
    BY <1>3, TodoOfTwo DEF Execution!Due
  <2>2. \A x : ~Execution(s)!Counting(job[w], x)
    <3> SUFFICES ASSUME NEW x, Execution(s)!Counting(job[w], x) PROVE FALSE
      OBVIOUS
    <3>1. Len(<<t[1]>>) = 1 /\ t = <<t[1]>>
      BY TodoOfOne DEF Execution!Counting
    <3>2. Len(t) = 2
      BY <2>1
    <3> HIDE DEF t
    <3> QED BY <3>1, <3>2
  <2>3. \/ /\ Execution(s)!Admits(h) /\ db' = Execution(s)!Written(h)
           /\ Execution(s)!Carry(w, [at |-> "write", todo |-> <<g>>])
        \/ Execution(s)!GiveUp(w)
    BY <1>1, <2>1 DEF Execution!Commit
  <2>4. CASE /\ Execution(s)!Admits(h) /\ db' = Execution(s)!Written(h)
             /\ Execution(s)!Carry(w, [at |-> "write", todo |-> <<g>>])
    <3> DEFINE j == [at |-> "write", todo |-> <<g>>]
    <3>1. j.at = "write" /\ j.todo = <<g>> /\ job' = [job EXCEPT ![w] = j]
      BY <2>4 DEF Execution!Carry
    <3> HIDE DEF j
    <3> QED BY <1>1, <1>3, <2>1, <2>4, <3>1 DEF ExecutionWrites, Execution!Counts
  <2> QED BY <2>2, <2>3, <2>4, ExecutionGivesUp
<1> QED BY <1>1, <1>2, <1>3 DEF Execution!JobSound

LEMMA ExecutionMergesOrNot ==
  ASSUME NEW s \in ExecutionScenes, NEW w \in Cast[s].workers, Execution(s)!Merge(w)
  PROVE  ExecutionMoves(s, w) \/ ExecutionMerges(s, w)
<1> DEFINE used == Execution(s)!NewCallback([event |-> job[w].event, package |-> job[w].package])
           put == Execution(s)!PutPackage(job[w].package, Execution(s)!Merged(job[w].row, job[w].event))
           row == [event |-> job[w].event, package |-> job[w].package]
           new == Execution(s)!Merged(job[w].row, job[w].event)
<1>1. /\ used.c = "signatureCallbacks" /\ used.row = row
      /\ put.c = "signaturePackages" /\ put.id = job[w].package /\ put.row = new
  BY DEF Execution!NewCallback, Execution!New, Execution!PutPackage, Execution!Put
<1>2. /\ job[w].at = "merge" /\ Execution(s)!Return(w)
      /\ \/ /\ ~Execution(s)!Closed(put)
            /\ db' = [db EXCEPT ![used.c] = Append(@, used.row), ![put.c][put.id] = put.row]
         \/ UNCHANGED db
  BY DEF Execution!Merge, Execution!At
<1> HIDE DEF used, put
<1>3. CASE UNCHANGED db
  <2>1. Execution(s)!GiveUp(w) /\ \A x : ~Execution(s)!Counting(job[w], x)
    BY <1>2, <1>3 DEF Execution!GiveUp, Execution!Counting
  <2> QED BY <2>1, ExecutionGivesUp
<1>4. CASE /\ ~Execution(s)!Closed(put)
           /\ db' = [db EXCEPT ![used.c] = Append(@, used.row), ![put.c][put.id] = put.row]
  <2>1. db' = [db EXCEPT !["signatureCallbacks"] = Append(@, row), !["signaturePackages"][job[w].package] = new]
    BY <1>1, <1>4
  <2>2. db["signaturePackages"][job[w].package].status \notin {"COMPLETED", "DECLINED"}
    BY <1>1, <1>4 DEF Execution!Closed, Execution!InStatus
  <2> DEFINE j == Execution(s)!Idle
  <2>3. job' = [job EXCEPT ![w] = j] /\ j.at = "idle"
    BY <1>2 DEF Execution!Return, Execution!Carry, Execution!Idle
  <2> HIDE DEF j
  <2> QED BY <1>2, <2>1, <2>2, <2>3 DEF ExecutionMerges
<1> QED BY <1>2, <1>3, <1>4

LEMMA ExecutionTakes ==
  ASSUME NEW s \in ExecutionScenes, Execution(s)!IInv, [Execution(s)!Next]_<<db, job>>
  PROVE  \E w \in Cast[s].workers : ExecutionMoves(s, w) \/ ExecutionWrites(s, w) \/ ExecutionMerges(s, w)
<1>1. CASE Execution(s)!Proceed
  BY <1>1, ExecutionHandles, ExecutionCommits, ExecutionMergesOrNot DEF Execution!Proceed, Execution!Continue
<1>2. ASSUME NEW w \in Cast[s].mortals, Execution(s)!Die(w) PROVE w \in Cast[s].workers /\ ExecutionMoves(s, w)
  <2>1. w \in Cast[s].workers /\ Execution(s)!GiveUp(w) /\ ~Execution(s)!Deathless
    BY <1>2, PlatformAssumption DEF Execution!ExecutionAssumption, Execution!Die, Execution!Crash, Execution!GiveUp,
       Execution!Deathless
  <2> QED BY <2>1, ExecutionGivesUp
<1>3. CASE UNCHANGED <<db, job>>
  <2>1. PICK w \in Cast[s].workers : TRUE
    BY PlatformAssumption DEF Execution!ExecutionAssumption
  <2>2. job' = [job EXCEPT ![w] = job[w]] /\ Execution(s)!JobSound(job[w])
    BY <1>3, CarryStays DEF Execution!IInv
  <2>3. ExecutionMoves(s, w)
    BY <1>3, <2>2 DEF ExecutionMoves
  <2> QED BY <2>3
<1> QED BY <1>1, <1>2, <1>3 DEF Execution!Next

LEMMA ExecutionInit ==
  ASSUME NEW s \in ExecutionScenes, Execution(s)!Empty PROVE Execution(s)!IInv /\ Execution(s)!SerialInv
<1>1. /\ db = [c \in Execution(s)!Collections |-> <<>>]
      /\ job = [w \in Cast[s].workers |-> Execution(s)!Idle]
      /\ Execution(s)!Collections = ExecutionTables
  BY PlatformAssumption DEF Execution!Empty, Execution!ExecutionAssumption, Execution!RowType, ExecutionTables
<1>2. \A c \in ExecutionTables : db[c] = <<>> /\ DOMAIN db[c] = {}
  BY <1>1
<1>3. Execution(s)!TablesTyped(Execution(s)!RowType)
  <2>1. \A T : <<>> \in Seq(T)
    OBVIOUS
  <2> QED BY <1>1, <1>2, <2>1 DEF Execution!TablesTyped
<1>4. \A c \in {"approvalRequests", "approvalDecisions", "signaturePackages", "signatureCallbacks",
                "agreementExecutionCertificates"} : DOMAIN db[c] = {}
  BY <1>2 DEF ExecutionTables
<1>5. Execution(s)!RowsSound /\ Execution(s)!OneCertificate /\ Execution(s)!UsedIsKept
  BY <1>4 DEF Execution!RowsSound, Execution!OneCertificate, Execution!UsedIsKept, Execution!Ids
<1>6. job = [w \in Cast[s].workers |-> job[w]]
  BY <1>1
<1>7. \A w \in Cast[s].workers : Execution(s)!JobSound(job[w]) /\ Execution(s)!Current(job[w]) /\ ~Execution(s)!Locking(w)
  BY <1>1 DEF Execution!JobSound, Execution!Current, Execution!Idle, Execution!Locking, Execution!At
<1> QED BY <1>3, <1>4, <1>5, <1>6, <1>7 DEF Execution!IInv, Execution!SerialInv, Execution!Ids

LEMMA ExecutionPreserves ==
  ASSUME NEW s \in ExecutionScenes, Execution(s)!IInv, [Execution(s)!Next]_<<db, job>>
  PROVE  Execution(s)!IInv'
<1> DEFINE p == "signaturePackages"
<1>1. PICK w \in Cast[s].workers : ExecutionMoves(s, w) \/ ExecutionWrites(s, w) \/ ExecutionMerges(s, w)
  BY ExecutionTakes
<1>2. /\ job = [v \in Cast[s].workers |-> job[v]] /\ \A v \in Cast[s].workers : Execution(s)!JobSound(job[v])
      /\ \A u, v \in Cast[s].workers : job[u].at = "merge" /\ job[v].at = "merge" => u = v
  BY DEF Execution!IInv, Execution!Locking, Execution!At
<1>3. CASE ExecutionMoves(s, w)
  <2>1. PICK j : /\ job' = [job EXCEPT ![w] = j] /\ UNCHANGED db /\ Execution(s)!JobSound(j)
                 /\ j.at = "merge" => j = job[w] \/ \A v \in Cast[s].workers \ {w} : job[v].at # "merge"
    BY <1>3 DEF ExecutionMoves, Execution!Free, Execution!Locking, Execution!At
  <2>2. /\ job' = [v \in Cast[s].workers |-> job'[v]] /\ \A v \in Cast[s].workers : Execution(s)!JobSound(job'[v])
        /\ job'[w] = j /\ \A v \in Cast[s].workers \ {w} : job'[v] = job[v]
    BY <1>2, <2>1, CarryMoves
  <2>3. \A u, v \in Cast[s].workers : job'[u].at = "merge" /\ job'[v].at = "merge" => u = v
    BY <1>2, <2>1, <2>2
  <2>4. ExecutionGrows(db, db')
    BY <2>1 DEF ExecutionGrows
  <2>5. ASSUME NEW i, Execution(s)!JobSound(i) PROVE Execution(s)!JobSound(i)'
    BY <2>1, <2>4, <2>5, ExecutionGrown DEF Execution!JobSound, Execution!Ids
  <2>6. Execution(s)!RowsSound'
    <3>1. Execution(s)!RowsSound
      BY DEF Execution!IInv
    <3> QED BY <2>1, <3>1 DEF Execution!RowsSound, Execution!Earned, Execution!Granted, Execution!Complete,
          Execution!FullySigned, Execution!Ids, Execution!InStatus
  <2> QED BY <2>1, <2>2, <2>3, <2>5, <2>6 DEF Execution!IInv, Execution!TablesTyped,
        Execution!OneCertificate, Execution!Ids, Execution!Locking, Execution!At
<1>4. CASE ExecutionWrites(s, w)
  <2>1. PICK h, j : /\ Execution(s)!WriteSound(h) /\ Execution(s)!Admits(h) /\ db' = Execution(s)!Written(h)
                    /\ job' = [job EXCEPT ![w] = j]
                    /\ job[w].at = "write" /\ h = job[w].todo[1]
                    /\ h.c = p => Execution(s)!Free(w)
                    /\ \/ j.at = "idle" /\ job[w].todo = <<h>> /\ h.c # "approvalDecisions"
                       \/ \E g : Execution(s)!Counts(h, g) /\ j.at = "write" /\ j.todo = <<g>> /\ job[w].todo = <<h, g>>
    BY <1>4 DEF ExecutionWrites
  <2>2. ExecutionGrows(db, db') /\ Execution(s)!RowsSound' /\ Execution(s)!OneCertificate'
    BY <2>1, ExecutionWritten
  <2>3. Execution(s)!TablesTyped(Execution(s)!RowType)' /\ Lands(db, db', h)
    BY <2>1, ExecutionLands
  <2>4. Execution(s)!JobSound(j)'
    <3>1. CASE j.at = "idle"
      BY <3>1 DEF Execution!JobSound
    <3>2. ASSUME NEW g, Execution(s)!Counts(h, g), j.at = "write", j.todo = <<g>>
          PROVE  Execution(s)!JobSound(j)'
      <4>1. Execution(s)!WriteSound(g)'
        BY <2>1, <3>2, ExecutionCounted
      <4>2. j.todo[1] = g /\ g.c = "approvalRequests"
        BY <3>2 DEF Execution!Counts
      <4> QED BY <3>2, <4>1, <4>2 DEF Execution!JobSound
    <3> QED BY <2>1, <3>1, <3>2
  <2>5. ASSUME NEW v \in Cast[s].workers \ {w}, NEW i, i = job[v] PROVE Execution(s)!JobSound(i)'
    <3>1. Execution(s)!JobSound(i)
      BY <1>2, <2>5
    <3>2. i.at = "merge" => db'[p] = db[p]
      <4>1. p \in DOMAIN db
        BY ExecutionTyped DEF Execution!IInv, ExecutionTables
      <4>2. i.at = "merge" => h.c # p
        BY <2>1, <2>5 DEF Execution!Free, Execution!Locking, Execution!At
      <4> QED BY <2>3, <4>1, <4>2 DEF Lands
    <3>3. \A x \in DOMAIN db[p] : x \in DOMAIN db'[p]
      BY <2>2 DEF ExecutionGrows, ExecutionTables
    <3> QED BY <2>2, <3>1, <3>2, <3>3, ExecutionGrown DEF Execution!JobSound, Execution!Ids
  <2>6. /\ job' = [v \in Cast[s].workers |-> job'[v]]
        /\ job'[w] = j /\ \A v \in Cast[s].workers \ {w} : job'[v] = job[v]
    BY <1>2, <2>1, CarryMoves
  <2>7. \A v \in Cast[s].workers : Execution(s)!JobSound(job[v])'
    BY <2>4, <2>5, <2>6
  <2>8. \A u, v \in Cast[s].workers : job'[u].at = "merge" /\ job'[v].at = "merge" => u = v
    BY <1>2, <2>1, <2>6
  <2> QED BY <2>2, <2>3, <2>6, <2>7, <2>8 DEF Execution!IInv, Execution!Locking, Execution!At
<1>5. CASE ExecutionMerges(s, w)
  <2>1. PICK j : job' = [job EXCEPT ![w] = j] /\ j.at = "idle"
    BY <1>5 DEF ExecutionMerges
  <2>2. /\ ExecutionGrows(db, db') /\ Execution(s)!TablesTyped(Execution(s)!RowType)'
        /\ Execution(s)!RowsSound' /\ Execution(s)!OneCertificate'
    BY <1>5, ExecutionMerged
  <2>3. Execution(s)!JobSound(j)'
    BY <2>1 DEF Execution!JobSound
  <2>4. job[w].at = "merge"
    BY <1>5 DEF ExecutionMerges
  <2>5. ASSUME NEW v \in Cast[s].workers \ {w}, NEW i, i = job[v] PROVE Execution(s)!JobSound(i)'
    <3>1. Execution(s)!JobSound(i) /\ i.at # "merge"
      BY <1>2, <2>4, <2>5
    <3>2. \A x \in DOMAIN db[p] : x \in DOMAIN db'[p]
      BY <2>2 DEF ExecutionGrows, ExecutionTables
    <3> QED BY <2>2, <3>1, <3>2, ExecutionGrown DEF Execution!JobSound, Execution!Ids
  <2>6. /\ job' = [v \in Cast[s].workers |-> job'[v]]
        /\ job'[w] = j /\ \A v \in Cast[s].workers \ {w} : job'[v] = job[v]
    BY <1>2, <2>1, CarryMoves
  <2>7. \A v \in Cast[s].workers : Execution(s)!JobSound(job[v])'
    BY <2>3, <2>5, <2>6
  <2>8. \A u, v \in Cast[s].workers : job'[u].at = "merge" /\ job'[v].at = "merge" => u = v
    BY <1>2, <2>1, <2>6
  <2> QED BY <2>2, <2>6, <2>7, <2>8 DEF Execution!IInv, Execution!Locking, Execution!At
<1> QED BY <1>1, <1>3, <1>4, <1>5


(* Requests come in turn.  What a callback reported stays in its package,  *)
(* what a request has read is so until it writes, and if none dies, what   *)
(* was decided is counted next.                                            *)
ExecutionCount(s, D, j, x) ==
  Cardinality({d \in DOMAIN D["approvalDecisions"] : D["approvalDecisions"][d].request = x}) =
    IF Execution(s)!Counting(j, x) THEN j.todo[1].row.completed ELSE D["approvalRequests"][x].completed

LEMMA ExecutionSerialOne ==
  ASSUME NEW s \in ExecutionScenes, Execution(s)!InTurn, NEW w \in Cast[s].workers
  PROVE  /\ Execution(s)!SerialInv <=>
              /\ Execution(s)!UsedIsKept /\ Execution(s)!Current(job[w])
              /\ Execution(s)!Deathless =>
                   \A x \in DOMAIN db["approvalRequests"] : ExecutionCount(s, db, job[w], x)
         /\ Execution(s)!SerialInv' <=>
              /\ Execution(s)!UsedIsKept' /\ Execution(s)!Current(job[w])'
              /\ Execution(s)!Deathless =>
                   \A x \in DOMAIN db'["approvalRequests"] : ExecutionCount(s, db', job'[w], x)
<1>1. \A v \in Cast[s].workers : v = w
  BY DEF Execution!InTurn
<1> QED BY <1>1, ExecutionCardinality
        DEF Execution!SerialInv, Execution!InTurn, Execution!Deathless, Execution!DecisionsOn,
            Execution!Counting, Execution!Ids, ExecutionCount

LEMMA ExecutionUsedKept ==
  ASSUME NEW s \in ExecutionScenes, Execution(s)!IInv, Execution(s)!UsedIsKept,
         NEW h, Execution(s)!WriteSound(h), Execution(s)!Admits(h), db' = Execution(s)!Written(h),
         h.c = "signaturePackages" /\ h.op = "replace" =>
           /\ h.row.signed = db["signaturePackages"][h.id].signed
           /\ h.row.witnessed = db["signaturePackages"][h.id].witnessed
  PROVE  Execution(s)!UsedIsKept'
<1> DEFINE k == "signatureCallbacks"
           p == "signaturePackages"
<1>1. k \in DOMAIN db /\ p \in DOMAIN db /\ Keeps(db, db', h) /\ Adds(db, db', h) /\ h.c # k
  BY ExecutionLands, ExecutionTyped DEF Execution!IInv, Execution!WriteSound, ExecutionTables
<1>2. ASSUME NEW x \in DOMAIN db'[k], NEW e, e = db'[k][x].event, NEW q, q = db'[k][x].package
      PROVE  /\ e.act = "SIGNED" => Execution(s)!Concerned(e) \subseteq db'[p][q].signed
             /\ e.act = "WITNESSED" => Execution(s)!Concerned(e) \subseteq db'[p][q].witnessed
             /\ e.act = "DECLINED" => db'[p][q].status = "DECLINED"
  <2>1. x \in DOMAIN db[k] /\ db'[k][x] = db[k][x]
    BY <1>1, <1>2 DEF Keeps, Adds
  <2>2. q \in DOMAIN db[p]
    BY <1>2, <2>1 DEF Execution!IInv, Execution!RowsSound, Execution!Ids
  <2>3. /\ e.act = "SIGNED" => Execution(s)!Concerned(e) \subseteq db[p][q].signed
        /\ e.act = "WITNESSED" => Execution(s)!Concerned(e) \subseteq db[p][q].witnessed
        /\ e.act = "DECLINED" => db[p][q].status = "DECLINED"
    BY <1>2, <2>1 DEF Execution!UsedIsKept, Execution!Ids
  <2>4. CASE db'[p][q] = db[p][q]
    BY <2>3, <2>4
  <2>5. CASE h.op = "replace" /\ h.c = p /\ h.id = q /\ db'[p][q] = h.row
    <3>1. db[p][q].status # "DECLINED"
      BY <2>5 DEF Execution!Admits, Execution!Closed, Execution!InStatus
    <3> QED BY <2>3, <2>5, <3>1
  <2> QED BY <1>1, <2>2, <2>4, <2>5 DEF Keeps
<1> QED BY <1>2 DEF Execution!UsedIsKept, Execution!Ids

LEMMA ExecutionMergeKept ==
  ASSUME NEW s \in ExecutionScenes, Execution(s)!IInv, Execution(s)!UsedIsKept,
         NEW w \in Cast[s].workers, ExecutionMerges(s, w)
  PROVE  Execution(s)!UsedIsKept'
<1> DEFINE k == "signatureCallbacks"
           p == "signaturePackages"
           y == job[w].package
           f == job[w].event
<1>1. /\ y \in DOMAIN db[p]
      /\ \A z \in DOMAIN db[p] \ {y} : db'[p][z] = db[p][z]
      /\ db[p][y].status # "DECLINED"
      /\ db[p][y].signed \subseteq db'[p][y].signed /\ db[p][y].witnessed \subseteq db'[p][y].witnessed
      /\ f.act = "SIGNED" => Execution(s)!Concerned(f) \subseteq db'[p][y].signed
      /\ f.act = "WITNESSED" => Execution(s)!Concerned(f) \subseteq db'[p][y].witnessed
      /\ f.act = "DECLINED" => db'[p][y].status = "DECLINED"
      /\ \A x \in DOMAIN db'[k] : \/ x \in DOMAIN db[k] /\ db'[k][x] = db[k][x]
                                  \/ db'[k][x] = [event |-> f, package |-> y]
  BY ExecutionMerged
<1> HIDE DEF y, f
<1>2. ASSUME NEW x \in DOMAIN db'[k], NEW e, e = db'[k][x].event, NEW q, q = db'[k][x].package
      PROVE  /\ e.act = "SIGNED" => Execution(s)!Concerned(e) \subseteq db'[p][q].signed
             /\ e.act = "WITNESSED" => Execution(s)!Concerned(e) \subseteq db'[p][q].witnessed
             /\ e.act = "DECLINED" => db'[p][q].status = "DECLINED"
  <2>1. CASE db'[k][x] = [event |-> f, package |-> y]
    <3>1. e = f /\ q = y
      BY <1>2, <2>1
    <3> QED BY <1>1, <3>1
  <2>2. CASE x \in DOMAIN db[k] /\ db'[k][x] = db[k][x]
    <3>1. q \in DOMAIN db[p]
      BY <1>2, <2>2 DEF Execution!IInv, Execution!RowsSound, Execution!Ids
    <3>2. /\ e.act = "SIGNED" => Execution(s)!Concerned(e) \subseteq db[p][q].signed
          /\ e.act = "WITNESSED" => Execution(s)!Concerned(e) \subseteq db[p][q].witnessed
          /\ e.act = "DECLINED" => db[p][q].status = "DECLINED"
      BY <1>2, <2>2 DEF Execution!UsedIsKept, Execution!Ids
    <3> QED BY <1>1, <3>1, <3>2
  <2> QED BY <1>1, <2>1, <2>2
<1> QED BY <1>2 DEF Execution!UsedIsKept, Execution!Ids

LEMMA ExecutionWriteCounted ==
  ASSUME NEW s \in ExecutionScenes, Execution(s)!IInv, NEW w \in Cast[s].workers,
         NEW h, NEW j, Execution(s)!WriteSound(h), Execution(s)!Admits(h), db' = Execution(s)!Written(h),
         job[w].at = "write", h = job[w].todo[1], Execution(s)!Current(job[w]),
         \/ j.at = "idle" /\ job[w].todo = <<h>> /\ h.c # "approvalDecisions"
         \/ \E g : Execution(s)!Counts(h, g) /\ j.at = "write" /\ j.todo = <<g>> /\ job[w].todo = <<h, g>>,
         \A x \in DOMAIN db["approvalRequests"] : ExecutionCount(s, db, job[w], x),
         NEW x \in DOMAIN db'["approvalRequests"]
  PROVE  ExecutionCount(s, db', j, x)
<1> DEFINE q == "approvalRequests"
           a == "approvalDecisions"
           O(D) == {d \in DOMAIN D[a] : D[a][d].request = x}
<1>1. /\ q \in DOMAIN db /\ a \in DOMAIN db /\ DOMAIN db[q] = 1..Len(db[q]) /\ Len(db[q]) \in Nat
      /\ DOMAIN db[a] = 1..Len(db[a]) /\ Len(db[a]) \in Nat
      /\ Lands(db, db', h) /\ Keeps(db, db', h) /\ Adds(db, db', h) /\ h.op \in {"append", "replace"}
  BY ExecutionLands, ExecutionTyped DEF Execution!IInv, ExecutionTables
<1>2. \A d \in DOMAIN db[a] : db[a][d].request \in DOMAIN db[q]
  BY DEF Execution!IInv, Execution!RowsSound, Execution!Ids
<1>3. O(db) \subseteq 1..Len(db[a])
  BY <1>1
<1>4. x \in DOMAIN db[q] => ExecutionCount(s, db, job[w], x)
  OBVIOUS
<1>5. h.op = "replace" => h.c # a
  BY DEF Execution!WriteSound
<1>6. CASE h.c = a
  <2>1. PICK g : Execution(s)!Counts(h, g) /\ j.at = "write" /\ j.todo = <<g>> /\ job[w].todo = <<h, g>>
    BY <1>6
  <2>2. ~Execution(s)!Counting(job[w], x)
    <3>1. Len(<<h, g>>) = 2 /\ Len(<<h>>) = 1 /\ <<h, g>>[1] = h
      BY TodoOfTwo, TodoOfOne
    <3> QED BY <2>1, <3>1 DEF Execution!Counting
  <2>3. /\ g.c = q /\ g.op = "replace" /\ g.id = h.row.request /\ g.row.completed = h.row.step + 1
        /\ j.todo[1] = g
    BY <2>1 DEF Execution!Counts
  <2>4. Execution(s)!Counting(j, x) <=> h.row.request = x
    BY <2>1, <2>3 DEF Execution!Counting
  <2>5. h.row.step = db[q][h.row.request].completed
    BY <1>6 DEF Execution!Current
  <2>6. /\ db'[q] = db[q] /\ DOMAIN db'[a] = DOMAIN db[a] \cup {Len(db[a]) + 1}
        /\ db'[a][Len(db[a]) + 1] = h.row /\ \A d \in DOMAIN db[a] : db'[a][d] = db[a][d]
    BY <1>1, <1>5, <1>6 DEF Lands, Place, Keeps
  <2>7. Cardinality(O(db)) = db[q][x].completed
    BY <1>4, <2>2, <2>6 DEF ExecutionCount
  <2>8. CASE h.row.request = x
    <3>1. O(db') = O(db) \cup {Len(db[a]) + 1}
      BY <2>6, <2>8
    <3>2. Len(db[a]) + 1 \notin O(db)
      <4> DEFINE n == Len(db[a])
      <4>1. n \in Nat /\ O(db) \subseteq 1..n
        BY <1>1, <1>3
      <4> HIDE DEF n, O
      <4>2. n + 1 \notin O(db)
        BY <4>1
      <4> QED BY <4>2 DEF n
    <3>3. IsFiniteSet(O(db))
      BY <1>1, <1>3, RowsFinite
    <3> HIDE DEF O
    <3>4. Cardinality(O(db')) = Cardinality(O(db)) + 1
      BY <3>1, <3>2, <3>3, FS_AddElement
    <3>5. Cardinality(O(db')) = g.row.completed
      BY <2>3, <2>5, <2>7, <2>8, <3>4
    <3> QED BY <2>3, <2>4, <2>8, <3>5 DEF ExecutionCount, O
  <2>9. CASE h.row.request # x
    <3>1. O(db') = O(db)
      BY <2>6, <2>9
    <3> HIDE DEF O
    <3>2. Cardinality(O(db')) = db'[q][x].completed
      BY <2>6, <2>7, <3>1
    <3> QED BY <2>4, <2>9, <3>2 DEF ExecutionCount, O
  <2> QED BY <2>8, <2>9
<1>7. CASE h.c # a
  <2>1. j.at = "idle" /\ job[w].todo = <<h>>
    BY <1>7 DEF Execution!Counts
  <2>2. ~Execution(s)!Counting(j, x)
    BY <2>1 DEF Execution!Counting
  <2>3. db'[a] = db[a] /\ O(db') = O(db)
    <3>1. db'[a] = db[a]
      BY <1>1, <1>7 DEF Lands
    <3> QED BY <3>1
  <2>4. Execution(s)!Counting(job[w], x) <=> h.c = q /\ h.op = "replace" /\ h.id = x
    <3>1. job[w].todo[1] = h /\ job[w].todo = <<job[w].todo[1]>>
      BY <2>1
    <3> QED BY <3>1 DEF Execution!Counting
  <2>5. CASE x \in DOMAIN db[q]
    <3>1. Cardinality(O(db)) = IF h.c = q /\ h.op = "replace" /\ h.id = x THEN h.row.completed
                               ELSE db[q][x].completed
      BY <1>4, <2>4, <2>5 DEF ExecutionCount
    <3>2. db'[q][x] = IF h.c = q /\ h.op = "replace" /\ h.id = x THEN h.row ELSE db[q][x]
      BY <1>1, <2>5 DEF Keeps, Lands, Place
    <3> HIDE DEF O
    <3>3. Cardinality(O(db')) = db'[q][x].completed
      BY <2>3, <3>1, <3>2
    <3> QED BY <2>2, <3>3 DEF ExecutionCount, O
  <2>6. CASE x \notin DOMAIN db[q]
    <3>1. h.op = "append" /\ h.c = q /\ db'[q][x] = h.row
      BY <1>1, <2>6 DEF Adds
    <3>2. h.row.completed = 0
      BY <3>1 DEF Execution!WriteSound
    <3>3. O(db') = {}
      BY <1>2, <2>3, <2>6
    <3> HIDE DEF O
    <3>4. Cardinality(O(db')) = db'[q][x].completed
      BY <3>1, <3>2, <3>3, FS_EmptySet
    <3> QED BY <2>2, <3>4 DEF ExecutionCount, O
  <2> QED BY <2>5, <2>6
<1> QED BY <1>6, <1>7

LEMMA ExecutionSerial ==
  ASSUME NEW s \in ExecutionScenes, Execution(s)!IInv, Execution(s)!SerialInv, [Execution(s)!Next]_<<db, job>>
  PROVE  Execution(s)!SerialInv'
<1> DEFINE q == "approvalRequests"
           a == "approvalDecisions"
<1> SUFFICES ASSUME Execution(s)!InTurn PROVE Execution(s)!SerialInv'
  BY DEF Execution!SerialInv, Execution!InTurn
<1>1. PICK w \in Cast[s].workers : ExecutionMoves(s, w) \/ ExecutionWrites(s, w) \/ ExecutionMerges(s, w)
  BY ExecutionTakes
<1>2. job = [v \in Cast[s].workers |-> job[v]]
  BY DEF Execution!IInv
<1>3. /\ Execution(s)!UsedIsKept /\ Execution(s)!Current(job[w])
      /\ Execution(s)!Deathless => \A x \in DOMAIN db[q] : ExecutionCount(s, db, job[w], x)
  BY ExecutionSerialOne
<1>4. SUFFICES /\ Execution(s)!UsedIsKept' /\ Execution(s)!Current(job[w])'
               /\ Execution(s)!Deathless => \A x \in DOMAIN db'[q] : ExecutionCount(s, db', job'[w], x)
  BY ExecutionSerialOne
<1>5. CASE ExecutionMoves(s, w)
  <2>1. PICK j : /\ job' = [job EXCEPT ![w] = j] /\ UNCHANGED db
                 /\ \/ j = job[w]
                    \/ /\ Execution(s)!Current(j)
                       /\ \A x : /\ Execution(s)!Deathless => ~Execution(s)!Counting(job[w], x)
                                 /\ Execution(s)!Counting(j, x) => j.todo[1].row.completed = db[q][x].completed
    BY <1>5 DEF ExecutionMoves
  <2>2. job'[w] = j
    BY <1>2, <2>1, CarryMoves
  <2>3. Execution(s)!UsedIsKept' /\ Execution(s)!Current(job[w])'
    BY <1>3, <2>1, <2>2 DEF Execution!UsedIsKept, Execution!Current, Execution!Ids, Execution!Approved,
       Execution!InStatus
  <2>4. ASSUME Execution(s)!Deathless, NEW x \in DOMAIN db'[q] PROVE ExecutionCount(s, db', job'[w], x)
    <3>1. ExecutionCount(s, db, job[w], x)
      BY <1>3, <2>1, <2>4
    <3>2. ExecutionCount(s, db, j, x)
      BY <2>1, <2>4, <3>1 DEF ExecutionCount
    <3> QED BY <2>1, <2>2, <3>2
  <2> QED BY <2>3, <2>4
<1>6. CASE ExecutionWrites(s, w)
  <2>1. PICK h, j : /\ Execution(s)!WriteSound(h) /\ Execution(s)!Admits(h) /\ db' = Execution(s)!Written(h)
                    /\ job' = [job EXCEPT ![w] = j]
                    /\ job[w].at = "write" /\ h = job[w].todo[1]
                    /\ h.c = "signaturePackages" => Execution(s)!Free(w)
                    /\ \/ j.at = "idle" /\ job[w].todo = <<h>> /\ h.c # a
                       \/ \E g : Execution(s)!Counts(h, g) /\ j.at = "write" /\ j.todo = <<g>> /\ job[w].todo = <<h, g>>
    BY <1>6 DEF ExecutionWrites
  <2>2. job'[w] = j
    BY <1>2, <2>1, CarryMoves
  <2>3. Execution(s)!UsedIsKept'
    BY <1>3, <2>1, ExecutionUsedKept DEF Execution!Current
  <2>4. Execution(s)!Current(job[w])'
    <3>1. j.at = "write" => j.todo[1].c = q
      BY <2>1 DEF Execution!Counts
    <3> QED BY <2>2, <3>1 DEF Execution!Current
  <2>5. ASSUME Execution(s)!Deathless, NEW x \in DOMAIN db'[q] PROVE ExecutionCount(s, db', job'[w], x)
    BY <1>3, <2>1, <2>2, <2>5, ExecutionWriteCounted
  <2> QED BY <2>3, <2>4, <2>5
<1>7. CASE ExecutionMerges(s, w)
  <2>1. PICK j : job' = [job EXCEPT ![w] = j] /\ j.at = "idle"
    BY <1>7 DEF ExecutionMerges
  <2>2. job'[w] = j /\ job[w].at = "merge"
    BY <1>2, <1>7, <2>1, CarryMoves DEF ExecutionMerges
  <2>3. db'[q] = db[q] /\ db'[a] = db[a]
    BY <1>7, ExecutionMerged DEF ExecutionTables
  <2>4. Execution(s)!UsedIsKept'
    BY <1>3, <1>7, ExecutionMergeKept
  <2>5. Execution(s)!Current(job[w])'
    BY <2>1, <2>2 DEF Execution!Current
  <2>6. ASSUME Execution(s)!Deathless, NEW x \in DOMAIN db'[q] PROVE ExecutionCount(s, db', job'[w], x)
    <3>1. ExecutionCount(s, db, job[w], x)
      BY <1>3, <2>3, <2>6
    <3>2. ~Execution(s)!Counting(job[w], x) /\ ~Execution(s)!Counting(j, x)
      BY <2>1, <2>2 DEF Execution!Counting
    <3> QED BY <2>2, <2>3, <3>1, <3>2 DEF ExecutionCount
  <2> QED BY <2>4, <2>5, <2>6
<1> QED BY <1>1, <1>5, <1>6, <1>7

(* What a step of a request may do to signatures, and to packages.         *)
LEMMA ExecutionAllows ==
  ASSUME NEW s \in ExecutionScenes, Execution(s)!IInv, Execution(s)!SerialInv, [Execution(s)!Next]_<<db, job>>
  PROVE  /\ Execution(s)!CallbackKeepsSignatures
         /\ Execution(s)!InTurn => Execution(s)!PackagedWhenApproved
<1> DEFINE p == "signaturePackages"
<1>1. PICK w \in Cast[s].workers : ExecutionMoves(s, w) \/ ExecutionWrites(s, w) \/ ExecutionMerges(s, w)
  BY ExecutionTakes
<1>2. p \in DOMAIN db /\ Len(db[p]) \in Nat
  BY ExecutionTyped DEF Execution!IInv, ExecutionTables
<1>3. CASE ExecutionMoves(s, w)
  <2>1. UNCHANGED db
    BY <1>3 DEF ExecutionMoves
  <2> QED BY <1>2, <2>1 DEF Execution!CallbackKeepsSignatures, Execution!PackagedWhenApproved, Execution!Ids
<1>4. CASE ExecutionWrites(s, w)
  <2>1. PICK h : /\ Execution(s)!WriteSound(h) /\ Execution(s)!Admits(h) /\ db' = Execution(s)!Written(h)
                 /\ job[w].at = "write" /\ h = job[w].todo[1]
    BY <1>4 DEF ExecutionWrites
  <2>2. Lands(db, db', h) /\ Keeps(db, db', h) /\ h.op \in {"append", "replace"}
    BY <2>1, ExecutionLands
  <2>3. Execution(s)!CallbackKeepsSignatures
    <3>1. h.c = p /\ h.op = "replace" => h.row.status = "SENT"
      BY <2>1 DEF Execution!WriteSound
    <3> QED BY <1>2, <2>2, <3>1 DEF Keeps, Execution!CallbackKeepsSignatures, Execution!Ids
  <2>4. ASSUME Execution(s)!InTurn, Len(db'[p]) > Len(db[p])
        PROVE  Execution(s)!InStatus("approvalRequests", db'[p][Len(db'[p])].request, {"APPROVED"})
    <3>1. h.c = p /\ h.op = "append"
      BY <1>2, <2>2, <2>4 DEF Lands
    <3>2. Len(db'[p]) = Len(db[p]) + 1 /\ db'[p][Len(db[p]) + 1] = h.row
      BY <2>2, <3>1 DEF Lands, Place
    <3>3. Execution(s)!Current(job[w])
      BY <2>4, ExecutionSerialOne
    <3> QED BY <2>1, <3>1, <3>2, <3>3 DEF Execution!Current, Execution!Approved
  <2> QED BY <2>3, <2>4 DEF Execution!PackagedWhenApproved
<1>5. CASE ExecutionMerges(s, w)
  <2> DEFINE x == job[w].package
  <2>1. /\ x \in DOMAIN db[p] /\ Len(db'[p]) = Len(db[p])
        /\ \A y \in DOMAIN db[p] \ {x} : db'[p][y] = db[p][y]
        /\ db[p][x].signed \subseteq db'[p][x].signed /\ db[p][x].witnessed \subseteq db'[p][x].witnessed
    BY <1>5, ExecutionMerged
  <2> HIDE DEF x
  <2> QED BY <1>2, <2>1 DEF Execution!CallbackKeepsSignatures, Execution!PackagedWhenApproved, Execution!Ids
<1> QED BY <1>1, <1>3, <1>4, <1>5

LEMMA ExecutionPromises ==
  ASSUME NEW s \in ExecutionScenes, Execution(s)!IInv, Execution(s)!SerialInv
  PROVE  /\ Execution(s)!TypeOK /\ Execution(s)!OneCertificate
         /\ Execution(s)!ApprovedByAll /\ Execution(s)!CertifiedFullySigned
         /\ Execution(s)!Reliable => Execution(s)!DecisionsCounted
         /\ Execution(s)!InTurn => Execution(s)!UsedIsKept
<1>1. Execution(s)!TypeOK
  BY ExecutionTyped DEF Execution!IInv, Execution!TypeOK, Execution!Ids
<1>2. Execution(s)!RowsSound
  BY DEF Execution!IInv
<1>3. ASSUME NEW x \in Execution(s)!Ids("approvalRequests"), NEW r, r = db["approvalRequests"][x],
             r.status = "APPROVED", NEW n \in 0..(db["approvalPolicies"][r.policy].steps - 1)
      PROVE  Execution(s)!Granted(x, n, r.requester)
  <2>1. Execution(s)!Earned(x, r, r.completed)
    BY <1>2, <1>3 DEF Execution!RowsSound
  <2> QED BY <1>3, <2>1 DEF Execution!Earned
<1>4. Execution(s)!ApprovedByAll
  BY <1>3 DEF Execution!ApprovedByAll, Execution!Granted
<1>5. Execution(s)!CertifiedFullySigned
  BY <1>2 DEF Execution!RowsSound, Execution!Complete, Execution!FullySigned, Execution!CertifiedFullySigned
<1>6. ASSUME Execution(s)!Reliable PROVE Execution(s)!DecisionsCounted
  <2>1. PICK w \in Cast[s].workers : TRUE
    BY PlatformAssumption DEF Execution!ExecutionAssumption
  <2>2. ASSUME Execution(s)!Quiet, NEW x \in DOMAIN db["approvalRequests"]
        PROVE  /\ ExecutionCount(s, db, job[w], x)
               /\ ~Execution(s)!Counting(job[w], x)
    BY <1>6, <2>2, ExecutionSerialOne DEF Execution!Reliable, Execution!Quiet, Execution!Counting, Execution!At
  <2> QED BY <2>2, ExecutionCardinality DEF Execution!DecisionsCounted, Execution!Ids, ExecutionCount
<1> QED BY <1>1, <1>4, <1>5, <1>6 DEF Execution!IInv, Execution!SerialInv
----------------------------------------------------------------------------
(* Engines 61 to 70.                                                       *)

LEMMA AgentCardinality ==
  ASSUME NEW s, NEW S PROVE Agent(s)!Cardinality(S) = Cardinality(S)
  BY DEF Agent!Cardinality, Cardinality

AgentTables ==
  {"agentCapabilities", "registeredAgents", "promptVersions", "agentContextSnapshots",
   "agentMemory", "agentApprovalRequests", "agentTelemetry", "agentGovernancePolicies",
   "agentExecutions", "capabilityCalls", "protectedActions"}

LEMMA AgentTyped ==
  ASSUME NEW s \in AgentScenes, Agent(s)!TablesTyped(Agent(s)!RowType)
  PROVE  /\ Agent(s)!Collections = AgentTables /\ DOMAIN db = AgentTables
         /\ \A c \in AgentTables :
              /\ db[c] \in Seq(Agent(s)!RowType[c]) /\ DOMAIN db[c] = 1..Len(db[c]) /\ Len(db[c]) \in Nat
              /\ \A x \in DOMAIN db[c] : db[c][x] \in Agent(s)!RowType[c] /\ x \in Nat
<1>1. Agent(s)!Collections = AgentTables /\ DOMAIN db = AgentTables
  <2>1. Cast[s].rows \in [DOMAIN Agent(s)!RowType -> Nat]
    BY PlatformAssumption DEF Agent!AgentAssumption
  <2>2. Agent(s)!Collections = DOMAIN Agent(s)!RowType
    BY <2>1 DEF Agent!Collections
  <2> QED BY <2>2 DEF Agent!TablesTyped, Agent!RowType, AgentTables
<1>2. \A c \in AgentTables : db[c] \in Seq(Agent(s)!RowType[c])
  BY <1>1 DEF Agent!TablesTyped
<1> QED BY <1>1, <1>2, LenProperties

(* A write, and the tables after it.                                       *)
LEMMA AgentLands ==
  ASSUME NEW s \in AgentScenes, Agent(s)!IInv, NEW h, Agent(s)!WriteSound(h), db' = Agent(s)!Written(h)
  PROVE  /\ Agent(s)!TablesTyped(Agent(s)!RowType)' /\ h.c \in AgentTables
         /\ h.op \in {"append", "replace"} /\ h.row \in Agent(s)!RowType[h.c]
         /\ h.op = "replace" => h.id \in DOMAIN db[h.c]
         /\ Lands(db, db', h) /\ Keeps(db, db', h) /\ Adds(db, db', h)
         /\ \A c \in AgentTables : DOMAIN db'[c] = 1..Len(db'[c]) /\ Len(db'[c]) \in Nat
<1> DEFINE T == Agent(s)!RowType
           C == Agent(s)!Collections
<1>1. Fitting(db, C, T, h) /\ db' = Holding(db, h) /\ C = AgentTables
  BY AgentTyped DEF Agent!IInv, Agent!TablesTyped, Agent!WriteSound, Agent!WriteTyped,
     Agent!Ids, Agent!Written, Tabled, Fitting, Holding
<1>2. Tabled(db', C, T) /\ Lands(db, db', h) /\ Keeps(db, db', h) /\ Adds(db, db', h)
  <2> HIDE DEF T, C
  <2> QED BY <1>1, Landing
<1>3. \A c \in AgentTables : DOMAIN db'[c] = 1..Len(db'[c]) /\ Len(db'[c]) \in Nat
  <2>1. \A c \in AgentTables : db'[c] \in Seq(T[c])
    BY <1>1, <1>2 DEF Tabled
  <2> HIDE DEF T
  <2> QED BY <2>1, LenProperties
<1> QED BY <1>1, <1>2, <1>3 DEF Tabled, Fitting, Agent!TablesTyped

(* A new row.                                                              *)
LEMMA AgentNew ==
  ASSUME NEW s \in AgentScenes, Agent(s)!IInv, NEW c \in AgentTables, NEW row \in Agent(s)!RowType[c]
  PROVE  LET h == Agent(s)!New(c, row)
         IN Agent(s)!WriteTyped(h, Agent(s)!RowType) /\ h.op = "append" /\ h.c = c /\ h.row = row
<1>1. Agent(s)!Collections = AgentTables
  BY AgentTyped DEF Agent!IInv
<1> QED BY <1>1 DEF Agent!New, Agent!WriteTyped

(* A row in place of the one read before.                                  *)
LEMMA AgentPut ==
  ASSUME NEW s \in AgentScenes, Agent(s)!IInv, NEW c \in AgentTables, NEW x \in DOMAIN db[c],
         NEW row \in Agent(s)!RowType[c]
  PROVE  LET h == Agent(s)!Put(c, x, row)
         IN /\ Agent(s)!WriteTyped(h, Agent(s)!RowType)
            /\ h.op = "replace" /\ h.c = c /\ h.id = x /\ h.row = row
<1>1. Agent(s)!Collections = AgentTables
  BY AgentTyped DEF Agent!IInv
<1> QED BY <1>1 DEF Agent!Put, Agent!WriteTyped, Agent!Ids

LEMMA AgentNext ==
  ASSUME NEW s \in AgentScenes, Agent(s)!IInv, NEW c \in Agent(s)!Registries
  PROVE  Agent(s)!NextVersion(c) = Len(db[c]) + 1 /\ Len(db[c]) \in Nat /\ c \in AgentTables
<1> DEFINE n == Len(db[c])
           S == {0} \cup {db[c][x].version : x \in DOMAIN db[c]}
<1>1. c \in AgentTables /\ DOMAIN db[c] = 1..n /\ n \in Nat
  BY AgentTyped DEF Agent!IInv, Agent!Registries, AgentTables
<1>2. \A x \in DOMAIN db[c] : db[c][x].version = x
  BY DEF Agent!IInv, Agent!RowsSound, Agent!Ids
<1>3. S = 0..n
  BY <1>1, <1>2
<1> HIDE DEF n, S
<1>4. n \in S /\ \A y \in S : y \in Nat /\ n >= y
  BY <1>1, <1>3
<1>5. \A m \in S : (\A y \in S : m >= y) => m = n
  BY <1>1, <1>4
<1>6. Agent(s)!Max(S) = n
  BY <1>4, <1>5 DEF Agent!Max
<1> QED BY <1>1, <1>6 DEF Agent!NextVersion, Agent!Ids, n, S

AgentOwn(D, x) == {m \in DOMAIN D["agentMemory"] : D["agentMemory"][m].execution = x}

(* What no write changes: what is protected, the capability of an          *)
(* execution, the memory, and that a prompt is no draft any more.          *)
AgentGrows(D, E) ==
  /\ \A c \in AgentTables : /\ \A x \in DOMAIN D[c] : x \in DOMAIN E[c]
                            /\ Len(D[c]) \in Nat /\ Len(E[c]) \in Nat /\ Len(D[c]) <= Len(E[c])
  /\ \A x \in DOMAIN D["agentCapabilities"] :
       E["agentCapabilities"][x].protected = D["agentCapabilities"][x].protected
  /\ \A x \in DOMAIN D["agentExecutions"] :
       E["agentExecutions"][x].capability = D["agentExecutions"][x].capability
  /\ \A x : /\ Cardinality(AgentOwn(D, x)) \in Nat /\ Cardinality(AgentOwn(E, x)) \in Nat
            /\ Cardinality(AgentOwn(D, x)) <= Cardinality(AgentOwn(E, x))
  /\ \A x \in DOMAIN D["promptVersions"] :
       D["promptVersions"][x].status # "DRAFT" => E["promptVersions"][x].status # "DRAFT"

LEMMA AgentGrown ==
  ASSUME NEW s \in AgentScenes, Agent(s)!IInv, AgentGrows(db, db')
  PROVE  /\ \A e \in Agent(s)!MemoryEntry : Agent(s)!Placed(e) => Agent(s)!Placed(e)'
         /\ \A x : Agent(s)!Unprotected(x) => Agent(s)!Unprotected(x)'
         /\ \A h : Agent(s)!WriteSound(h) => Agent(s)!WriteSound(h)'
         /\ \A h : Agent(s)!Alone(h) => Agent(s)!Alone(h)'
         /\ \A j : Agent(s)!JobSound(j) => Agent(s)!JobSound(j)'
<1>1. Agent(s)!Collections = AgentTables
  BY AgentTyped DEF Agent!IInv
<1>2. ASSUME NEW e \in Agent(s)!MemoryEntry, Agent(s)!Placed(e) PROVE Agent(s)!Placed(e)'
  <2> DEFINE m == Cardinality(AgentOwn(db, e.execution))
             n == Cardinality(AgentOwn(db', e.execution))
  <2>1. e.sequence \in Nat /\ e.sequence <= m + 1 /\ m \in Nat /\ n \in Nat /\ m <= n
    BY <1>2, AgentCardinality DEF AgentGrows, Agent!Placed, Agent!Own, Agent!Ids, AgentOwn, Agent!MemoryEntry
  <2>2. e.sequence <= n + 1
    <3> HIDE DEF m, n
    <3> QED BY <2>1
  <2> QED BY <1>2, <2>2, AgentCardinality DEF AgentGrows, Agent!Placed, Agent!Own, Agent!Ids, AgentOwn, AgentTables
<1>3. ASSUME NEW x, Agent(s)!Unprotected(x) PROVE Agent(s)!Unprotected(x)'
  <2>1. db["agentExecutions"][x].capability \in DOMAIN db["agentCapabilities"]
    BY <1>3 DEF Agent!Unprotected, Agent!IInv, Agent!RowsSound, Agent!Ids
  <2> QED BY <1>3, <2>1 DEF AgentGrows, AgentTables, Agent!Unprotected, Agent!Ids
<1>4. ASSUME NEW h, Agent(s)!WriteSound(h) PROVE Agent(s)!WriteSound(h)'
  <2>1. h.c \in AgentTables /\ h.row \in Agent(s)!RowType[h.c] /\ (h.op = "replace" => h.id \in DOMAIN db[h.c])
        /\ h.op \in {"append", "replace"}
    BY <1>1, <1>4 DEF Agent!WriteSound, Agent!WriteTyped, Agent!Ids
  <2>2. Agent(s)!WriteTyped(h, Agent(s)!RowType)'
    BY <1>1, <2>1 DEF AgentGrows, Agent!WriteTyped, Agent!Ids
  <2>3. h.c \in Agent(s)!Registries =>
          IF h.op = "append" THEN h.row.version <= Len(db'[h.c]) + 1 /\ h.row.version <= Cast[s].rows[h.c]
          ELSE h.row.version = h.id
    <3> DEFINE m == Len(db[h.c])
               n == Len(db'[h.c])
               v == h.row.version
    <3>1. h.c \in Agent(s)!Registries => v \in Nat
      <4>1. CASE h.c = "registeredAgents"
        BY <2>1, <4>1 DEF Agent!RowType, Agent!RegisteredAgent
      <4>2. CASE h.c = "promptVersions"
        BY <2>1, <4>2 DEF Agent!RowType, Agent!PromptVersion
      <4>3. CASE h.c = "agentGovernancePolicies"
        BY <2>1, <4>3 DEF Agent!RowType, Agent!GovernancePolicy
      <4> QED BY <4>1, <4>2, <4>3 DEF Agent!Registries
    <3>2. m \in Nat /\ n \in Nat /\ m <= n
      BY <2>1 DEF AgentGrows
    <3>3. v \in Nat /\ v <= m + 1 => v <= n + 1
      <4> HIDE DEF m, n, v
      <4> QED BY <3>2
    <3> QED BY <1>4, <3>1, <3>3 DEF Agent!WriteSound
  <2>4. h.c = "promptVersions" /\ h.op = "replace" /\ h.row.status = "RETIRED" =>
          db'["promptVersions"][h.id].status # "DRAFT"
    BY <1>4, <2>1 DEF AgentGrows, Agent!WriteSound, Agent!InStatus
  <2>5. /\ h.c = "agentCapabilities" /\ h.op = "replace" => h.row.protected = db'[h.c][h.id].protected
        /\ h.c = "agentExecutions" => h.row.capability \in DOMAIN db'["agentCapabilities"]
        /\ h.c = "agentExecutions" /\ h.op = "replace" => h.row.capability = db'[h.c][h.id].capability
    BY <1>4, <2>1 DEF AgentGrows, Agent!WriteSound, Agent!Ids, AgentTables
  <2>6. h.c = "agentMemory" => Agent(s)!Placed(h.row)'
    BY <1>2, <1>4, <2>1 DEF Agent!WriteSound, Agent!RowType
  <2>7. h.c = "capabilityCalls" => Agent(s)!Unprotected(h.row.execution)'
    BY <1>3, <1>4 DEF Agent!WriteSound
  <2>8. h.c = "promptVersions" =>
          IF h.op = "append" THEN h.row.status = "DRAFT"
          ELSE /\ h.row.status \in {"RETIRED", "PUBLISHED"}
               /\ h.row.status = "RETIRED" => ~Agent(s)!InStatus(h.c, h.id, {"DRAFT"})'
    BY <1>4, <2>1, <2>4 DEF Agent!WriteSound, Agent!InStatus
  <2>9. h.c = "agentCapabilities" =>
          /\ h.row.protected => h.row.mode = "PROPOSE"
          /\ h.op = "replace" => h.row.protected = db'[h.c][h.id].protected
    BY <1>4, <2>5 DEF Agent!WriteSound
  <2>10. h.c = "agentExecutions" =>
          /\ h.row.capability \in Agent(s)!Ids("agentCapabilities")'
          /\ h.op = "replace" => h.row.capability = db'[h.c][h.id].capability
    BY <2>5 DEF Agent!Ids
  <2>11. /\ h.c = "agentGovernancePolicies" => h.row.active = (h.op = "append")
         /\ h.c = "agentMemory" => h.op = "append"
         /\ h.c = "agentApprovalRequests" /\ h.row.status # "PENDING" => h.row.by # "none"
         /\ h.c = "capabilityCalls" => h.op = "append"
         /\ h.c = "agentTelemetry" => h.op = "append"
    BY <1>4 DEF Agent!WriteSound
  <2> QED BY <2>2, <2>3, <2>6, <2>7, <2>8, <2>9, <2>10, <2>11 DEF Agent!WriteSound
<1>5. ASSUME NEW h, Agent(s)!Alone(h) PROVE Agent(s)!Alone(h)'
  BY <1>4, <1>5 DEF Agent!Alone
<1>6. ASSUME NEW h, NEW g, Agent(s)!Before(h, g) PROVE Agent(s)!Before(h, g)'
  BY <1>4, <1>5, <1>6 DEF Agent!Before
<1>7. ASSUME NEW j, Agent(s)!JobSound(j) PROVE Agent(s)!JobSound(j)'
  <2>1. /\ j.at = "activeAgents" => j.id \in DOMAIN db'["registeredAgents"]
        /\ j.at = "published" => j.id \in DOMAIN db'["promptVersions"]
        /\ j.at \in Agent(s)!Asked \cup Agent(s)!Executing => j.capability \in DOMAIN db'["agentCapabilities"]
        /\ j.at \in Agent(s)!Executing =>
             j.id \in DOMAIN db'["agentExecutions"] /\ db'["agentExecutions"][j.id].capability = j.capability
    BY <1>7 DEF AgentGrows, AgentTables, Agent!JobSound, Agent!Ids
  <2>2. j.at \in {"userEntry", "resultEntry"} => Agent(s)!Placed(j.entry)'
    BY <1>2, <1>7 DEF Agent!JobSound
  <2>3. j.at = "call" => ~db'["agentCapabilities"][j.capability].protected
    BY <1>7 DEF AgentGrows, Agent!JobSound, Agent!Executing, Agent!Attempting, Agent!Ids
  <2>4. j.at = "write" => \/ j.todo = <<j.todo[1]>> /\ Agent(s)!Alone(j.todo[1])'
                          \/ j.todo = <<j.todo[1], j.todo[2]>> /\ Agent(s)!Before(j.todo[1], j.todo[2])'
    <3> DEFINE h == j.todo[1]
               g == j.todo[2]
    <3>1. j.at = "write" => \/ j.todo = <<h>> /\ Agent(s)!Alone(h)
                            \/ j.todo = <<h, g>> /\ Agent(s)!Before(h, g)
      BY <1>7 DEF Agent!JobSound
    <3> HIDE DEF h, g
    <3>2. (Agent(s)!Alone(h) => Agent(s)!Alone(h)') /\ (Agent(s)!Before(h, g) => Agent(s)!Before(h, g)')
      BY <1>5, <1>6
    <3> QED BY <3>1, <3>2 DEF h, g
  <2> QED BY <1>7, <2>1, <2>2, <2>3, <2>4 DEF Agent!JobSound, Agent!Ids
<1> QED BY <1>2, <1>3, <1>4, <1>5, <1>7

AgentLive(D, c) ==
  {x \in DOMAIN D[c] : IF c = "promptVersions" THEN D[c][x].status = "PUBLISHED" ELSE D[c][x].active}

LEMMA AgentLiving ==
  ASSUME NEW s \in AgentScenes, NEW c
  PROVE  Agent(s)!Active(c) = AgentLive(db, c) /\ Agent(s)!Active(c)' = AgentLive(db', c)
  BY DEF Agent!Active, Agent!Ids, Agent!InStatus, AgentLive

(* Who is in force after a write that is admitted.                         *)
LEMMA AgentTurns ==
  ASSUME NEW s \in AgentScenes, Agent(s)!IInv, NEW h, Agent(s)!WriteSound(h),
         Agent(s)!Admits(h), db' = Agent(s)!Written(h), NEW c \in Agent(s)!Registries
  PROVE  /\ \A x \in DOMAIN db'[c] : db'[c][x].version = x
         /\ h.c = c /\ Agent(s)!Incumbent(h) => /\ AgentLive(db', c) = {Place(db, h)}
                                                /\ AgentLive(db, c) \subseteq {Place(db, h)}
         /\ h.c = c /\ ~Agent(s)!Incumbent(h) =>
              AgentLive(db', c) = AgentLive(db, c) \ {Place(db, h)}
         /\ h.c # c => db'[c] = db[c] /\ AgentLive(db', c) = AgentLive(db, c)
         /\ h.c = c /\ h.op = "append" => Len(db'[c]) = Len(db[c]) + 1
         /\ h.c # c \/ h.op = "replace" => Len(db'[c]) = Len(db[c])
<1>1. /\ c \in DOMAIN db /\ DOMAIN db[c] = 1..Len(db[c]) /\ Len(db[c]) \in Nat
      /\ Lands(db, db', h) /\ Keeps(db, db', h) /\ Adds(db, db', h)
      /\ h.op \in {"append", "replace"} /\ (h.op = "replace" => h.id \in DOMAIN db[h.c])
      /\ h.row \in Agent(s)!RowType[h.c]
  BY AgentNext, AgentLands, AgentTyped DEF Agent!IInv
<1>2. \A x \in DOMAIN db[c] : db[c][x].version = x
  BY DEF Agent!IInv, Agent!RowsSound, Agent!Ids
<1>3. CASE h.c # c
  <2>1. db'[c] = db[c]
    BY <1>1, <1>3 DEF Lands
  <2> QED BY <1>2, <1>3, <2>1 DEF AgentLive
<1>4. CASE h.c = c
  <2> DEFINE p == Place(db, h)
  <2>1. /\ DOMAIN db'[c] = DOMAIN db[c] \cup {p} /\ db'[c][p] = h.row
        /\ \A y \in DOMAIN db[c] \ {p} : db'[c][y] = db[c][y]
    BY <1>1, <1>4 DEF Lands
  <2>2. p \in AgentLive(db', c) <=> Agent(s)!Incumbent(h)
    BY <1>4, <2>1 DEF AgentLive, Agent!Incumbent
  <2>3. \A y : y # p => (y \in AgentLive(db', c) <=> y \in AgentLive(db, c))
    BY <2>1 DEF AgentLive
  <2>4. Agent(s)!Incumbent(h) => AgentLive(db, c) \subseteq {p}
    BY <1>1, <1>4, AgentLiving DEF Agent!Admits, Agent!OneActive, Place
  <2>5. h.row.version = p
    <3>1. CASE h.op = "replace"
      BY <1>4, <3>1 DEF Agent!WriteSound, Place
    <3>2. CASE h.op = "append"
      <4> DEFINE n == Len(db[c])
                 v == h.row.version
      <4>1. v \in Nat \ {0}
        <5>1. CASE c = "registeredAgents"
          BY <1>1, <1>4, <5>1 DEF Agent!RowType, Agent!RegisteredAgent
        <5>2. CASE c = "promptVersions"
          BY <1>1, <1>4, <5>2 DEF Agent!RowType, Agent!PromptVersion
        <5>3. CASE c = "agentGovernancePolicies"
          BY <1>1, <1>4, <5>3 DEF Agent!RowType, Agent!GovernancePolicy
        <5> QED BY <5>1, <5>2, <5>3 DEF Agent!Registries
      <4>2. v <= n + 1
        BY <1>4, <3>2 DEF Agent!WriteSound
      <4>3. \A x \in 1..n : v # x
        BY <1>1, <1>2, <1>4, <3>2 DEF Agent!Admits, Agent!KeyFree, Agent!Ids
      <4>4. p = n + 1 /\ n \in Nat
        BY <1>1, <1>4, <3>2 DEF Place
      <4> HIDE DEF n, v, p
      <4> QED BY <4>1, <4>2, <4>3, <4>4 DEF v
    <3> QED BY <1>1, <3>1, <3>2
  <2>6. \A x \in DOMAIN db'[c] : db'[c][x].version = x
    BY <1>2, <2>1, <2>5
  <2>7. /\ h.op = "append" => Len(db'[c]) = Len(db[c]) + 1
        /\ h.op = "replace" => Len(db'[c]) = Len(db[c])
    BY <1>1, <1>4 DEF Lands
  <2> HIDE DEF p
  <2>8. /\ Agent(s)!Incumbent(h) => AgentLive(db', c) = {p}
        /\ ~Agent(s)!Incumbent(h) => AgentLive(db', c) = AgentLive(db, c) \ {p}
    BY <2>2, <2>3, <2>4
  <2> QED BY <1>4, <2>4, <2>6, <2>7, <2>8 DEF p
<1> QED BY <1>3, <1>4

(* The memory of an execution after a write that is admitted.              *)
LEMMA AgentRemembers ==
  ASSUME NEW s \in AgentScenes, Agent(s)!IInv, NEW h, Agent(s)!WriteSound(h),
         Agent(s)!Admits(h), db' = Agent(s)!Written(h), NEW x
  PROVE  LET m == Cardinality(AgentOwn(db, x))
             n == Cardinality(AgentOwn(db', x))
             a == "agentMemory"
         IN /\ m \in Nat /\ n \in Nat /\ m <= n
            /\ x \in DOMAIN db'["agentExecutions"] => {db'[a][y].sequence : y \in AgentOwn(db', x)} = 1..n
<1> DEFINE a == "agentMemory"
           e == "agentExecutions"
           k == Len(db[a])
           O == AgentOwn(db, x)
           P == AgentOwn(db', x)
           m == Cardinality(O)
<1>1. /\ a \in DOMAIN db /\ e \in DOMAIN db /\ DOMAIN db[a] = 1..k /\ k \in Nat
      /\ Lands(db, db', h) /\ Keeps(db, db', h) /\ Adds(db, db', h)
      /\ h.row \in Agent(s)!RowType[h.c]
      /\ \A y \in DOMAIN db[a] : db[a][y] \in Agent(s)!RowType[a]
  BY AgentLands, AgentTyped DEF Agent!IInv, AgentTables
<1>2. O \subseteq 1..k
  BY <1>1 DEF AgentOwn
<1>3. IsFiniteSet(O) /\ m \in Nat
  BY <1>1, <1>2, RowsFinite
<1>4. x \in DOMAIN db[e] => {db[a][y].sequence : y \in O} = 1..m
  BY AgentCardinality DEF Agent!IInv, Agent!MemorySequenced, Agent!Own, Agent!Ids, AgentOwn
<1>5. CASE h.c = a /\ h.row.execution = x
  <2>1. h.op = "append" /\ Agent(s)!Placed(h.row) /\ Agent(s)!KeyFree(h)
    BY <1>5 DEF Agent!WriteSound, Agent!Admits
  <2>2. /\ DOMAIN db'[a] = DOMAIN db[a] \cup {k + 1} /\ db'[a][k + 1] = h.row
        /\ \A y \in DOMAIN db[a] : db'[a][y] = db[a][y]
    BY <1>1, <1>5, <2>1 DEF Lands, Place, Keeps
  <2>3. P = O \cup {k + 1}
    BY <1>5, <2>2 DEF AgentOwn
  <2>4. k + 1 \notin O
    <3> HIDE DEF k, O
    <3> QED BY <1>1, <1>2
  <2>5. Cardinality(P) = m + 1
    <3> HIDE DEF O, P, k
    <3> QED BY <1>3, <2>3, <2>4, FS_AddElement
  <2>6. x \in DOMAIN db[e]
    BY <1>5, <2>1 DEF Agent!Placed, Agent!Ids
  <2> DEFINE v == h.row.sequence
             Q == {db[a][y].sequence : y \in O}
  <2>7. v \in Nat \ {0} /\ v <= m + 1
    <3>1. h.row \in Agent(s)!MemoryEntry
      BY <1>1, <1>5 DEF Agent!RowType
    <3>2. v <= m + 1
      BY <1>5, <2>1, AgentCardinality DEF Agent!Placed, Agent!Own, Agent!Ids, AgentOwn
    <3> QED BY <3>1, <3>2 DEF Agent!MemoryEntry
  <2>8. v \notin Q
    <3> SUFFICES ASSUME NEW y \in O, db[a][y].sequence = v PROVE FALSE
      OBVIOUS
    <3>1. y \in DOMAIN db[a] /\ db[a][y].execution = h.row.execution
      BY <1>5 DEF AgentOwn
    <3>2. db[a][y] \in Agent(s)!MemoryEntry /\ h.row \in Agent(s)!MemoryEntry
      BY <1>1, <1>5, <3>1 DEF Agent!RowType
    <3>3. db[a][y] = h.row
      BY <3>1, <3>2 DEF Agent!MemoryEntry
    <3> QED BY <1>5, <2>1, <3>1, <3>3 DEF Agent!KeyFree, Agent!Ids
  <2>9. v = m + 1
    <3>1. Q = 1..m
      BY <1>4, <2>6
    <3> HIDE DEF v, Q, m
    <3> QED BY <1>3, <2>7, <2>8, <3>1
  <2>10. {db'[a][y].sequence : y \in P} = Q \cup {v}
    <3>1. \A y \in O : db'[a][y] = db[a][y]
      BY <1>2, <2>2 DEF AgentOwn
    <3> HIDE DEF O, P
    <3> QED BY <2>2, <2>3, <3>1
  <2>11. 1..(m + 1) = (1..m) \cup {m + 1} /\ m + 1 \in Nat /\ m <= m + 1
    <3> HIDE DEF m
    <3> QED BY <1>3
  <2>12. {db'[a][y].sequence : y \in P} = 1..(m + 1)
    <3>1. Q = 1..m
      BY <1>4, <2>6
    <3> HIDE DEF Q, P, m, v
    <3> QED BY <2>9, <2>10, <2>11, <3>1
  <2> HIDE DEF P, O, m
  <2> QED BY <1>3, <2>5, <2>11, <2>12 DEF P, O, m
<1>6. CASE ~(h.c = a /\ h.row.execution = x)
  <2>1. P = O /\ \A y \in O : db'[a][y] = db[a][y]
    <3>1. h.c = a => h.op = "append"
      BY DEF Agent!WriteSound
    <3> QED BY <1>1, <1>6, <3>1 DEF AgentOwn, Keeps, Adds
  <2>2. {db'[a][y].sequence : y \in P} = {db[a][y].sequence : y \in O}
    <3> HIDE DEF O, P
    <3> QED BY <2>1
  <2>3. ASSUME x \in DOMAIN db'[e], x \notin DOMAIN db[e] PROVE {db[a][y].sequence : y \in O} = 1..m
    <3>1. O = {}
      BY <2>3 DEF AgentOwn, Agent!IInv, Agent!RowsSound, Agent!Ids
    <3>2. m = 0 /\ {db[a][y].sequence : y \in O} = {}
      BY <3>1, FS_EmptySet
    <3>3. 1..0 = {}
      OBVIOUS
    <3> HIDE DEF m, O
    <3> QED BY <3>2, <3>3
  <2>4. m <= m
    <3> HIDE DEF m
    <3> QED BY <1>3
  <2>5. x \in DOMAIN db'[e] => {db'[a][y].sequence : y \in P} = 1..m
    BY <1>4, <2>2, <2>3
  <2>6. Cardinality(P) = m
    BY <2>1
  <2> HIDE DEF P, O, m
  <2> QED BY <1>3, <2>4, <2>5, <2>6 DEF P, O, m
<1> QED BY <1>5, <1>6

(* A write that is admitted.                                               *)
LEMMA AgentWritten ==
  ASSUME NEW s \in AgentScenes, Agent(s)!IInv, NEW h, Agent(s)!WriteSound(h),
         Agent(s)!Admits(h), db' = Agent(s)!Written(h)
  PROVE  /\ AgentGrows(db, db') /\ Agent(s)!RowsSound' /\ Agent(s)!MemorySequenced'
         /\ Agent(s)!DecisionsKept
<1> DEFINE k == "agentCapabilities"
           e == "agentExecutions"
           a == "agentMemory"
           c == "capabilityCalls"
           r == "agentApprovalRequests"
           p == "promptVersions"
           g == "agentGovernancePolicies"
<1>1. /\ DOMAIN db = AgentTables
      /\ k \in DOMAIN db /\ e \in DOMAIN db /\ a \in DOMAIN db /\ c \in DOMAIN db /\ r \in DOMAIN db /\ p \in DOMAIN db
      /\ Lands(db, db', h) /\ Keeps(db, db', h) /\ Adds(db, db', h)
      /\ h.op \in {"append", "replace"} /\ (h.op = "replace" => h.id \in DOMAIN db[h.c])
  BY AgentLands, AgentTyped DEF Agent!IInv, AgentTables
<1>2. Agent(s)!RowsSound
  BY DEF Agent!IInv
<1>3. AgentGrows(db, db')
  <2>1. ASSUME NEW t \in AgentTables
        PROVE  Len(db[t]) \in Nat /\ Len(db'[t]) \in Nat /\ Len(db[t]) <= Len(db'[t])
    <3> DEFINE m == Len(db[t])
               n == Len(db'[t])
    <3>1. m \in Nat /\ n \in Nat
      BY AgentTyped, AgentLands DEF Agent!IInv
    <3>2. n = m \/ n = m + 1
      BY <1>1 DEF Lands
    <3> HIDE DEF m, n
    <3>3. m <= n
      BY <3>1, <3>2
    <3> QED BY <3>1, <3>3 DEF m, n
  <2>2. \A x \in DOMAIN db[k] : db'[k][x].protected = db[k][x].protected
    BY <1>1 DEF Keeps, Agent!WriteSound
  <2>3. \A x \in DOMAIN db[e] : db'[e][x].capability = db[e][x].capability
    BY <1>1 DEF Keeps, Agent!WriteSound
  <2>4. \A x \in DOMAIN db[p] : db[p][x].status # "DRAFT" => db'[p][x].status # "DRAFT"
    BY <1>1 DEF Keeps, Agent!WriteSound
  <2> QED BY <1>1, <2>1, <2>2, <2>3, <2>4, AgentRemembers DEF AgentGrows, Keeps
<1>4. Agent(s)!MemorySequenced'
  BY AgentRemembers, AgentCardinality DEF Agent!MemorySequenced, Agent!Own, Agent!Ids, AgentOwn
<1>5. \A x \in DOMAIN db'[k] : db'[k][x].protected => db'[k][x].mode = "PROPOSE"
  <2>1. \A x \in DOMAIN db[k] : db[k][x].protected => db[k][x].mode = "PROPOSE"
    BY <1>2 DEF Agent!RowsSound, Agent!Ids
  <2> QED BY <1>1, <2>1 DEF Keeps, Adds, Agent!WriteSound
<1>6. \A x \in DOMAIN db'[e] : db'[e][x].capability \in DOMAIN db'[k]
  <2>1. \A x \in DOMAIN db[e] : db[e][x].capability \in DOMAIN db[k]
    BY <1>2 DEF Agent!RowsSound, Agent!Ids
  <2>2. h.c = e => h.row.capability \in DOMAIN db[k]
    BY DEF Agent!WriteSound, Agent!Ids
  <2> QED BY <1>1, <2>1, <2>2 DEF Keeps, Adds
<1>7. ASSUME NEW x \in DOMAIN db'[c], NEW y, y = db'[c][x].execution PROVE Agent(s)!Unprotected(y)'
  <2>1. Agent(s)!Unprotected(y)
    <3>1. \A z \in DOMAIN db[c] : Agent(s)!Unprotected(db[c][z].execution)
      BY <1>2 DEF Agent!RowsSound, Agent!Ids
    <3>2. h.c = c => Agent(s)!Unprotected(h.row.execution)
      BY DEF Agent!WriteSound
    <3> QED BY <1>1, <1>7, <3>1, <3>2 DEF Keeps, Adds
  <2> QED BY <1>3, <2>1, AgentGrown
<1>8. \A x \in DOMAIN db'[a] : db'[a][x].execution \in DOMAIN db'[e]
  <2>1. \A x \in DOMAIN db[a] : db[a][x].execution \in DOMAIN db[e]
    BY <1>2 DEF Agent!RowsSound, Agent!Ids
  <2>2. h.c = a => h.row.execution \in DOMAIN db[e]
    BY DEF Agent!WriteSound, Agent!Placed, Agent!Ids
  <2> QED BY <1>1, <2>1, <2>2 DEF Keeps, Adds
<1>9. \A x \in DOMAIN db'[r] : db'[r][x].status # "PENDING" => db'[r][x].by # "none"
  <2>1. \A x \in DOMAIN db[r] : db[r][x].status # "PENDING" => db[r][x].by # "none"
    BY <1>2 DEF Agent!RowsSound, Agent!Ids, Agent!InStatus
  <2> QED BY <1>1, <2>1 DEF Keeps, Adds, Agent!WriteSound
<1>10. ASSUME NEW t \in Agent(s)!Registries
       PROVE  /\ \A x \in DOMAIN db'[t] : db'[t][x].version = x
              /\ \A x, y \in AgentLive(db', t) : x = y
  <2>1. \A x, y \in AgentLive(db, t) : x = y
    BY <1>2, AgentLiving DEF Agent!RowsSound
  <2> QED BY <2>1, AgentTurns
<1>11. AgentLive(db', g) \subseteq {Len(db'[g])}
  <2>1. AgentLive(db, g) \subseteq {Len(db[g])} /\ g \in Agent(s)!Registries
    BY <1>2, AgentLiving DEF Agent!RowsSound, Agent!Registries
  <2>2. h.c = g => (Agent(s)!Incumbent(h) <=> h.op = "append")
    BY DEF Agent!WriteSound, Agent!Incumbent
  <2>3. h.c = g /\ h.op = "append" => Place(db, h) = Len(db[g]) + 1
    BY DEF Place
  <2> QED BY <1>1, <2>1, <2>2, <2>3, AgentTurns
<1>12. Agent(s)!RowsSound'
  <2>1. \A t \in Agent(s)!Registries : \A x, y \in Agent(s)!Active(t)' : x = y
    BY <1>10, AgentLiving
  <2>2. Agent(s)!Active(g)' \subseteq {Len(db'[g])}
    BY <1>11, AgentLiving
  <2> QED BY <1>5, <1>6, <1>7, <1>8, <1>9, <1>10, <2>1, <2>2 DEF Agent!RowsSound, Agent!Ids, Agent!InStatus
<1>13. Agent(s)!DecisionsKept
  <2>1. ASSUME NEW x \in DOMAIN db[r], db[r][x].status # "PENDING"
        PROVE  db'[r][x].status = db[r][x].status /\ db'[r][x].by = db[r][x].by
    <3>1. db[r][x].by # "none"
      BY <1>2, <2>1 DEF Agent!RowsSound, Agent!Ids, Agent!InStatus
    <3>2. h.op = "replace" => Agent(s)!Final(h)
      BY DEF Agent!Admits
    <3> QED BY <1>1, <2>1, <3>1, <3>2 DEF Keeps, Agent!Final
  <2> QED BY <2>1 DEF Agent!DecisionsKept, Agent!Ids
<1> QED BY <1>3, <1>4, <1>12, <1>13

(* A request moves to its next call, or makes a write.  It is refused a    *)
(* write; what it owes a measurement it still owes, unless it dies or the  *)
(* measurement is what it writes; and one that takes something back has    *)
(* still to write the next.                                                *)
AgentRefused(s, j) ==
  /\ j.at = "write"
  /\ ~Agent(s)!Admits(j.todo[1]) \/ (j.todo[1].op = "append" /\ ~Agent(s)!Room(j.todo[1].c))

AgentMoves(s, w) ==
  \E j : /\ job' = [job EXCEPT ![w] = j] /\ UNCHANGED db /\ Agent(s)!JobSound(j)
         /\ \/ j = job[w] \/ ~Agent(s)!Deathless \/ AgentRefused(s, job[w])
            \/ job[w].at # "write" /\ \A x : Agent(s)!Owes(job[w], x) => Agent(s)!Owes(j, x)
         /\ j.at \in Agent(s)!Early => job[w].at \in Agent(s)!Early /\ j.id = job[w].id

AgentEnds(h) == h.c = "agentExecutions" /\ h.row.status \in {"SUCCEEDED", "FAILED"}

AgentWrites(s, w) ==
  \E h, j :
    /\ Agent(s)!WriteSound(h) /\ Agent(s)!Admits(h) /\ db' = Agent(s)!Written(h)
    /\ job' = [job EXCEPT ![w] = j] /\ Agent(s)!JobSound(j)'
    /\ job[w].at = "write" => h = job[w].todo[1]
    /\ Agent(s)!Alone(h) \/ h.c = "agentExecutions"
         \/ \E g : Agent(s)!Before(h, g) /\ j.at = "write" /\ j.todo = <<g>>
    /\ \A x : Agent(s)!Owes(job[w], x) =>
                Agent(s)!Owes(j, x) \/ (h.c = "agentTelemetry" /\ h.row.execution = x)
    /\ AgentEnds(h) => h.op = "replace" /\ Agent(s)!Owes(j, h.id)
    /\ j.at \in Agent(s)!Early => h.c = "agentExecutions" /\ Place(db, h) = j.id /\ ~AgentEnds(h)

LEMMA AgentStarts ==
  ASSUME NEW s \in AgentScenes, NEW w, NEW j, Agent(s)!JobSound(j), job[w].at # "write",
         job' = [job EXCEPT ![w] = j], UNCHANGED db,
         job[w].at \notin Agent(s)!Attempting \cup {"fail"}, j.at \notin Agent(s)!Early
  PROVE  AgentMoves(s, w)
  BY DEF AgentMoves, Agent!Owes

LEMMA AgentGivesUp ==
  ASSUME NEW s \in AgentScenes, NEW w, Agent(s)!GiveUp(w),
         \/ ~Agent(s)!Deathless \/ AgentRefused(s, job[w])
         \/ job[w].at \notin {"write", "fail"} \cup Agent(s)!Attempting
  PROVE  AgentMoves(s, w)
<1> DEFINE j == Agent(s)!Idle
<1>1. j.at = "idle" /\ job' = [job EXCEPT ![w] = j] /\ UNCHANGED db
  BY DEF Agent!GiveUp, Agent!Return, Agent!Carry, Agent!Idle
<1> HIDE DEF j
<1>2. Agent(s)!JobSound(j) /\ j.at \notin Agent(s)!Early
  BY <1>1 DEF Agent!JobSound, Agent!Asked, Agent!Executing, Agent!Early, Agent!Attempting
<1>3. job[w].at \notin {"write", "fail"} \cup Agent(s)!Attempting =>
        job[w].at # "write" /\ \A x : Agent(s)!Owes(job[w], x) => Agent(s)!Owes(j, x)
  BY DEF Agent!Owes
<1> QED BY <1>1, <1>2, <1>3 DEF AgentMoves

LEMMA AgentAsks ==
  ASSUME NEW s \in AgentScenes, NEW w, NEW h, Agent(s)!Ask(w, <<h>>) \/ Agent(s)!Decide(w, <<h>>),
         job[w].at \notin {"write", "fail"} \cup Agent(s)!Attempting, Agent(s)!Alone(h)
  PROVE  AgentMoves(s, w)
<1> DEFINE j == [at |-> "write", todo |-> <<h>>]
<1>1. j.at = "write" /\ j.todo = <<h>> /\ j.todo[1] = h
  OBVIOUS
<1>2. job' = [job EXCEPT ![w] = j] /\ UNCHANGED db
  BY DEF Agent!Ask, Agent!Receive, Agent!Carry, Agent!Decide, Agent!Then
<1> HIDE DEF j
<1>3. Agent(s)!JobSound(j) /\ j.at \notin Agent(s)!Early
  BY <1>1 DEF Agent!JobSound, Agent!Asked, Agent!Executing, Agent!Early, Agent!Attempting
<1> QED BY <1>1, <1>2, <1>3, AgentStarts

LEMMA AgentAsksTwo ==
  ASSUME NEW s \in AgentScenes, NEW w, NEW h, NEW g,
         Agent(s)!Ask(w, <<h, g>>) \/ Agent(s)!Decide(w, <<h, g>>), job[w].at # "write", Agent(s)!Before(h, g),
         \A x : Agent(s)!Owes(job[w], x) => g.c = "agentTelemetry" /\ g.row.execution = x
  PROVE  AgentMoves(s, w)
<1> DEFINE j == [at |-> "write", todo |-> <<h, g>>]
<1>1. j.at = "write" /\ j.todo = <<h, g>> /\ j.todo[1] = h /\ j.todo[2] = g
  OBVIOUS
<1>2. job' = [job EXCEPT ![w] = j] /\ UNCHANGED db
  BY DEF Agent!Ask, Agent!Receive, Agent!Carry, Agent!Decide, Agent!Then
<1> HIDE DEF j
<1>3. Agent(s)!JobSound(j) /\ j.at \notin Agent(s)!Early
  BY <1>1 DEF Agent!JobSound, Agent!Asked, Agent!Executing, Agent!Early, Agent!Attempting
<1>4. \A x : Agent(s)!Owes(job[w], x) => Agent(s)!Owes(j, x)
  <2>1. 2 \in DOMAIN j.todo
    BY <1>1, TodoOfTwo
  <2> QED BY <1>1, <2>1 DEF Agent!Owes
<1> QED BY <1>2, <1>3, <1>4 DEF AgentMoves

(* What is in force is taken back, and something is put in force.          *)
LEMMA AgentLists ==
  ASSUME NEW s \in AgentScenes, Agent(s)!IInv, NEW w, NEW c \in Agent(s)!Registries,
         NEW q \in Agent(s)!Listing(Agent(s)!Active(c)), NEW f, f = [n \in DOMAIN q |-> f[n]], NEW g,
         Agent(s)!Ask(w, f \o <<g>>) \/ Agent(s)!Decide(w, f \o <<g>>),
         job[w].at \notin {"write", "fail"} \cup Agent(s)!Attempting,
         Agent(s)!Alone(g), 1 \in DOMAIN q /\ q[1] \in AgentLive(db, c) => Agent(s)!Before(f[1], g)
  PROVE  AgentMoves(s, w)
<1> DEFINE S == AgentLive(db, c)
           m == Len(db[c])
<1>1. S \subseteq 1..m /\ m \in Nat
  BY AgentNext, AgentTyped DEF Agent!IInv, AgentLive
<1>2. \A x, y \in S : x = y
  BY AgentLiving DEF Agent!IInv, Agent!RowsSound
<1>3. q \in [1..Cardinality(S) -> S]
  BY AgentLiving, AgentCardinality DEF Agent!Listing
<1>4. \/ f \o <<g>> = <<g>>
      \/ 1 \in DOMAIN q /\ q[1] \in S /\ f \o <<g>> = <<f[1], g>>
  <2>1. OneEach(m, S, q, f)
    BY <1>1, <1>2, <1>3 DEF OneEach
  <2> HIDE DEF S, m
  <2> QED BY <2>1, OneBefore
<1>5. \A x : ~Agent(s)!Owes(job[w], x)
  BY DEF Agent!Owes
<1> QED BY <1>4, <1>5, AgentAsks, AgentAsksTwo

(* A request that executes goes on: it remembers what it did.              *)
AgentGoesOn(s, i, l) ==
  /\ Agent(s)!JobSound(i)
  /\ \/ i.at \in Agent(s)!Asked /\ l \in {"policy", "render"}
     \/ /\ i.at \in Agent(s)!Executing /\ l \in Agent(s)!Executing \ {"userEntry", "resultEntry"}
        /\ l = "call" => ~db["agentCapabilities"][i.capability].protected

LEMMA AgentSteps ==
  ASSUME NEW s \in AgentScenes, NEW i, NEW l, AgentGoesOn(s, i, l)
  PROVE  LET j == [i EXCEPT !.at = l]
         IN Agent(s)!JobSound(j) /\ j.at = l /\ (i.at \in Agent(s)!Executing => j.id = i.id)
<1> USE DEF AgentGoesOn, Agent!Asked, Agent!Executing, Agent!Early, Agent!Attempting
<1> DEFINE j == [i EXCEPT !.at = l]
<1>1. "at" \in DOMAIN i /\ DOMAIN j = DOMAIN i /\ j.at = l
  BY DEF Agent!JobSound
<1>2. \A f \in DOMAIN i \ {"at"} : j[f] = i[f]
  OBVIOUS
<1>3. j.capability = i.capability /\ j.errors = i.errors
  BY <1>2 DEF Agent!JobSound
<1>4. i.at \in Agent(s)!Executing => j.id = i.id /\ j.prompt = i.prompt
  BY <1>2 DEF Agent!JobSound
<1> HIDE DEF j
<1>5. Agent(s)!JobSound(j) /\ j.at = l /\ (i.at \in Agent(s)!Executing => j.id = i.id)
  BY <1>1, <1>3, <1>4 DEF Agent!JobSound
<1> QED BY <1>5 DEF j

(* Registering, and what is put in the place of what is in force.          *)
LEMMA AgentRegisters ==
  ASSUME NEW s \in AgentScenes, Agent(s)!IInv, NEW w \in Cast[s].workers, Agent(s)!Register(w)
  PROVE  AgentMoves(s, w)
<1> DEFINE k == "agentCapabilities"
           a == "registeredAgents"
           p == "promptVersions"
           g == "agentGovernancePolicies"
<1> USE DEF Agent!Attempting
<1>1. /\ Agent(s)!JobSound(job[w]) /\ Agent(s)!RowsSound
      /\ k \in AgentTables /\ a \in AgentTables /\ p \in AgentTables /\ g \in AgentTables
      /\ \A c \in AgentTables : /\ DOMAIN db[c] = 1..Len(db[c]) /\ Len(db[c]) \in Nat
                                /\ \A x \in DOMAIN db[c] : db[c][x] \in Agent(s)!RowType[c] /\ x \in Nat
      /\ \A c \in AgentTables : Cast[s].rows[c] \in Nat
  <2>1. Cast[s].rows \in [DOMAIN Agent(s)!RowType -> Nat]
    BY PlatformAssumption DEF Agent!AgentAssumption
  <2> QED BY <2>1, AgentTyped DEF Agent!IInv, AgentTables, Agent!RowType
<1>2. CASE Agent(s)!RegisterCapability(w)
  <2>1. PICK row \in Agent(s)!Capability :
          /\ Agent(s)!Room(k)
          /\ row.active
          /\ row.protected => row.mode = "PROPOSE"
          /\ Agent(s)!Ask(w, <<Agent(s)!New(k, row)>>)
    BY <1>2 DEF Agent!RegisterCapability
  <2> DEFINE h == Agent(s)!New(k, row)
  <2>2. /\ Agent(s)!WriteTyped(h, Agent(s)!RowType) /\ h.op = "append" /\ h.c = k /\ h.row = row
        /\ Agent(s)!Ask(w, <<h>>) /\ job[w].at = "idle"
    BY <1>1, <2>1, AgentNew DEF Agent!RowType, Agent!Ask, Agent!Receive, Agent!At
  <2> HIDE DEF h
  <2>3. Agent(s)!Alone(h)
    BY <2>1, <2>2 DEF Agent!Alone, Agent!WriteSound, Agent!Registries
  <2> QED BY <2>2, <2>3, AgentAsks
<1>3. CASE Agent(s)!Deactivate(w)
  <2>1. PICK x \in Agent(s)!Ids(k) :
          /\ db.agentCapabilities[x].active
          /\ Agent(s)!Ask(w, <<Agent(s)!PutCapability(x, [db.agentCapabilities[x] EXCEPT !.active = FALSE])>>)
    BY <1>3 DEF Agent!Deactivate
  <2> DEFINE o == db[k][x]
             row == [o EXCEPT !.active = FALSE]
             h == Agent(s)!Put(k, x, row)
  <2>2. o \in Agent(s)!Capability /\ x \in DOMAIN db[k] /\ (o.protected => o.mode = "PROPOSE")
    BY <1>1, <2>1 DEF Agent!Ids, Agent!RowType, Agent!RowsSound
  <2>3. row \in Agent(s)!Capability /\ row.protected = o.protected /\ row.mode = o.mode
    <3> HIDE DEF o
    <3> QED BY <2>2 DEF Agent!Capability
  <2> HIDE DEF row
  <2>4. /\ Agent(s)!WriteTyped(h, Agent(s)!RowType) /\ h.op = "replace" /\ h.c = k /\ h.id = x /\ h.row = row
        /\ Agent(s)!Ask(w, <<h>>) /\ job[w].at = "idle"
    BY <1>1, <2>1, <2>2, <2>3, AgentPut
       DEF Agent!RowType, Agent!Ask, Agent!Receive, Agent!At, Agent!PutCapability, row
  <2> HIDE DEF h
  <2>5. Agent(s)!Alone(h)
    BY <2>2, <2>3, <2>4 DEF Agent!Alone, Agent!WriteSound, Agent!Registries
  <2> QED BY <2>4, <2>5, AgentAsks
<1>4. CASE Agent(s)!RegisterAgent(w)
  <2> DEFINE row == [active |-> FALSE, version |-> Agent(s)!NextVersion(a)]
             h == Agent(s)!New(a, row)
             n == Len(db[a])
             r == Cast[s].rows[a]
  <2>1. a \in Agent(s)!Registries /\ Agent(s)!NextVersion(a) = n + 1 /\ n \in Nat /\ r \in Nat /\ n < r
    BY <1>1, <1>4, AgentNext DEF Agent!RegisterAgent, Agent!Room, Agent!Registries
  <2>2. row \in Agent(s)!RegisteredAgent /\ row.version = n + 1 /\ n + 1 <= r
    <3> HIDE DEF n, r
    <3> QED BY <2>1 DEF Agent!RegisteredAgent
  <2> HIDE DEF row
  <2>3. /\ Agent(s)!WriteTyped(h, Agent(s)!RowType) /\ h.op = "append" /\ h.c = a /\ h.row = row
        /\ Agent(s)!Ask(w, <<h>>) /\ job[w].at = "idle"
    BY <1>1, <1>4, <2>2, AgentNew
       DEF Agent!RowType, Agent!Ask, Agent!Receive, Agent!At, Agent!RegisterAgent, row
  <2> HIDE DEF h
  <2>4. h.row.version <= n + 1 /\ h.row.version <= r
    <3> HIDE DEF n, r
    <3> QED BY <2>1, <2>2, <2>3
  <2>5. Agent(s)!Alone(h)
    BY <2>2, <2>3, <2>4 DEF Agent!Alone, Agent!WriteSound, Agent!Registries
  <2> QED BY <2>3, <2>5, AgentAsks
<1>5. CASE Agent(s)!CreatePrompt(w)
  <2> DEFINE row == [status |-> "DRAFT", version |-> Agent(s)!NextVersion(p)]
             h == Agent(s)!New(p, row)
             n == Len(db[p])
             r == Cast[s].rows[p]
  <2>1. p \in Agent(s)!Registries /\ Agent(s)!NextVersion(p) = n + 1 /\ n \in Nat /\ r \in Nat /\ n < r
    BY <1>1, <1>5, AgentNext DEF Agent!CreatePrompt, Agent!Room, Agent!Registries
  <2>2. row \in Agent(s)!PromptVersion /\ row.version = n + 1 /\ n + 1 <= r /\ row.status = "DRAFT"
    <3> HIDE DEF n, r
    <3> QED BY <2>1 DEF Agent!PromptVersion
  <2> HIDE DEF row
  <2>3. /\ Agent(s)!WriteTyped(h, Agent(s)!RowType) /\ h.op = "append" /\ h.c = p /\ h.row = row
        /\ Agent(s)!Ask(w, <<h>>) /\ job[w].at = "idle"
    BY <1>1, <1>5, <2>2, AgentNew
       DEF Agent!RowType, Agent!Ask, Agent!Receive, Agent!At, Agent!CreatePrompt, row
  <2> HIDE DEF h
  <2>4. h.row.version <= n + 1 /\ h.row.version <= r
    <3> HIDE DEF n, r
    <3> QED BY <2>1, <2>2, <2>3
  <2>5. Agent(s)!Alone(h)
    BY <2>2, <2>3, <2>4 DEF Agent!Alone, Agent!WriteSound, Agent!Registries
  <2> QED BY <2>3, <2>5, AgentAsks
<1>6. CASE Agent(s)!Activate(w)
  <2>1. PICK x \in Agent(s)!Ids(a) : Agent(s)!Look(w, [at |-> "activeAgents", id |-> x])
    BY <1>6 DEF Agent!Activate
  <2> DEFINE j == [at |-> "activeAgents", id |-> x]
  <2>2. j.at = "activeAgents" /\ j.id = x /\ job' = [job EXCEPT ![w] = j] /\ UNCHANGED db /\ job[w].at = "idle"
    BY <2>1 DEF Agent!Look, Agent!Receive, Agent!Carry, Agent!At
  <2> HIDE DEF j
  <2>3. Agent(s)!JobSound(j) /\ j.at \notin Agent(s)!Early
    BY <2>1, <2>2 DEF Agent!JobSound, Agent!Asked, Agent!Executing, Agent!Early
  <2> QED BY <2>2, <2>3, AgentStarts
<1>7. CASE Agent(s)!PublishPrompt(w)
  <2>1. PICK x \in Agent(s)!Ids(p) : Agent(s)!Look(w, [at |-> "published", id |-> x])
    BY <1>7 DEF Agent!PublishPrompt
  <2> DEFINE j == [at |-> "published", id |-> x]
  <2>2. j.at = "published" /\ j.id = x /\ job' = [job EXCEPT ![w] = j] /\ UNCHANGED db /\ job[w].at = "idle"
    BY <2>1 DEF Agent!Look, Agent!Receive, Agent!Carry, Agent!At
  <2> HIDE DEF j
  <2>3. Agent(s)!JobSound(j) /\ j.at \notin Agent(s)!Early
    BY <2>1, <2>2 DEF Agent!JobSound, Agent!Asked, Agent!Executing, Agent!Early
  <2> QED BY <2>2, <2>3, AgentStarts
<1>8. CASE Agent(s)!PublishPolicy(w)
  <2> DEFINE row == [active |-> TRUE, version |-> Agent(s)!NextVersion(g)]
             h == Agent(s)!New(g, row)
             n == Len(db[g])
             r == Cast[s].rows[g]
  <2>1. PICK q \in Agent(s)!Listing(Agent(s)!Active(g)) :
          Agent(s)!Ask(w, [m \in DOMAIN q |-> Agent(s)!PutPolicy(q[m], FALSE)] \o <<h>>)
    BY <1>8 DEF Agent!PublishPolicy
  <2> DEFINE f == [m \in DOMAIN q |-> Agent(s)!PutPolicy(q[m], FALSE)]
  <2>2. g \in Agent(s)!Registries /\ Agent(s)!NextVersion(g) = n + 1 /\ n \in Nat /\ r \in Nat /\ n < r
        /\ job[w].at = "idle"
    BY <1>1, <1>8, <2>1, AgentNext
       DEF Agent!PublishPolicy, Agent!Room, Agent!Registries, Agent!Ask, Agent!Receive, Agent!At
  <2>3. row \in Agent(s)!GovernancePolicy /\ row.version = n + 1 /\ n + 1 <= r /\ row.active = TRUE
    <3> HIDE DEF n, r
    <3> QED BY <2>2 DEF Agent!GovernancePolicy
  <2> HIDE DEF row
  <2>4. Agent(s)!WriteTyped(h, Agent(s)!RowType) /\ h.op = "append" /\ h.c = g /\ h.row = row
    BY <1>1, <2>3, AgentNew DEF Agent!RowType
  <2>5. Agent(s)!Ask(w, f \o <<h>>) /\ f = [m \in DOMAIN q |-> f[m]]
    BY <2>1 DEF row
  <2> HIDE DEF h
  <2>6. h.row.version <= n + 1 /\ h.row.version <= r /\ h.row.version = n + 1
    <3> HIDE DEF n, r
    <3> QED BY <2>2, <2>3, <2>4
  <2>7. Agent(s)!Alone(h)
    BY <2>3, <2>4, <2>6 DEF Agent!Alone, Agent!WriteSound, Agent!Registries
  <2>8. ASSUME 1 \in DOMAIN q, q[1] \in AgentLive(db, g) PROVE Agent(s)!Before(f[1], h)
    <3> DEFINE x == q[1]
               o == db[g][x]
               u == [o EXCEPT !.active = FALSE]
               e == Agent(s)!Put(g, x, u)
    <3>1. x \in DOMAIN db[g] /\ o \in Agent(s)!GovernancePolicy /\ o.version = x /\ x = n
      BY <1>1, <2>8, AgentLiving DEF AgentLive, Agent!RowType, Agent!RowsSound, Agent!Registries, Agent!Ids
    <3>2. f[1] = e
      BY <2>8 DEF Agent!PutPolicy
    <3> HIDE DEF f
    <3>3. u \in Agent(s)!GovernancePolicy /\ u.active = FALSE /\ u.version = o.version
      <4> HIDE DEF o
      <4> QED BY <3>1 DEF Agent!GovernancePolicy
    <3> HIDE DEF u
    <3>4. /\ Agent(s)!WriteTyped(e, Agent(s)!RowType) /\ e.op = "replace" /\ e.c = g /\ e.id = x /\ e.row = u
      BY <1>1, <3>1, <3>3, AgentPut DEF Agent!RowType
    <3> HIDE DEF e
    <3>5. Agent(s)!WriteSound(e)
      BY <3>1, <3>3, <3>4 DEF Agent!WriteSound, Agent!Registries
    <3>6. h.row.version = e.id + 1
      <4> HIDE DEF n
      <4> QED BY <2>6, <3>1, <3>4
    <3> QED BY <2>4, <2>7, <3>2, <3>4, <3>5, <3>6 DEF Agent!Before
  <2> HIDE DEF f
  <2> QED BY <2>2, <2>5, <2>7, <2>8, AgentLists
<1> QED BY <1>2, <1>3, <1>4, <1>5, <1>6, <1>7, <1>8 DEF Agent!Register

LEMMA AgentEntry ==
  ASSUME NEW s \in AgentScenes, Agent(s)!IInv, NEW x \in DOMAIN db["agentExecutions"]
  PROVE  /\ Agent(s)!Entry(x) \in Agent(s)!MemoryEntry /\ Agent(s)!Placed(Agent(s)!Entry(x))
         /\ Agent(s)!Entry(x).execution = x
<1> DEFINE a == "agentMemory"
           O == Agent(s)!Own(x)
           m == Cardinality(O)
           y == Agent(s)!Entry(x)
<1>1. /\ a \in AgentTables /\ DOMAIN db[a] = 1..Len(db[a]) /\ Len(db[a]) \in Nat /\ x \in Nat
  BY AgentTyped DEF Agent!IInv, AgentTables
<1>2. O \subseteq DOMAIN db[a]
  BY DEF Agent!Own, Agent!Ids
<1>3. m \in Nat
  BY <1>1, <1>2, RowsFinite
<1>4. y = [execution |-> x, sequence |-> m + 1]
  BY AgentCardinality DEF Agent!Entry
<1>5. y.execution = x /\ y.sequence = m + 1 /\ m + 1 \in Nat \ {0}
  BY <1>3, <1>4
<1>6. y \in Agent(s)!MemoryEntry
  BY <1>1, <1>4, <1>5 DEF Agent!MemoryEntry
<1>7. Agent(s)!Cardinality(Agent(s)!Own(y.execution)) + 1 = m + 1
  BY <1>5, AgentCardinality
<1>8. y.sequence <= Agent(s)!Cardinality(Agent(s)!Own(y.execution)) + 1
  <2> HIDE DEF m, y
  <2> QED BY <1>3, <1>5, <1>7
<1> HIDE DEF y
<1>9. Agent(s)!Placed(y)
  BY <1>5, <1>8 DEF Agent!Placed, Agent!Ids
<1> QED BY <1>5, <1>6, <1>9 DEF y

(* Approvals, contexts, memory, and what is cancelled.                     *)
LEMMA AgentApproves ==
  ASSUME NEW s \in AgentScenes, Agent(s)!IInv, NEW w \in Cast[s].workers,
         \/ Agent(s)!Approve(w) \/ Agent(s)!CreateContext(w) \/ Agent(s)!Remember(w) \/ Agent(s)!Cancel(w)
  PROVE  AgentMoves(s, w)
<1> DEFINE r == "agentApprovalRequests"
           b == "agentContextSnapshots"
           a == "agentMemory"
           e == "agentExecutions"
           p == "protectedActions"
<1> USE DEF Agent!Attempting
<1>1. /\ Agent(s)!JobSound(job[w]) /\ Agent(s)!RowsSound
      /\ r \in AgentTables /\ b \in AgentTables /\ a \in AgentTables /\ e \in AgentTables /\ p \in AgentTables
      /\ \A c \in AgentTables : /\ DOMAIN db[c] = 1..Len(db[c]) /\ Len(db[c]) \in Nat
                                /\ \A x \in DOMAIN db[c] : db[c][x] \in Agent(s)!RowType[c] /\ x \in Nat
      /\ Cast[s].stamps \subseteq Nat \ {0} /\ "none" \notin Cast[s].people
  BY AgentTyped, PlatformAssumption DEF Agent!IInv, AgentTables, Agent!AgentAssumption
<1>2. CASE Agent(s)!RequestApproval(w)
  <2> DEFINE row == [status |-> "PENDING", by |-> "none", consumed |-> 0]
             h == Agent(s)!New(r, row)
  <2>1. row \in Agent(s)!ApprovalRequest /\ row.status = "PENDING"
    BY DEF Agent!ApprovalRequest
  <2> HIDE DEF row
  <2>2. /\ Agent(s)!WriteTyped(h, Agent(s)!RowType) /\ h.op = "append" /\ h.c = r /\ h.row = row
        /\ Agent(s)!Ask(w, <<h>>) /\ job[w].at = "idle"
    BY <1>1, <1>2, <2>1, AgentNew
       DEF Agent!RowType, Agent!Ask, Agent!Receive, Agent!At, Agent!RequestApproval, row
  <2> HIDE DEF h
  <2>3. Agent(s)!Alone(h)
    BY <2>1, <2>2 DEF Agent!Alone, Agent!WriteSound, Agent!Registries
  <2> QED BY <2>2, <2>3, AgentAsks
<1>3. CASE Agent(s)!DecideApproval(w)
  <2>1. PICK x \in Agent(s)!Ids(r), u \in Cast[s].people, to \in {"APPROVED", "REJECTED"} :
          /\ Agent(s)!InStatus(r, x, {"PENDING"})
          /\ Agent(s)!Ask(w, <<Agent(s)!PutApproval(x, [status |-> to, by |-> u, consumed |-> 0])>>)
    BY <1>3 DEF Agent!DecideApproval
  <2> DEFINE row == [status |-> to, by |-> u, consumed |-> 0]
             h == Agent(s)!Put(r, x, row)
  <2>2. row \in Agent(s)!ApprovalRequest /\ row.by = u /\ u # "none" /\ x \in DOMAIN db[r]
    BY <1>1, <2>1 DEF Agent!ApprovalRequest, Agent!Ids
  <2> HIDE DEF row
  <2>3. /\ Agent(s)!WriteTyped(h, Agent(s)!RowType) /\ h.op = "replace" /\ h.c = r /\ h.row = row
        /\ Agent(s)!Ask(w, <<h>>) /\ job[w].at = "idle"
    BY <1>1, <2>1, <2>2, AgentPut
       DEF Agent!RowType, Agent!Ask, Agent!Receive, Agent!At, Agent!PutApproval, row
  <2> HIDE DEF h
  <2>4. Agent(s)!Alone(h)
    BY <2>2, <2>3 DEF Agent!Alone, Agent!WriteSound, Agent!Registries
  <2> QED BY <2>3, <2>4, AgentAsks
<1>4. CASE Agent(s)!Consume(w)
  <2>1. PICK x \in Agent(s)!Ids(r), t \in Cast[s].stamps :
          /\ Agent(s)!InStatus(r, x, {"APPROVED"})
          /\ db.agentApprovalRequests[x].consumed = 0
          /\ Agent(s)!Ask(w, <<Agent(s)!PutApproval(x, [db.agentApprovalRequests[x] EXCEPT !.consumed = t]),
                               Agent(s)!New(p, [approval |-> x])>>)
    BY <1>4 DEF Agent!Consume
  <2> DEFINE o == db[r][x]
             row == [o EXCEPT !.consumed = t]
             h == Agent(s)!Put(r, x, row)
             u == [approval |-> x]
             g == Agent(s)!New(p, u)
  <2>2. /\ x \in DOMAIN db[r] /\ o \in Agent(s)!ApprovalRequest /\ o.by # "none" /\ x \in Nat
        /\ t \in Nat \ {0} /\ t \in Cast[s].stamps
    BY <1>1, <2>1 DEF Agent!RowType, Agent!Ids, Agent!InStatus, Agent!RowsSound
  <2>3. row \in Agent(s)!ApprovalRequest /\ row.by = o.by
    <3> HIDE DEF o
    <3> QED BY <2>2 DEF Agent!ApprovalRequest
  <2>4. u \in Agent(s)!RowType[p]
    BY <2>2 DEF Agent!RowType
  <2> HIDE DEF row, u
  <2>5. /\ Agent(s)!WriteTyped(h, Agent(s)!RowType) /\ h.op = "replace" /\ h.c = r /\ h.row = row
    BY <1>1, <2>2, <2>3, AgentPut DEF Agent!RowType
  <2>6. /\ Agent(s)!WriteTyped(g, Agent(s)!RowType) /\ g.op = "append" /\ g.c = p
    BY <1>1, <2>4, AgentNew
  <2>7. Agent(s)!Ask(w, <<h, g>>) /\ job[w].at = "idle"
    BY <2>1 DEF Agent!Ask, Agent!Receive, Agent!At, Agent!PutApproval, row, u
  <2> HIDE DEF h, g
  <2>8. Agent(s)!Alone(g)
    BY <2>6 DEF Agent!Alone, Agent!WriteSound, Agent!Registries
  <2>9. Agent(s)!Before(h, g)
    BY <2>2, <2>3, <2>5, <2>6, <2>8 DEF Agent!Before, Agent!WriteSound, Agent!Registries
  <2>10. \A x_1 : ~Agent(s)!Owes(job[w], x_1)
    BY <2>7 DEF Agent!Owes
  <2> QED BY <2>7, <2>9, <2>10, AgentAsksTwo
<1>5. CASE Agent(s)!CreateContext(w)
  <2> DEFINE row == [checksum |-> "sha256"]
             h == Agent(s)!New(b, row)
  <2>1. row \in Agent(s)!RowType[b]
    BY DEF Agent!RowType
  <2> HIDE DEF row
  <2>2. /\ Agent(s)!WriteTyped(h, Agent(s)!RowType) /\ h.op = "append" /\ h.c = b
        /\ Agent(s)!Ask(w, <<h>>) /\ job[w].at = "idle"
    BY <1>1, <1>5, <2>1, AgentNew
       DEF Agent!Ask, Agent!Receive, Agent!At, Agent!CreateContext, Agent!NewContext, row
  <2> HIDE DEF h
  <2>3. Agent(s)!Alone(h)
    BY <2>2 DEF Agent!Alone, Agent!WriteSound, Agent!Registries
  <2> QED BY <2>2, <2>3, AgentAsks
<1>6. CASE Agent(s)!Remember(w)
  <2>1. PICK x \in Agent(s)!Ids(e) : Agent(s)!Room(a) /\ Agent(s)!Ask(w, <<Agent(s)!NewMemory(Agent(s)!Entry(x))>>)
    BY <1>6 DEF Agent!Remember
  <2> DEFINE row == Agent(s)!Entry(x)
             h == Agent(s)!New(a, row)
  <2>2. row \in Agent(s)!MemoryEntry /\ Agent(s)!Placed(row)
    BY <2>1, AgentEntry DEF Agent!Ids
  <2> HIDE DEF row
  <2>3. /\ Agent(s)!WriteTyped(h, Agent(s)!RowType) /\ h.op = "append" /\ h.c = a /\ h.row = row
        /\ Agent(s)!Ask(w, <<h>>) /\ job[w].at = "idle"
    BY <1>1, <2>1, <2>2, AgentNew
       DEF Agent!RowType, Agent!Ask, Agent!Receive, Agent!At, Agent!NewMemory, row
  <2> HIDE DEF h
  <2>4. Agent(s)!Alone(h)
    BY <2>2, <2>3 DEF Agent!Alone, Agent!WriteSound, Agent!Registries
  <2> QED BY <2>3, <2>4, AgentAsks
<1>7. CASE Agent(s)!Cancel(w)
  <2>1. PICK x \in Agent(s)!Ids(e) :
          /\ Agent(s)!InStatus(e, x, {"QUEUED", "RUNNING"})
          /\ Agent(s)!Ask(w, <<Agent(s)!PutExecution(x, [db.agentExecutions[x] EXCEPT !.status = "CANCELLED"])>>)
    BY <1>7 DEF Agent!Cancel
  <2> DEFINE o == db[e][x]
             row == [o EXCEPT !.status = "CANCELLED"]
             h == Agent(s)!Put(e, x, row)
  <2>2. /\ x \in DOMAIN db[e] /\ o \in Agent(s)!AgentExecution
        /\ o.capability \in Agent(s)!Ids("agentCapabilities")
    BY <1>1, <2>1 DEF Agent!RowType, Agent!Ids, Agent!RowsSound
  <2>3. row \in Agent(s)!AgentExecution /\ row.status = "CANCELLED" /\ row.capability = o.capability
    <3> HIDE DEF o
    <3> QED BY <2>2 DEF Agent!AgentExecution
  <2> HIDE DEF row
  <2>4. /\ Agent(s)!WriteTyped(h, Agent(s)!RowType) /\ h.op = "replace" /\ h.c = e /\ h.id = x /\ h.row = row
        /\ Agent(s)!Ask(w, <<h>>) /\ job[w].at = "idle"
    BY <1>1, <2>1, <2>2, <2>3, AgentPut
       DEF Agent!RowType, Agent!Ask, Agent!Receive, Agent!At, Agent!PutExecution, row
  <2> HIDE DEF h
  <2>5. Agent(s)!Alone(h)
    BY <2>2, <2>3, <2>4 DEF Agent!Alone, Agent!WriteSound, Agent!Registries
  <2> QED BY <2>4, <2>5, AgentAsks
<1> QED BY <1>2, <1>3, <1>4, <1>5, <1>6, <1>7 DEF Agent!Approve

(* What is in force is read, and another put in its place.                 *)
LEMMA AgentReads ==
  ASSUME NEW s \in AgentScenes, Agent(s)!IInv, NEW w \in Cast[s].workers,
         Agent(s)!ReadActiveAgents(w) \/ Agent(s)!ReadPublished(w)
  PROVE  AgentMoves(s, w)
<1> DEFINE a == "registeredAgents"
           p == "promptVersions"
           x == job[w].id
<1> USE DEF Agent!Attempting
<1>1. /\ Agent(s)!JobSound(job[w]) /\ Agent(s)!RowsSound
      /\ a \in AgentTables /\ p \in AgentTables /\ a \in Agent(s)!Registries /\ p \in Agent(s)!Registries
      /\ \A c \in AgentTables : /\ DOMAIN db[c] = 1..Len(db[c]) /\ Len(db[c]) \in Nat
                                /\ \A y \in DOMAIN db[c] : db[c][y] \in Agent(s)!RowType[c] /\ y \in Nat
  BY AgentTyped DEF Agent!IInv, AgentTables, Agent!Registries
<1>2. CASE Agent(s)!ReadActiveAgents(w)
  <2>1. PICK q \in Agent(s)!Listing(Agent(s)!Active(a)) :
          Agent(s)!Decide(w, [n \in DOMAIN q |-> Agent(s)!PutAgent(q[n], FALSE)]
                               \o <<Agent(s)!PutAgent(job[w].id, TRUE)>>)
    BY <1>2 DEF Agent!ReadActiveAgents
  <2>2. job[w].at = "activeAgents" /\ x \in DOMAIN db[a]
    BY <1>1, <1>2 DEF Agent!ReadActiveAgents, Agent!At, Agent!JobSound, Agent!Ids
  <2>3. ASSUME NEW y \in DOMAIN db[a], NEW v \in BOOLEAN
        PROVE  /\ Agent(s)!WriteSound(Agent(s)!PutAgent(y, v)) /\ Agent(s)!PutAgent(y, v).op = "replace"
               /\ Agent(s)!PutAgent(y, v).c = a /\ Agent(s)!PutAgent(y, v).row.active = v
    <3> DEFINE o == db[a][y]
               row == [o EXCEPT !.active = v]
               h == Agent(s)!Put(a, y, row)
    <3>1. o \in Agent(s)!RegisteredAgent /\ o.version = y
      BY <1>1 DEF Agent!RowType, Agent!RowsSound, Agent!Ids
    <3>2. row \in Agent(s)!RegisteredAgent /\ row.version = o.version /\ row.active = v
      <4> HIDE DEF o
      <4> QED BY <3>1 DEF Agent!RegisteredAgent
    <3> HIDE DEF row
    <3>3. /\ Agent(s)!WriteTyped(h, Agent(s)!RowType) /\ h.op = "replace" /\ h.c = a /\ h.id = y /\ h.row = row
      BY <1>1, <3>2, AgentPut DEF Agent!RowType
    <3>4. h = Agent(s)!PutAgent(y, v)
      BY DEF Agent!PutAgent, row
    <3> HIDE DEF h
    <3>5. Agent(s)!WriteSound(h)
      BY <3>1, <3>2, <3>3 DEF Agent!WriteSound, Agent!Registries
    <3> QED BY <3>2, <3>3, <3>4, <3>5
  <2> DEFINE f == [n \in DOMAIN q |-> Agent(s)!PutAgent(q[n], FALSE)]
             g == Agent(s)!PutAgent(x, TRUE)
  <2>6. Agent(s)!WriteSound(g) /\ g.c = a /\ g.op = "replace" /\ g.row.active
    BY <2>2, <2>3
  <2>4. Agent(s)!Alone(g) /\ g.c = a /\ Agent(s)!Decide(w, f \o <<g>>) /\ f = [n \in DOMAIN q |-> f[n]]
    <3>1. Agent(s)!Alone(g)
      <4> HIDE DEF g
      <4> QED BY <2>6 DEF Agent!Alone
    <3> QED BY <2>1, <2>6, <3>1
  <2>5. 1 \in DOMAIN q /\ q[1] \in AgentLive(db, a) => Agent(s)!Before(f[1], g)
    <3>1. 1 \in DOMAIN q => f[1] = Agent(s)!PutAgent(q[1], FALSE)
      OBVIOUS
    <3> HIDE DEF f, g
    <3> QED BY <2>3, <2>4, <2>6, <3>1 DEF Agent!Before, AgentLive
  <2> HIDE DEF f, g
  <2> QED BY <1>1, <2>2, <2>4, <2>5, AgentLists
<1>3. CASE Agent(s)!ReadPublished(w)
  <2>1. PICK q \in Agent(s)!Listing(Agent(s)!Active(p)) :
          Agent(s)!Decide(w, [n \in DOMAIN q |-> Agent(s)!PutPrompt(q[n], "RETIRED")]
                               \o <<Agent(s)!PutPrompt(job[w].id, "PUBLISHED")>>)
    BY <1>3 DEF Agent!ReadPublished
  <2>2. job[w].at = "published" /\ x \in DOMAIN db[p]
    BY <1>1, <1>3 DEF Agent!ReadPublished, Agent!At, Agent!JobSound, Agent!Ids
  <2>3. ASSUME NEW y \in DOMAIN db[p], NEW v \in {"RETIRED", "PUBLISHED"}
        PROVE  LET h == Agent(s)!PutPrompt(y, v)
               IN /\ Agent(s)!WriteTyped(h, Agent(s)!RowType) /\ h.op = "replace" /\ h.c = p /\ h.id = y
                  /\ h.row.version = y /\ h.row.status = v
    <3> DEFINE o == db[p][y]
               row == [o EXCEPT !.status = v]
               h == Agent(s)!Put(p, y, row)
    <3>1. o \in Agent(s)!PromptVersion /\ o.version = y
      BY <1>1 DEF Agent!RowType, Agent!RowsSound, Agent!Ids
    <3>2. row \in Agent(s)!PromptVersion /\ row.version = o.version /\ row.status = v
      <4> HIDE DEF o
      <4> QED BY <3>1 DEF Agent!PromptVersion
    <3> HIDE DEF row
    <3>3. /\ Agent(s)!WriteTyped(h, Agent(s)!RowType) /\ h.op = "replace" /\ h.c = p /\ h.id = y /\ h.row = row
      BY <1>1, <3>2, AgentPut DEF Agent!RowType
    <3>4. h = Agent(s)!PutPrompt(y, v)
      BY DEF Agent!PutPrompt, Agent!Set, row
    <3> QED BY <3>1, <3>2, <3>3, <3>4
  <2> DEFINE f == [n \in DOMAIN q |-> Agent(s)!PutPrompt(q[n], "RETIRED")]
             g == Agent(s)!PutPrompt(x, "PUBLISHED")
  <2>4. Agent(s)!Decide(w, f \o <<g>>) /\ f = [n \in DOMAIN q |-> f[n]]
    BY <2>1
  <2>5. /\ Agent(s)!WriteTyped(g, Agent(s)!RowType) /\ g.op = "replace" /\ g.c = p /\ g.id = x
        /\ g.row.version = x /\ g.row.status = "PUBLISHED"
    BY <2>2, <2>3
  <2> HIDE DEF g
  <2>6. Agent(s)!Alone(g)
    BY <2>5 DEF Agent!Alone, Agent!WriteSound, Agent!Registries
  <2>7. ASSUME 1 \in DOMAIN q, q[1] \in AgentLive(db, p) PROVE Agent(s)!Before(f[1], g)
    <3> DEFINE h == Agent(s)!PutPrompt(q[1], "RETIRED")
    <3>1. f[1] = h
      BY <2>7
    <3> HIDE DEF f
    <3>2. /\ Agent(s)!WriteTyped(h, Agent(s)!RowType) /\ h.op = "replace" /\ h.c = p /\ h.id = q[1]
          /\ h.row.version = q[1] /\ h.row.status = "RETIRED"
      BY <2>3, <2>7 DEF AgentLive
    <3> HIDE DEF h
    <3>3. ~Agent(s)!InStatus(p, h.id, {"DRAFT"})
      BY <2>7, <3>2 DEF AgentLive, Agent!InStatus
    <3>4. Agent(s)!WriteSound(h)
      BY <3>2, <3>3 DEF Agent!WriteSound, Agent!Registries
    <3> QED BY <2>5, <2>6, <3>1, <3>2, <3>4 DEF Agent!Before
  <2> HIDE DEF f
  <2> QED BY <1>1, <2>2, <2>4, <2>6, <2>7, AgentLists
<1> QED BY <1>2, <1>3

(* An execution until it is queued, and wherever it makes no write.        *)
LEMMA AgentExecutes ==
  ASSUME NEW s \in AgentScenes, Agent(s)!IInv, NEW w \in Cast[s].workers,
         \/ Agent(s)!Execute(w) \/ Agent(s)!ReadCapability(w) \/ Agent(s)!Authorize(w) \/ Agent(s)!Render(w)
         \/ Agent(s)!Recall(w) \/ Agent(s)!Answer(w) \/ Agent(s)!Throw(w) \/ Agent(s)!Fail(w)
  PROVE  AgentMoves(s, w)
<1> DEFINE k == "agentCapabilities"
           e == "agentExecutions"
           t == "agentTelemetry"
           i == job[w]
<1>1. /\ Agent(s)!JobSound(i) /\ Agent(s)!RowsSound
      /\ k \in AgentTables /\ e \in AgentTables /\ t \in AgentTables /\ "promptVersions" \in AgentTables
      /\ \A c \in AgentTables : /\ DOMAIN db[c] = 1..Len(db[c]) /\ Len(db[c]) \in Nat
                                /\ \A x \in DOMAIN db[c] : db[c][x] \in Agent(s)!RowType[c] /\ x \in Nat
  BY AgentTyped DEF Agent!IInv, AgentTables
<1>2. CASE Agent(s)!Execute(w)
  <2>1. PICK x \in Agent(s)!Ids("registeredAgents"), c \in Agent(s)!Ids(k), n \in 1..Cast[s].attempts :
          /\ db.registeredAgents[x].active
          /\ Agent(s)!Ids("agentContextSnapshots") # {}
          /\ Agent(s)!Look(w, [at |-> "capability", capability |-> c, left |-> n, errors |-> 0])
    BY <1>2 DEF Agent!Execute
  <2> DEFINE j == [at |-> "capability", capability |-> c, left |-> n, errors |-> 0]
  <2>2. /\ job' = [job EXCEPT ![w] = j] /\ UNCHANGED db /\ i.at = "idle"
        /\ j.at = "capability" /\ j.capability = c /\ j.errors = 0 /\ {"at", "capability", "errors"} \subseteq DOMAIN j
    BY <2>1 DEF Agent!Look, Agent!Receive, Agent!Carry, Agent!At
  <2> HIDE DEF j
  <2>3. Agent(s)!JobSound(j) /\ j.at \notin Agent(s)!Early
    BY <2>1, <2>2 DEF Agent!JobSound, Agent!Asked, Agent!Executing, Agent!Early, Agent!Attempting
  <2> QED BY <2>2, <2>3, AgentStarts DEF Agent!Attempting
<1>3. CASE Agent(s)!ReadCapability(w)
  <2>1. i.at = "capability" /\ (Agent(s)!Then(w, Agent(s)!Step(w, "policy")) \/ Agent(s)!GiveUp(w))
    BY <1>3 DEF Agent!ReadCapability, Agent!At
  <2>2. CASE Agent(s)!Then(w, Agent(s)!Step(w, "policy"))
    <3> DEFINE j == [i EXCEPT !.at = "policy"]
    <3>1. job' = [job EXCEPT ![w] = j] /\ UNCHANGED db
      BY <2>2 DEF Agent!Then, Agent!Carry, Agent!Step
    <3>2. AgentGoesOn(s, i, "policy")
      BY <1>1, <2>1 DEF AgentGoesOn, Agent!Asked
    <3>3. Agent(s)!JobSound(j) /\ j.at = "policy"
      BY <3>2, AgentSteps
    <3> HIDE DEF j
    <3> QED BY <2>1, <3>1, <3>3, AgentStarts DEF Agent!Attempting, Agent!Early
  <2>3. CASE Agent(s)!GiveUp(w)
    BY <2>1, <2>3, AgentGivesUp DEF Agent!Attempting
  <2> QED BY <2>1, <2>2, <2>3
<1>4. CASE Agent(s)!Authorize(w)
  <2>1. i.at = "policy" /\ (Agent(s)!Then(w, Agent(s)!Step(w, "render")) \/ Agent(s)!GiveUp(w))
    BY <1>4 DEF Agent!Authorize, Agent!At
  <2>2. CASE Agent(s)!Then(w, Agent(s)!Step(w, "render"))
    <3> DEFINE j == [i EXCEPT !.at = "render"]
    <3>1. job' = [job EXCEPT ![w] = j] /\ UNCHANGED db
      BY <2>2 DEF Agent!Then, Agent!Carry, Agent!Step
    <3>2. AgentGoesOn(s, i, "render")
      BY <1>1, <2>1 DEF AgentGoesOn, Agent!Asked
    <3>3. Agent(s)!JobSound(j) /\ j.at = "render"
      BY <3>2, AgentSteps
    <3> HIDE DEF j
    <3> QED BY <2>1, <3>1, <3>3, AgentStarts DEF Agent!Attempting, Agent!Early
  <2>3. CASE Agent(s)!GiveUp(w)
    BY <2>1, <2>3, AgentGivesUp DEF Agent!Attempting
  <2> QED BY <2>1, <2>2, <2>3
<1>5. CASE Agent(s)!Render(w)
  <2>1. i.at = "render"
    BY <1>5 DEF Agent!Render, Agent!At
  <2>2. CASE Agent(s)!GiveUp(w)
    BY <2>1, <2>2, AgentGivesUp DEF Agent!Attempting
  <2>3. ASSUME NEW p \in Agent(s)!Active("promptVersions"),
               Agent(s)!Then(w, [at |-> "queue", capability |-> i.capability, prompt |-> p,
                                 left |-> i.left, errors |-> 0])
        PROVE  AgentMoves(s, w)
    <3> DEFINE j == [at |-> "queue", capability |-> i.capability, prompt |-> p, left |-> i.left, errors |-> 0]
    <3>1. /\ job' = [job EXCEPT ![w] = j] /\ UNCHANGED db
          /\ j.at = "queue" /\ j.capability = i.capability /\ j.errors = 0 /\ j.prompt = p
          /\ {"at", "capability", "errors"} \subseteq DOMAIN j
      BY <2>3 DEF Agent!Then, Agent!Carry
    <3> HIDE DEF j
    <3>2. p \in Nat /\ i.capability \in Agent(s)!Ids(k)
      BY <1>1, <2>1, AgentLiving DEF AgentLive, Agent!JobSound, Agent!Asked
    <3>3. Agent(s)!JobSound(j) /\ j.at \notin Agent(s)!Early
      BY <3>1, <3>2 DEF Agent!JobSound, Agent!Asked, Agent!Executing, Agent!Early, Agent!Attempting
    <3> QED BY <2>1, <3>1, <3>3, AgentStarts DEF Agent!Attempting
  <2> QED BY <1>5, <2>2, <2>3 DEF Agent!Render
<1>6. CASE Agent(s)!Recall(w)
  <2> DEFINE l == IF i.at = "user" THEN "userEntry" ELSE "resultEntry"
             y == Agent(s)!Entry(i.id)
             j == [at |-> l, id |-> i.id, capability |-> i.capability, prompt |-> i.prompt, left |-> i.left,
                   errors |-> i.errors, entry |-> y]
  <2>1. (i.at = "user" /\ l = "userEntry") \/ (i.at = "result" /\ l = "resultEntry")
    BY <1>6 DEF Agent!Recall, Agent!At
  <2>2. job' = [job EXCEPT ![w] = j] /\ UNCHANGED db
    BY <1>6 DEF Agent!Recall, Agent!At, Agent!Then, Agent!Carry
  <2>3. /\ i.capability \in Agent(s)!Ids(k) /\ i.errors \in Nat /\ i.prompt \in Nat
        /\ i.id \in Agent(s)!Ids(e) /\ db.agentExecutions[i.id].capability = i.capability
    BY <1>1, <2>1 DEF Agent!JobSound, Agent!Executing, Agent!Early, Agent!Attempting
  <2>4. y \in Agent(s)!MemoryEntry /\ Agent(s)!Placed(y)
    BY <2>3, AgentEntry DEF Agent!Ids
  <2> HIDE DEF l, y
  <2>5. /\ j.at = l /\ j.id = i.id /\ j.capability = i.capability /\ j.prompt = i.prompt /\ j.errors = i.errors
        /\ j.entry = y /\ {"at", "capability", "errors"} \subseteq DOMAIN j /\ {"id", "prompt"} \subseteq DOMAIN j
    OBVIOUS
  <2> HIDE DEF j
  <2>6. Agent(s)!JobSound(j)
    BY <2>1, <2>3, <2>4, <2>5 DEF Agent!JobSound, Agent!Asked, Agent!Executing, Agent!Early, Agent!Attempting
  <2>7. \A x : Agent(s)!Owes(i, x) => Agent(s)!Owes(j, x)
    BY <2>1, <2>5 DEF Agent!Owes, Agent!Attempting
  <2>8. i.at # "write" /\ (j.at \in Agent(s)!Early => i.at \in Agent(s)!Early /\ j.id = i.id)
    BY <2>1, <2>5 DEF Agent!Early
  <2> QED BY <2>2, <2>6, <2>7, <2>8 DEF AgentMoves
<1>7. CASE Agent(s)!Answer(w)
  <2> DEFINE l == IF Agent(s)!Deterministic(i.capability) THEN "call" ELSE "succeed"
             j == [i EXCEPT !.at = l]
  <2>1. i.at = "invoke" /\ job' = [job EXCEPT ![w] = j] /\ UNCHANGED db
    BY <1>7 DEF Agent!Answer, Agent!At, Agent!Then, Agent!Carry, Agent!Step
  <2>2. l \in {"call", "succeed"} /\ (l = "call" => ~db[k][i.capability].protected)
    BY <1>1, <2>1 DEF Agent!JobSound, Agent!Deterministic, Agent!Executing, Agent!Attempting, Agent!RowsSound
  <2> HIDE DEF l
  <2>3. Agent(s)!JobSound(j) /\ j.at = l /\ j.id = i.id
    <3>1. AgentGoesOn(s, i, l) /\ i.at \in Agent(s)!Executing
      BY <1>1, <2>1, <2>2 DEF AgentGoesOn, Agent!Executing, Agent!Early, Agent!Attempting
    <3> QED BY <3>1, AgentSteps
  <2> HIDE DEF j
  <2>4. \A x : Agent(s)!Owes(i, x) => Agent(s)!Owes(j, x)
    BY <2>1, <2>2, <2>3 DEF Agent!Owes, Agent!Attempting
  <2>5. i.at # "write" /\ j.at \notin Agent(s)!Early
    BY <2>1, <2>2, <2>3 DEF Agent!Early
  <2> QED BY <2>1, <2>3, <2>4, <2>5 DEF AgentMoves
<1>8. CASE Agent(s)!Throw(w)
  <2> DEFINE rest == [i EXCEPT !.left = @ - 1, !.errors = @ + 1]
             l == IF i.left > 1 THEN "invoke" ELSE "fail"
             j == [rest EXCEPT !.at = l]
  <2>1. i.at \in Agent(s)!Attempting /\ job' = [job EXCEPT ![w] = j] /\ UNCHANGED db
    BY <1>8 DEF Agent!Throw, Agent!Then, Agent!Carry
  <2>2. l \in {"invoke", "fail"}
    OBVIOUS
  <2>3. /\ {"at", "capability", "errors"} \subseteq DOMAIN i /\ {"id", "prompt"} \subseteq DOMAIN i
        /\ i.capability \in Agent(s)!Ids(k) /\ i.errors \in Nat /\ i.prompt \in Nat
        /\ i.id \in Agent(s)!Ids(e) /\ db.agentExecutions[i.id].capability = i.capability
    BY <1>1, <2>1 DEF Agent!JobSound, Agent!Executing
  <2> HIDE DEF l
  <2>4. /\ DOMAIN rest = DOMAIN i /\ rest.errors = i.errors + 1
        /\ rest.capability = i.capability /\ rest.id = i.id /\ rest.prompt = i.prompt
    BY <2>3
  <2> HIDE DEF rest
  <2>5. /\ DOMAIN j = DOMAIN i /\ j.at = l /\ j.errors = i.errors + 1
        /\ j.capability = i.capability /\ j.id = i.id /\ j.prompt = i.prompt
    BY <2>3, <2>4
  <2> HIDE DEF j
  <2>6. j.errors \in Nat
    BY <2>3, <2>5
  <2>7. Agent(s)!JobSound(j)
    BY <2>2, <2>3, <2>5, <2>6 DEF Agent!JobSound, Agent!Asked, Agent!Executing, Agent!Early, Agent!Attempting
  <2>8. \A x : Agent(s)!Owes(i, x) => Agent(s)!Owes(j, x)
    BY <2>1, <2>2, <2>5 DEF Agent!Owes, Agent!Attempting
  <2>9. i.at # "write" /\ j.at \notin Agent(s)!Early
    BY <2>1, <2>2, <2>5 DEF Agent!Early, Agent!Attempting
  <2> QED BY <2>1, <2>7, <2>8, <2>9 DEF AgentMoves
<1>9. CASE Agent(s)!Fail(w)
  <2> DEFINE row == Agent(s)!Execution(w, "FAILED")
             h == Agent(s)!Put(e, i.id, row)
             u == [execution |-> i.id, errors |-> i.errors]
             g == Agent(s)!New(t, u)
  <2>1. i.at = "fail" /\ Agent(s)!Decide(w, <<h, g>>)
    BY <1>9 DEF Agent!Fail, Agent!At, Agent!PutExecution, Agent!NewTelemetry
  <2>2. /\ i.capability \in Agent(s)!Ids(k) /\ i.errors \in Nat /\ i.prompt \in Nat
        /\ i.id \in Agent(s)!Ids(e) /\ db.agentExecutions[i.id].capability = i.capability
    BY <1>1, <2>1 DEF Agent!JobSound, Agent!Executing
  <2>3. i.capability \in Nat /\ i.id \in Nat /\ i.id \in DOMAIN db[e]
    BY <1>1, <2>2 DEF Agent!Ids
  <2>4. row \in Agent(s)!AgentExecution /\ row.capability = i.capability
    BY <2>2, <2>3 DEF Agent!Execution, Agent!AgentExecution
  <2>5. u \in Agent(s)!TelemetryRecord /\ u.execution = i.id
    BY <2>2, <2>3 DEF Agent!TelemetryRecord
  <2> HIDE DEF row, u
  <2>6. /\ Agent(s)!WriteTyped(h, Agent(s)!RowType) /\ h.op = "replace" /\ h.c = e /\ h.id = i.id /\ h.row = row
    BY <1>1, <2>3, <2>4, AgentPut DEF Agent!RowType
  <2>7. Agent(s)!WriteTyped(g, Agent(s)!RowType) /\ g.op = "append" /\ g.c = t /\ g.row = u
    BY <1>1, <2>5, AgentNew DEF Agent!RowType
  <2> HIDE DEF h, g
  <2>8. Agent(s)!Alone(g)
    BY <2>7 DEF Agent!Alone, Agent!WriteSound, Agent!Registries
  <2>9. Agent(s)!Before(h, g)
    BY <2>2, <2>4, <2>5, <2>6, <2>7, <2>8 DEF Agent!Before, Agent!WriteSound, Agent!Registries
  <2>10. \A x : Agent(s)!Owes(i, x) => g.c = t /\ g.row.execution = x
    BY <2>1, <2>5, <2>7 DEF Agent!Owes
  <2> HIDE DEF i
  <2>11. job[w].at # "write"
    BY <2>1 DEF i
  <2>12. \A x : Agent(s)!Owes(job[w], x) => g.c = "agentTelemetry" /\ g.row.execution = x
    BY <2>10 DEF i
  <2> QED BY <2>1, <2>9, <2>11, <2>12, AgentAsksTwo
<1> QED BY <1>2, <1>3, <1>4, <1>5, <1>6, <1>7, <1>8, <1>9

(* A request that executes makes a write in the middle.                    *)
LEMMA AgentAdmitted ==
  ASSUME NEW s \in AgentScenes, NEW h, h.c \in {"agentExecutions", "agentTelemetry", "capabilityCalls"}
  PROVE  Agent(s)!Admits(h)
  BY DEF Agent!Admits, Agent!OneActive, Agent!KeyFree, Agent!StaysOff, Agent!Final, Agent!Registries

LEMMA AgentDoes ==
  ASSUME NEW s \in AgentScenes, Agent(s)!IInv, NEW w, NEW h, NEW j,
         Agent(s)!WriteSound(h), Agent(s)!Admits(h), Agent(s)!JobSound(j),
         db' = Agent(s)!Written(h), job' = [job EXCEPT ![w] = j], job[w].at # "write",
         Agent(s)!Alone(h) \/ h.c = "agentExecutions",
         \A x : Agent(s)!Owes(job[w], x) =>
                  Agent(s)!Owes(j, x) \/ (h.c = "agentTelemetry" /\ h.row.execution = x),
         AgentEnds(h) => h.op = "replace" /\ Agent(s)!Owes(j, h.id),
         j.at \in Agent(s)!Early => h.c = "agentExecutions" /\ Place(db, h) = j.id /\ ~AgentEnds(h)
  PROVE  AgentWrites(s, w)
<1>1. Agent(s)!JobSound(j)'
  BY AgentWritten, AgentGrown
<1> QED BY <1>1 DEF AgentWrites

LEMMA AgentQueues ==
  ASSUME NEW s \in AgentScenes, Agent(s)!IInv, NEW w \in Cast[s].workers, Agent(s)!Queue(w)
  PROVE  AgentMoves(s, w) \/ AgentWrites(s, w)
<1> DEFINE k == "agentCapabilities"
           e == "agentExecutions"
           i == job[w]
           row == Agent(s)!Execution(w, "QUEUED")
           h == Agent(s)!New(e, row)
           n == Len(db[e]) + 1
           J == [at |-> "run", id |-> n, capability |-> i.capability, prompt |-> i.prompt,
                 left |-> i.left, errors |-> 0]
<1>1. /\ Agent(s)!JobSound(i) /\ i.at = "queue" /\ k \in AgentTables /\ e \in AgentTables
      /\ \A c \in AgentTables : DOMAIN db[c] = 1..Len(db[c]) /\ Len(db[c]) \in Nat
  BY AgentTyped DEF Agent!IInv, AgentTables, Agent!Queue, Agent!At
<1>2. /\ i.capability \in DOMAIN db[k] /\ i.capability \in Nat /\ i.prompt \in Nat
  BY <1>1 DEF Agent!JobSound, Agent!Asked, Agent!Ids
<1>3. row \in Agent(s)!AgentExecution /\ row.capability = i.capability /\ row.status = "QUEUED"
  BY <1>2 DEF Agent!Execution, Agent!AgentExecution
<1>4. CASE Agent(s)!GiveUp(w)
  BY <1>1, <1>4, AgentGivesUp DEF Agent!Attempting
<1>5. CASE Agent(s)!Does(w, h, J)
  <2>0. PICK j : j = J
    OBVIOUS
  <2>1. /\ db' = Agent(s)!Written(h) /\ job' = [job EXCEPT ![w] = j]
    BY <1>5, <2>0 DEF Agent!Does, Agent!Carry
  <2>2. /\ j.at = "run" /\ j.id = n /\ j.capability = i.capability /\ j.prompt = i.prompt /\ j.errors = 0
        /\ {"at", "capability", "errors"} \subseteq DOMAIN j /\ {"id", "prompt"} \subseteq DOMAIN j
    BY <2>0
  <2> HIDE DEF row
  <2>3. Agent(s)!WriteTyped(h, Agent(s)!RowType) /\ h.op = "append" /\ h.c = e /\ h.row = row
    BY <1>1, <1>3, AgentNew DEF Agent!RowType
  <2> HIDE DEF h
  <2>4. Agent(s)!WriteSound(h)
    BY <1>2, <1>3, <2>3 DEF Agent!WriteSound, Agent!Registries, Agent!Ids
  <2>5. Agent(s)!Admits(h)
    BY <2>3, AgentAdmitted
  <2>6. /\ n \in DOMAIN db'[e] /\ db'[e][n] = row /\ i.capability \in DOMAIN db'[k] /\ Place(db, h) = n
    <3>1. Lands(db, db', h) /\ Keeps(db, db', h) /\ k \in DOMAIN db
      BY <1>1, <2>1, <2>4, AgentLands, AgentTyped DEF Agent!IInv
    <3> QED BY <1>2, <2>3, <3>1 DEF Lands, Keeps, Place
  <2> HIDE DEF n
  <2>7. Agent(s)!JobSound(j)'
    BY <1>2, <1>3, <2>2, <2>6 DEF Agent!JobSound, Agent!Asked, Agent!Executing, Agent!Early, Agent!Attempting, Agent!Ids
  <2>8. ~AgentEnds(h) /\ \A x : ~Agent(s)!Owes(i, x)
    BY <1>1, <1>3, <2>3 DEF AgentEnds, Agent!Owes, Agent!Attempting
  <2> QED BY <1>1, <2>1, <2>2, <2>3, <2>4, <2>5, <2>6, <2>7, <2>8 DEF AgentWrites
<1> QED BY <1>4, <1>5 DEF Agent!Queue

(* The rows that a running execution writes.                               *)
LEMMA AgentPuts ==
  ASSUME NEW s \in AgentScenes, Agent(s)!IInv, NEW w \in Cast[s].workers, job[w].at \in Agent(s)!Executing,
         NEW st \in {"RUNNING", "SUCCEEDED"}
  PROVE  LET h == Agent(s)!PutExecution(job[w].id, Agent(s)!Execution(w, st))
         IN /\ Agent(s)!WriteSound(h) /\ Agent(s)!Admits(h) /\ h.c = "agentExecutions"
            /\ h.op = "replace" /\ h.id = job[w].id /\ h.row.status = st
<1> DEFINE e == "agentExecutions"
           i == job[w]
           row == Agent(s)!Execution(w, st)
           h == Agent(s)!Put(e, i.id, row)
<1>1. /\ i.capability \in Agent(s)!Ids("agentCapabilities") /\ i.prompt \in Nat
      /\ i.id \in DOMAIN db[e] /\ db[e][i.id].capability = i.capability
  BY DEF Agent!IInv, Agent!JobSound, Agent!Ids
<1>2. e \in AgentTables /\ i.capability \in Nat
  BY <1>1, AgentTyped DEF Agent!IInv, Agent!Ids, AgentTables
<1>3. row \in Agent(s)!AgentExecution /\ row.capability = i.capability /\ row.status = st
  BY <1>1, <1>2 DEF Agent!Execution, Agent!AgentExecution
<1>4. h = Agent(s)!PutExecution(job[w].id, Agent(s)!Execution(w, st))
  BY DEF Agent!PutExecution
<1> HIDE DEF row
<1>5. /\ Agent(s)!WriteTyped(h, Agent(s)!RowType) /\ h.op = "replace" /\ h.c = e /\ h.id = i.id /\ h.row = row
  BY <1>1, <1>2, <1>3, AgentPut DEF Agent!RowType
<1> HIDE DEF h
<1>6. Agent(s)!WriteSound(h)
  BY <1>1, <1>3, <1>5 DEF Agent!WriteSound, Agent!Registries
<1> QED BY <1>3, <1>4, <1>5, <1>6, AgentAdmitted

LEMMA AgentProceeds ==
  ASSUME NEW s \in AgentScenes, Agent(s)!IInv, NEW w \in Cast[s].workers,
         \/ Agent(s)!Run(w) \/ Agent(s)!Begin(w) \/ Agent(s)!Call(w) \/ Agent(s)!Succeed(w)
         \/ Agent(s)!Conclude(w) \/ Agent(s)!Measure(w)
  PROVE  AgentMoves(s, w) \/ AgentWrites(s, w)
<1> DEFINE a == "agentMemory"
           e == "agentExecutions"
           c == "capabilityCalls"
           t == "agentTelemetry"
           i == job[w]
<1>1. Agent(s)!JobSound(i) /\ a \in AgentTables /\ e \in AgentTables /\ c \in AgentTables /\ t \in AgentTables
  BY DEF Agent!IInv, AgentTables
<1>2. ASSUME NEW l \in {"user", "invoke", "succeed", "result", "measure"}, i.at \in Agent(s)!Executing
      PROVE  LET j == Agent(s)!Step(w, l)
             IN Agent(s)!JobSound(j) /\ j.at = l /\ j.id = i.id
  <2>1. AgentGoesOn(s, i, l)
    BY <1>1, <1>2 DEF AgentGoesOn, Agent!Executing, Agent!Early, Agent!Attempting
  <2> QED BY <1>2, <2>1, AgentSteps DEF Agent!Step
<1>3. CASE Agent(s)!Run(w)
  <2> DEFINE h == Agent(s)!PutExecution(i.id, Agent(s)!Execution(w, "RUNNING"))
             j == Agent(s)!Step(w, "user")
  <2>1. i.at = "run" /\ db' = Agent(s)!Written(h) /\ job' = [job EXCEPT ![w] = j]
    BY <1>3 DEF Agent!Run, Agent!At, Agent!Does, Agent!Carry
  <2>2. i.at \in Agent(s)!Executing
    BY <2>1 DEF Agent!Executing, Agent!Early
  <2>3. Agent(s)!JobSound(j) /\ j.at = "user" /\ j.id = i.id
    BY <1>2, <2>2
  <2>4. /\ Agent(s)!WriteSound(h) /\ Agent(s)!Admits(h) /\ h.c = e
        /\ h.op = "replace" /\ h.id = i.id /\ h.row.status = "RUNNING"
    BY <2>2, AgentPuts
  <2> HIDE DEF h, j
  <2>5. /\ \A x : ~Agent(s)!Owes(i, x) 
        /\ ~AgentEnds(h) /\ Place(db, h) = j.id /\ i.at # "write"
    BY <2>1, <2>3, <2>4 DEF Agent!Owes, Agent!Attempting, AgentEnds, Place
  <2> QED BY <2>1, <2>3, <2>4, <2>5, AgentDoes
<1>4. CASE Agent(s)!Succeed(w)
  <2> DEFINE h == Agent(s)!PutExecution(i.id, Agent(s)!Execution(w, "SUCCEEDED"))
             j == Agent(s)!Step(w, "result")
  <2>1. i.at = "succeed" /\ db' = Agent(s)!Written(h) /\ job' = [job EXCEPT ![w] = j]
    BY <1>4 DEF Agent!Succeed, Agent!At, Agent!Does, Agent!Carry
  <2>2. i.at \in Agent(s)!Executing
    BY <2>1 DEF Agent!Executing, Agent!Attempting
  <2>3. Agent(s)!JobSound(j) /\ j.at = "result" /\ j.id = i.id
    BY <1>2, <2>2
  <2>4. /\ Agent(s)!WriteSound(h) /\ Agent(s)!Admits(h) /\ h.c = e
        /\ h.op = "replace" /\ h.id = i.id /\ h.row.status = "SUCCEEDED"
    BY <2>2, AgentPuts
  <2> HIDE DEF h, j
  <2>5. \A x : Agent(s)!Owes(i, x) => Agent(s)!Owes(j, x)
    BY <2>1, <2>3 DEF Agent!Owes, Agent!Attempting
  <2>6. Agent(s)!Owes(j, h.id) /\ j.at \notin Agent(s)!Early /\ i.at # "write"
    BY <2>1, <2>3, <2>4 DEF Agent!Owes, Agent!Attempting, Agent!Early
  <2> QED BY <2>1, <2>3, <2>4, <2>5, <2>6, AgentDoes
<1>5. ASSUME i.at \in {"userEntry", "resultEntry"}, NEW l \in {"invoke", "measure"}, l = "invoke" <=> i.at = "userEntry",
             Agent(s)!Admits(Agent(s)!NewMemory(i.entry)),
             Agent(s)!Does(w, Agent(s)!NewMemory(i.entry), Agent(s)!Step(w, l))
      PROVE  AgentWrites(s, w)
  <2> DEFINE h == Agent(s)!New(a, i.entry)
             j == Agent(s)!Step(w, l)
  <2>1. db' = Agent(s)!Written(h) /\ job' = [job EXCEPT ![w] = j] /\ Agent(s)!Admits(h)
    BY <1>5 DEF Agent!NewMemory, Agent!Does, Agent!Carry
  <2>2. i.at \in Agent(s)!Executing
    BY <1>5 DEF Agent!Executing, Agent!Attempting, Agent!Early
  <2>3. Agent(s)!JobSound(j) /\ j.at = l /\ j.id = i.id
    BY <1>2, <1>5, <2>2
  <2>4. i.entry \in Agent(s)!MemoryEntry /\ Agent(s)!Placed(i.entry)
    BY <1>1, <1>5 DEF Agent!JobSound
  <2>5. Agent(s)!WriteTyped(h, Agent(s)!RowType) /\ h.op = "append" /\ h.c = a /\ h.row = i.entry
    BY <1>1, <2>4, AgentNew DEF Agent!RowType
  <2> HIDE DEF h, j
  <2>6. Agent(s)!WriteSound(h) /\ Agent(s)!Alone(h)
    BY <2>4, <2>5 DEF Agent!Alone, Agent!WriteSound, Agent!Registries
  <2>7. \A x : Agent(s)!Owes(i, x) => Agent(s)!Owes(j, x)
    BY <1>5, <2>3 DEF Agent!Owes, Agent!Attempting
  <2>8. ~AgentEnds(h) /\ j.at \notin Agent(s)!Early /\ i.at # "write"
    BY <1>5, <2>3, <2>5 DEF AgentEnds, Agent!Early
  <2> QED BY <2>1, <2>3, <2>6, <2>7, <2>8, AgentDoes
<1>6. CASE Agent(s)!Begin(w)
  <2>1. CASE Agent(s)!GiveUp(w)
    BY <1>6, <2>1, AgentGivesUp DEF Agent!Attempting, Agent!Begin, Agent!At
  <2> QED BY <1>5, <1>6, <2>1 DEF Agent!Begin, Agent!At
<1>7. CASE Agent(s)!Conclude(w)
  BY <1>5, <1>7 DEF Agent!Conclude, Agent!At
<1>8. CASE Agent(s)!Call(w)
  <2> DEFINE u == [execution |-> i.id]
             h == Agent(s)!New(c, u)
             j == Agent(s)!Step(w, "succeed")
  <2>1. i.at = "call" /\ db' = Agent(s)!Written(h) /\ job' = [job EXCEPT ![w] = j]
    BY <1>8 DEF Agent!Call, Agent!At, Agent!Does, Agent!Carry
  <2>2. i.at \in Agent(s)!Executing
    BY <2>1 DEF Agent!Executing, Agent!Attempting
  <2>3. Agent(s)!JobSound(j) /\ j.at = "succeed" /\ j.id = i.id
    BY <1>2, <2>2
  <2>4. i.id \in DOMAIN db[e] /\ i.id \in Nat /\ Agent(s)!Unprotected(i.id)
    <3>1. /\ i.id \in Agent(s)!Ids(e) /\ db.agentExecutions[i.id].capability = i.capability
          /\ ~db.agentCapabilities[i.capability].protected
      BY <1>1, <2>1, <2>2 DEF Agent!JobSound
    <3> QED BY <1>1, <3>1, AgentTyped DEF Agent!IInv, Agent!Ids, Agent!Unprotected
  <2>5. u \in Agent(s)!RowType[c] /\ u.execution = i.id
    BY <2>4 DEF Agent!RowType
  <2> HIDE DEF u
  <2>6. Agent(s)!WriteTyped(h, Agent(s)!RowType) /\ h.op = "append" /\ h.c = c /\ h.row = u
    BY <1>1, <2>5, AgentNew
  <2> HIDE DEF h, j
  <2>7. Agent(s)!WriteSound(h) /\ Agent(s)!Alone(h) /\ Agent(s)!Admits(h)
    BY <2>4, <2>5, <2>6, AgentAdmitted DEF Agent!Alone, Agent!WriteSound, Agent!Registries
  <2>8. \A x : Agent(s)!Owes(i, x) => Agent(s)!Owes(j, x)
    BY <2>1, <2>3 DEF Agent!Owes, Agent!Attempting
  <2>9. ~AgentEnds(h) /\ j.at \notin Agent(s)!Early /\ i.at # "write"
    BY <2>1, <2>3, <2>6 DEF AgentEnds, Agent!Early
  <2> QED BY <2>1, <2>3, <2>7, <2>8, <2>9, AgentDoes
<1>9. CASE Agent(s)!Measure(w)
  <2> DEFINE u == [execution |-> i.id, errors |-> i.errors]
             h == Agent(s)!New(t, u)
             j == Agent(s)!Idle
  <2>1. i.at = "measure" /\ db' = Agent(s)!Written(h) /\ job' = [job EXCEPT ![w] = j] /\ j.at = "idle"
    BY <1>9 DEF Agent!Measure, Agent!At, Agent!Does, Agent!Carry, Agent!NewTelemetry, Agent!Idle
  <2>2. i.at \in Agent(s)!Executing
    BY <2>1 DEF Agent!Executing, Agent!Attempting
  <2>3. i.id \in Nat /\ i.errors \in Nat
    BY <1>1, <2>2, AgentTyped DEF Agent!IInv, Agent!JobSound, Agent!Ids
  <2>4. u \in Agent(s)!TelemetryRecord /\ u.execution = i.id
    BY <2>3 DEF Agent!TelemetryRecord
  <2> HIDE DEF u
  <2>5. Agent(s)!WriteTyped(h, Agent(s)!RowType) /\ h.op = "append" /\ h.c = t /\ h.row = u
    BY <1>1, <2>4, AgentNew DEF Agent!RowType
  <2> HIDE DEF h, j
  <2>6. Agent(s)!WriteSound(h) /\ Agent(s)!Alone(h) /\ Agent(s)!Admits(h)
    BY <2>5, AgentAdmitted DEF Agent!Alone, Agent!WriteSound, Agent!Registries
  <2>7. Agent(s)!JobSound(j)
    BY <2>1 DEF Agent!JobSound, Agent!Asked, Agent!Executing, Agent!Early, Agent!Attempting
  <2>8. \A x : Agent(s)!Owes(i, x) => h.c = t /\ h.row.execution = x
    BY <2>1, <2>4, <2>5 DEF Agent!Owes
  <2>9. ~AgentEnds(h) /\ j.at \notin Agent(s)!Early /\ i.at # "write"
    BY <2>1, <2>5 DEF AgentEnds, Agent!Early
  <2> QED BY <2>1, <2>6, <2>7, <2>8, <2>9, AgentDoes
<1> QED BY <1>3, <1>4, <1>6, <1>7, <1>8, <1>9

LEMMA AgentCommits ==
  ASSUME NEW s \in AgentScenes, Agent(s)!IInv, NEW w \in Cast[s].workers,
         Agent(s)!Commit(w, Agent(s)!Admits(Agent(s)!Due(w)))
  PROVE  AgentMoves(s, w) \/ AgentWrites(s, w)
<1> DEFINE t == job[w].todo
           h == t[1]
           g == t[2]
<1>1. Agent(s)!JobSound(job[w]) /\ job[w].at = "write"
  BY DEF Agent!IInv, Agent!Commit, Agent!At
<1>2. (t = <<h>> /\ Agent(s)!Alone(h)) \/ (t = <<h, g>> /\ Agent(s)!Before(h, g))
  BY <1>1 DEF Agent!JobSound
<1>3. Agent(s)!Due(w) = h
  <2>1. Head(<<h>>) = h /\ Head(<<h, g>>) = h
    BY TodoOfOne, TodoOfTwo
  <2> HIDE DEF h, g
  <2> QED BY <1>2, <2>1 DEF Agent!Due
<1>4. \/ /\ Agent(s)!Admits(h) /\ db' = Agent(s)!Written(h)
         /\ IF Tail(t) = <<>> THEN Agent(s)!Return(w) ELSE Agent(s)!Carry(w, [at |-> "write", todo |-> Tail(t)])
      \/ AgentRefused(s, job[w]) /\ Agent(s)!GiveUp(w)
  BY <1>1, <1>3 DEF Agent!Commit, AgentRefused
<1>5. CASE AgentRefused(s, job[w]) /\ Agent(s)!GiveUp(w)
  BY <1>5, AgentGivesUp
<1>6. CASE /\ Agent(s)!Admits(h) /\ db' = Agent(s)!Written(h)
           /\ IF Tail(t) = <<>> THEN Agent(s)!Return(w) ELSE Agent(s)!Carry(w, [at |-> "write", todo |-> Tail(t)])
  <2>1. CASE t = <<h>> /\ Agent(s)!Alone(h)
    <3> DEFINE j == Agent(s)!Idle
    <3>1. Tail(<<h>>) = <<>> /\ DOMAIN <<h>> = {1}
      BY TodoOfOne
    <3>2. job' = [job EXCEPT ![w] = j] /\ j.at = "idle"
      BY <1>6, <2>1, <3>1 DEF Agent!Return, Agent!Carry, Agent!Idle
    <3> HIDE DEF j
    <3>3. Agent(s)!JobSound(j)' /\ j.at \notin Agent(s)!Early
      BY <3>2 DEF Agent!JobSound, Agent!Asked, Agent!Executing, Agent!Early, Agent!Attempting, Agent!Idle, j
    <3>4. \A x : Agent(s)!Owes(job[w], x) => h.c = "agentTelemetry" /\ h.row.execution = x
      <4>1. DOMAIN t = {1}
        BY <2>1, <3>1
      <4> QED BY <1>1, <4>1 DEF Agent!Owes, Agent!Attempting
    <3>5. ~AgentEnds(h) /\ Agent(s)!WriteSound(h)
      BY <2>1 DEF AgentEnds, Agent!Alone
    <3> QED BY <1>6, <2>1, <3>2, <3>3, <3>4, <3>5 DEF AgentWrites
  <2>2. CASE t = <<h, g>> /\ Agent(s)!Before(h, g)
    <3>1. Tail(<<h, g>>) = <<g>> /\ DOMAIN <<h, g>> = {1, 2} /\ <<g>> # <<>> /\ <<g>>[1] = g /\ DOMAIN <<g>> = {1}
      BY TodoOfOne, TodoOfTwo
    <3>2. PICK j : j = [at |-> "write", todo |-> <<g>>]
      OBVIOUS
    <3>3. Tail(t) = <<g>> /\ DOMAIN t = {1, 2}
      BY <2>2, <3>1
    <3>4. job' = [job EXCEPT ![w] = j]
      BY <1>6, <3>1, <3>2, <3>3 DEF Agent!Carry
    <3>5. j.at = "write" /\ j.todo = <<g>> /\ j.todo[1] = g
      BY <3>2
    <3>6. Agent(s)!WriteSound(h) /\ h.op = "replace" /\ Agent(s)!Alone(g)
      BY <2>2 DEF Agent!Before
    <3>7. Agent(s)!JobSound(j)
      BY <3>5, <3>6 DEF Agent!JobSound, Agent!Asked, Agent!Executing, Agent!Early, Agent!Attempting
    <3>8. Agent(s)!JobSound(j)'
      BY <1>6, <3>6, <3>7, AgentWritten, AgentGrown
    <3>9. \A x : g.c = "agentTelemetry" /\ g.row.execution = x => Agent(s)!Owes(j, x)
      <4>1. 1 \in DOMAIN j.todo
        BY <3>1, <3>5
      <4> QED BY <3>5, <4>1 DEF Agent!Owes
    <3>10. \A x : Agent(s)!Owes(job[w], x) =>
             Agent(s)!Owes(j, x) \/ (h.c = "agentTelemetry" /\ h.row.execution = x)
      BY <1>1, <3>3, <3>9 DEF Agent!Owes, Agent!Attempting
    <3>11. AgentEnds(h) => h.op = "replace" /\ Agent(s)!Owes(j, h.id)
      BY <2>2, <3>6, <3>9 DEF AgentEnds, Agent!Before
    <3>12. j.at \notin Agent(s)!Early
      BY <3>5 DEF Agent!Early
    <3> QED BY <1>6, <2>2, <3>4, <3>5, <3>6, <3>8, <3>10, <3>11, <3>12 DEF AgentWrites
  <2> QED BY <1>2, <2>1, <2>2
<1> QED BY <1>4, <1>5, <1>6

(* Every step of the agents.                                               *)
LEMMA AgentTakes ==
  ASSUME NEW s \in AgentScenes, Agent(s)!IInv, Agent(s)!Next
  PROVE  \E w \in Cast[s].workers : AgentMoves(s, w) \/ AgentWrites(s, w)
<1>1. CASE Agent(s)!Proceed
  <2>1. PICK w \in Cast[s].workers : Agent(s)!Handle(w)
    BY <1>1 DEF Agent!Proceed
  <2>2. AgentMoves(s, w) \/ AgentWrites(s, w)
    <3>1. \/ Agent(s)!Register(w)
          \/ \/ Agent(s)!Approve(w) \/ Agent(s)!CreateContext(w) \/ Agent(s)!Remember(w) \/ Agent(s)!Cancel(w)
          \/ Agent(s)!ReadActiveAgents(w) \/ Agent(s)!ReadPublished(w)
          \/ \/ Agent(s)!Execute(w) \/ Agent(s)!ReadCapability(w) \/ Agent(s)!Authorize(w) \/ Agent(s)!Render(w)
             \/ Agent(s)!Recall(w) \/ Agent(s)!Answer(w) \/ Agent(s)!Throw(w) \/ Agent(s)!Fail(w)
          \/ Agent(s)!Queue(w)
          \/ \/ Agent(s)!Run(w) \/ Agent(s)!Begin(w) \/ Agent(s)!Call(w) \/ Agent(s)!Succeed(w)
             \/ Agent(s)!Conclude(w) \/ Agent(s)!Measure(w)
          \/ Agent(s)!Commit(w, Agent(s)!Admits(Agent(s)!Due(w)))
      BY <2>1 DEF Agent!Handle, Agent!Attempt
    <3> QED BY <3>1, AgentRegisters, AgentApproves, AgentReads, AgentExecutes, AgentQueues, AgentProceeds, AgentCommits
  <2> QED BY <2>2
<1>2. CASE \E w \in Cast[s].mortals : Agent(s)!Die(w)
  <2>1. PICK w \in Cast[s].mortals : Agent(s)!Die(w)
    BY <1>2
  <2>2. w \in Cast[s].workers /\ ~Agent(s)!Deathless
    BY PlatformAssumption DEF Agent!AgentAssumption, Agent!Deathless
  <2>3. Agent(s)!GiveUp(w)
    BY <2>1 DEF Agent!Die, Agent!Crash, Agent!GiveUp
  <2> QED BY <2>2, <2>3, AgentGivesUp
<1> QED BY <1>1, <1>2 DEF Agent!Next

LEMMA AgentInit ==
  ASSUME NEW s \in AgentScenes, Agent(s)!Empty
  PROVE  Agent(s)!IInv /\ Agent(s)!KeptInv /\ Agent(s)!MeasuredInv
<1>1. Agent(s)!Collections = AgentTables
  <2>1. Cast[s].rows \in [DOMAIN Agent(s)!RowType -> Nat]
    BY PlatformAssumption DEF Agent!AgentAssumption
  <2> QED BY <2>1 DEF Agent!Collections, Agent!RowType, AgentTables
<1>2. db = [c \in AgentTables |-> <<>>] /\ job = [w \in Cast[s].workers |-> Agent(s)!Idle]
  BY <1>1 DEF Agent!Empty
<1>3. \A c \in AgentTables : db[c] = <<>> /\ DOMAIN db[c] = {}
  BY <1>2
<1>4. Agent(s)!TablesTyped(Agent(s)!RowType)
  BY <1>1, <1>2 DEF Agent!TablesTyped
<1>5. \A c \in Agent(s)!Registries : c \in AgentTables
  BY DEF Agent!Registries, AgentTables
<1>6. /\ Agent(s)!Ids("agentCapabilities") = {} /\ Agent(s)!Ids("agentExecutions") = {}
      /\ Agent(s)!Ids("capabilityCalls") = {} /\ Agent(s)!Ids("agentMemory") = {}
      /\ Agent(s)!Ids("agentApprovalRequests") = {} /\ Agent(s)!Ids("promptVersions") = {}
      /\ Agent(s)!Ids("agentGovernancePolicies") = {}
      /\ \A c \in Agent(s)!Registries : Agent(s)!Ids(c) = {} /\ Agent(s)!Active(c) = {}
  <2>1. \A c \in AgentTables : Agent(s)!Ids(c) = {} /\ Agent(s)!Active(c) = {}
    BY <1>3 DEF Agent!Ids, Agent!Active
  <2> QED BY <1>5, <2>1 DEF AgentTables
<1>7. Agent(s)!RowsSound
  BY <1>6 DEF Agent!RowsSound, Agent!Registries
<1>8. \A w \in Cast[s].workers : Agent(s)!JobSound(job[w]) /\ job[w].at = "idle"
  <2> DEFINE j == Agent(s)!Idle
  <2>1. j.at = "idle"
    BY DEF Agent!Idle
  <2> HIDE DEF j
  <2>2. Agent(s)!JobSound(j)
    BY <2>1 DEF Agent!JobSound, Agent!Asked, Agent!Executing, Agent!Early, Agent!Attempting
  <2> QED BY <1>2, <2>1, <2>2 DEF j
<1>9. Agent(s)!IInv
  BY <1>2, <1>4, <1>6, <1>7, <1>8 DEF Agent!IInv, Agent!MemorySequenced
<1>10. Agent(s)!KeptInv /\ Agent(s)!MeasuredInv
  BY <1>6, <1>8 DEF Agent!KeptInv, Agent!MeasuredInv, Agent!Early
<1> QED BY <1>9, <1>10

LEMMA AgentStays ==
  ASSUME NEW s \in AgentScenes, Agent(s)!IInv, UNCHANGED db
  PROVE  /\ AgentGrows(db, db') /\ Agent(s)!TablesTyped(Agent(s)!RowType)' /\ Agent(s)!RowsSound'
         /\ Agent(s)!MemorySequenced' /\ Agent(s)!DecisionsKept
<1>1. AgentGrows(db, db')
  <2> DEFINE a == "agentMemory"
  <2>1. \A c \in AgentTables : DOMAIN db[c] = 1..Len(db[c]) /\ Len(db[c]) \in Nat
    BY AgentTyped DEF Agent!IInv
  <2>2. ASSUME NEW x PROVE Cardinality(AgentOwn(db, x)) \in Nat
    <3>1. AgentOwn(db, x) \subseteq 1..Len(db[a]) /\ Len(db[a]) \in Nat
      BY <2>1 DEF AgentOwn, AgentTables
    <3> QED BY <3>1, RowsFinite
  <2>3. AgentGrows(db, db)
    BY <2>1, <2>2 DEF AgentGrows
  <2> QED BY <2>3
<1>2. Agent(s)!TablesTyped(Agent(s)!RowType)'
  BY DEF Agent!IInv, Agent!TablesTyped
<1>3. Agent(s)!RowsSound'
  <2>1. Agent(s)!RowsSound
    BY DEF Agent!IInv
  <2>2. \A c : Agent(s)!Ids(c)' = Agent(s)!Ids(c) /\ Agent(s)!Active(c)' = Agent(s)!Active(c)
    BY DEF Agent!Ids, Agent!Active, Agent!InStatus
  <2>3. \A x : Agent(s)!Unprotected(x)' <=> Agent(s)!Unprotected(x)
    <3> SUFFICES ASSUME NEW x PROVE Agent(s)!Unprotected(x)' <=> Agent(s)!Unprotected(x)
      OBVIOUS
    <3>1. db'.agentCapabilities = db.agentCapabilities /\ db'.agentExecutions = db.agentExecutions
      OBVIOUS
    <3>2. Agent(s)!Ids("agentExecutions")' = Agent(s)!Ids("agentExecutions")
      BY <2>2
    <3> QED BY <3>1, <3>2 DEF Agent!Unprotected
  <2>4. \A c, x, S : Agent(s)!InStatus(c, x, S)' <=> Agent(s)!InStatus(c, x, S)
    BY DEF Agent!InStatus
  <2> QED BY <2>1, <2>2, <2>3, <2>4 DEF Agent!RowsSound
<1>4. Agent(s)!MemorySequenced'
  <2>1. Agent(s)!MemorySequenced
    BY DEF Agent!IInv
  <2>2. \A x : Agent(s)!Own(x)' = Agent(s)!Own(x)
    BY DEF Agent!Own, Agent!Ids
  <2> QED BY <2>1, <2>2 DEF Agent!MemorySequenced, Agent!Ids
<1>5. Agent(s)!DecisionsKept
  BY DEF Agent!DecisionsKept
<1> QED BY <1>1, <1>2, <1>3, <1>4, <1>5

LEMMA AgentPreserves ==
  ASSUME NEW s \in AgentScenes, Agent(s)!IInv, [Agent(s)!Next]_<<db, job>>
  PROVE  Agent(s)!IInv' /\ Agent(s)!DecisionsKept
<1>1. CASE UNCHANGED <<db, job>>
  <2>1. \A w \in Cast[s].workers : Agent(s)!JobSound(job[w])'
    <3>1. ASSUME NEW j, Agent(s)!JobSound(j) PROVE Agent(s)!JobSound(j)'
      BY <1>1, <3>1, AgentStays, AgentGrown
    <3>2. ASSUME NEW w \in Cast[s].workers PROVE Agent(s)!JobSound(job[w])'
      <4>1. ASSUME NEW j, j = job[w] PROVE Agent(s)!JobSound(j)'
        BY <3>1, <4>1 DEF Agent!IInv
      <4>2. job'[w] = job[w]
        BY <1>1
      <4> QED BY <4>1, <4>2
    <3> QED BY <3>2
  <2>2. job' = [w \in Cast[s].workers |-> job'[w]]
    BY <1>1 DEF Agent!IInv
  <2> QED BY <1>1, <2>1, <2>2, AgentStays DEF Agent!IInv
<1>2. CASE Agent(s)!Next
  <2>1. PICK w \in Cast[s].workers : AgentMoves(s, w) \/ AgentWrites(s, w)
    BY <1>2, AgentTakes
  <2>2. job = [v \in Cast[s].workers |-> job[v]] /\ \A v \in Cast[s].workers : Agent(s)!JobSound(job[v])
    BY DEF Agent!IInv
  <2>3. ASSUME NEW j, job' = [job EXCEPT ![w] = j], Agent(s)!JobSound(j)',
               AgentGrows(db, db')
        PROVE  job' = [v \in Cast[s].workers |-> job'[v]] /\ \A v \in Cast[s].workers : Agent(s)!JobSound(job[v])'
    <3>1. /\ job' = [v \in Cast[s].workers |-> job'[v]] /\ job'[w] = j
          /\ \A v \in Cast[s].workers \ {w} : job'[v] = job[v]
      BY <2>2, <2>3, CarryMoves
    <3>2. ASSUME NEW i, Agent(s)!JobSound(i) PROVE Agent(s)!JobSound(i)'
      BY <2>3, <3>2, AgentGrown
    <3>3. ASSUME NEW v \in Cast[s].workers PROVE Agent(s)!JobSound(job[v])'
      <4>1. ASSUME NEW i, i = job'[v] PROVE Agent(s)!JobSound(i)'
        <5>1. CASE v = w
          BY <2>3, <3>1, <4>1, <5>1
        <5>2. CASE v # w
          <6>1. i = job[v]
            BY <3>1, <4>1, <5>2
          <6> QED BY <2>2, <3>2, <6>1
        <5> QED BY <5>1, <5>2
      <4> QED BY <4>1
    <3> QED BY <3>1, <3>3
  <2>4. CASE AgentMoves(s, w)
    <3>1. PICK j : /\ job' = [job EXCEPT ![w] = j] /\ UNCHANGED db /\ Agent(s)!JobSound(j)
                   /\ \/ j = job[w] \/ ~Agent(s)!Deathless \/ AgentRefused(s, job[w])
                      \/ job[w].at # "write" /\ \A x : Agent(s)!Owes(job[w], x) => Agent(s)!Owes(j, x)
                   /\ j.at \in Agent(s)!Early => job[w].at \in Agent(s)!Early /\ j.id = job[w].id
      BY <2>4 DEF AgentMoves
    <3>2. Agent(s)!JobSound(j)'
      BY <3>1, AgentStays, AgentGrown
    <3> QED BY <2>3, <3>1, <3>2, AgentStays DEF Agent!IInv
  <2>5. CASE AgentWrites(s, w)
    <3>1. PICK h, j :
            /\ Agent(s)!WriteSound(h) /\ Agent(s)!Admits(h) /\ db' = Agent(s)!Written(h)
            /\ job' = [job EXCEPT ![w] = j] /\ Agent(s)!JobSound(j)'
      BY <2>5 DEF AgentWrites
    <3>2. /\ AgentGrows(db, db') /\ Agent(s)!RowsSound' /\ Agent(s)!MemorySequenced' /\ Agent(s)!DecisionsKept
          /\ Agent(s)!TablesTyped(Agent(s)!RowType)'
      BY <3>1, AgentWritten, AgentLands
    <3> QED BY <2>3, <3>1, <3>2 DEF Agent!IInv
  <2> QED BY <2>1, <2>4, <2>5
<1> QED BY <1>1, <1>2

(* While no request dies, whoever takes what is in force back puts another *)
(* in its place, and is not refused unless there is one.                   *)
LEMMA AgentFollowed ==
  ASSUME NEW s \in AgentScenes, Agent(s)!IInv, NEW w \in Cast[s].workers, AgentRefused(s, job[w])
  PROVE  /\ Agent(s)!Following(job[w]) => AgentLive(db, "agentGovernancePolicies") # {}
         /\ Agent(s)!Publishing(job[w]) => AgentLive(db, "promptVersions") # {}
         /\ Agent(s)!Activating(job[w]) => AgentLive(db, "registeredAgents") # {}
<1> DEFINE g == "agentGovernancePolicies"
           p == "promptVersions"
           h == job[w].todo[1]
           m == Len(db[g])
           r == Cast[s].rows[g]
<1>1. /\ Agent(s)!JobSound(job[w]) /\ job[w].at = "write"
      /\ ~Agent(s)!Admits(h) \/ (h.op = "append" /\ ~Agent(s)!Room(h.c))
  BY DEF Agent!IInv, AgentRefused
<1>2. g \in AgentTables /\ g \in Agent(s)!Registries /\ DOMAIN db[g] = 1..m /\ m \in Nat
  BY AgentTyped DEF Agent!IInv, AgentTables, Agent!Registries
<1>3. r \in Nat
  <2>1. Cast[s].rows \in [DOMAIN Agent(s)!RowType -> Nat]
    BY PlatformAssumption DEF Agent!AgentAssumption
  <2> QED BY <2>1 DEF Agent!RowType
<1>4. Agent(s)!WriteSound(h)
  BY <1>1 DEF Agent!JobSound, Agent!Alone, Agent!Before
<1>5. ASSUME Agent(s)!Following(job[w]) PROVE AgentLive(db, g) # {}
  <2>1. h.c = g /\ h.op = "append" /\ h.row.version = m + 1
    BY <1>5 DEF Agent!Following
  <2>2. m + 1 <= r
    BY <1>2, <1>4, <2>1 DEF Agent!WriteSound
  <2>3. Agent(s)!Room(g)
    <3>1. m < r
      <4> HIDE DEF m, r
      <4> QED BY <1>2, <1>3, <2>2
    <3> QED BY <3>1 DEF Agent!Room
  <2>4. Agent(s)!KeyFree(h)
    <3>1. \A x \in DOMAIN db[g] : db[g][x].version = x
      BY <1>2 DEF Agent!IInv, Agent!RowsSound, Agent!Ids
    <3>2. \A x \in DOMAIN db[g] : x # m + 1
      <4> HIDE DEF m
      <4> QED BY <1>2
    <3> QED BY <2>1, <3>1, <3>2 DEF Agent!KeyFree, Agent!Ids
  <2>5. ~Agent(s)!OneActive(h)
    BY <1>1, <2>1, <2>3, <2>4 DEF Agent!Admits
  <2> QED BY <2>1, <2>5, AgentLiving DEF Agent!OneActive
<1>6. ASSUME Agent(s)!Publishing(job[w]) PROVE AgentLive(db, p) # {}
  <2>1. h.c = p /\ h.op = "replace"
    BY <1>6 DEF Agent!Publishing
  <2>2. ~Agent(s)!OneActive(h)
    BY <1>1, <2>1 DEF Agent!Admits, Agent!StaysOff, Agent!Final
  <2> QED BY <2>1, <2>2, AgentLiving DEF Agent!OneActive
<1>7. ASSUME Agent(s)!Activating(job[w]) PROVE AgentLive(db, "registeredAgents") # {}
  <2>1. h.c = "registeredAgents" /\ h.op = "replace"
    BY <1>7 DEF Agent!Activating
  <2>2. ~Agent(s)!OneActive(h)
    BY <1>1, <2>1 DEF Agent!Admits, Agent!StaysOff, Agent!Final
  <2> QED BY <2>1, <2>2, AgentLiving DEF Agent!OneActive
<1> QED BY <1>5, <1>6, <1>7

AgentHeld(s) ==
  /\ \/ Agent(s)!Ids("agentGovernancePolicies") = {} \/ AgentLive(db, "agentGovernancePolicies") # {}
     \/ \E w \in Cast[s].workers : Agent(s)!Following(job[w])
  /\ \/ \A x \in Agent(s)!Ids("promptVersions") : Agent(s)!InStatus("promptVersions", x, {"DRAFT"})
     \/ AgentLive(db, "promptVersions") # {}
     \/ \E w \in Cast[s].workers : Agent(s)!Publishing(job[w])

LEMMA AgentKeeps ==
  ASSUME NEW s \in AgentScenes, Agent(s)!IInv, Agent(s)!KeptInv, [Agent(s)!Next]_<<db, job>>
  PROVE  Agent(s)!KeptInv'
<1> DEFINE g == "agentGovernancePolicies"
           p == "promptVersions"
<1>1. (Agent(s)!KeptInv <=> (Agent(s)!Deathless => AgentHeld(s)))
      /\ (Agent(s)!KeptInv' <=> (Agent(s)!Deathless => AgentHeld(s)'))
  BY AgentLiving DEF Agent!KeptInv, AgentHeld, Agent!Deathless
<1> SUFFICES ASSUME Agent(s)!Deathless, AgentHeld(s) PROVE AgentHeld(s)'
  BY <1>1
<1>2. CASE UNCHANGED <<db, job>>
  BY <1>2 DEF AgentHeld, AgentLive, Agent!Following, Agent!Publishing, Agent!Ids, Agent!InStatus
<1>3. CASE Agent(s)!Next
  <2>1. PICK w \in Cast[s].workers : AgentMoves(s, w) \/ AgentWrites(s, w)
    BY <1>3, AgentTakes
  <2>2. /\ job = [v \in Cast[s].workers |-> job[v]] /\ g \in AgentTables /\ p \in AgentTables
        /\ g \in Agent(s)!Registries /\ p \in Agent(s)!Registries
    BY DEF Agent!IInv, AgentTables, Agent!Registries
  <2>3. CASE AgentMoves(s, w)
    <3>1. PICK j : /\ job' = [job EXCEPT ![w] = j] /\ UNCHANGED db /\ Agent(s)!JobSound(j)
                   /\ \/ j = job[w] \/ ~Agent(s)!Deathless \/ AgentRefused(s, job[w])
                      \/ job[w].at # "write" /\ \A x : Agent(s)!Owes(job[w], x) => Agent(s)!Owes(j, x)
                   /\ j.at \in Agent(s)!Early => job[w].at \in Agent(s)!Early /\ j.id = job[w].id
      BY <2>3 DEF AgentMoves
    <3>2. job'[w] = j /\ \A v \in Cast[s].workers \ {w} : job'[v] = job[v]
      BY <2>2, <3>1, CarryMoves
    <3>3. j = job[w] \/ AgentRefused(s, job[w]) \/ (~Agent(s)!Following(job[w]) /\ ~Agent(s)!Publishing(job[w]))
      BY <3>1 DEF Agent!Following, Agent!Publishing
    <3>4. ASSUME NEW v \in Cast[s].workers
          PROVE  /\ Agent(s)!Following(job[v]) => AgentLive(db, g) # {} \/ Agent(s)!Following(job[v])'
                 /\ Agent(s)!Publishing(job[v]) => AgentLive(db, p) # {} \/ Agent(s)!Publishing(job[v])'
      <4>1. CASE job'[v] = job[v]
        BY <3>1, <4>1 DEF Agent!Following, Agent!Publishing
      <4>2. CASE job'[v] # job[v]
        <5>1. v = w /\ j # job[w]
          BY <3>2, <4>2
        <5> QED BY <3>3, <5>1, AgentFollowed
      <4> QED BY <4>1, <4>2
    <3>5. AgentLive(db, g)' = AgentLive(db, g) /\ AgentLive(db, p)' = AgentLive(db, p)
      BY <3>1
    <3>6. Agent(s)!Ids(g)' = Agent(s)!Ids(g) /\ Agent(s)!Ids(p)' = Agent(s)!Ids(p)
          /\ \A x : Agent(s)!InStatus(p, x, {"DRAFT"})' = Agent(s)!InStatus(p, x, {"DRAFT"})
      BY <3>1 DEF Agent!Ids, Agent!InStatus
    <3> QED BY <3>4, <3>5, <3>6 DEF AgentHeld
  <2>4. CASE AgentWrites(s, w)
    <3>1. PICK h, j :
            /\ Agent(s)!WriteSound(h) /\ Agent(s)!Admits(h) /\ db' = Agent(s)!Written(h)
            /\ job' = [job EXCEPT ![w] = j]
            /\ job[w].at = "write" => h = job[w].todo[1]
            /\ Agent(s)!Alone(h) \/ h.c = "agentExecutions"
                 \/ \E f : Agent(s)!Before(h, f) /\ j.at = "write" /\ j.todo = <<f>>
      BY <2>4 DEF AgentWrites
    <3>2. job'[w] = j /\ \A v \in Cast[s].workers \ {w} : job'[v] = job[v]
      BY <2>2, <3>1, CarryMoves
    <3>3. /\ h.op \in {"append", "replace"} /\ (h.op = "replace" => h.id \in DOMAIN db[h.c])
          /\ Keeps(db, db', h) /\ Adds(db, db', h) /\ g \in DOMAIN db /\ p \in DOMAIN db
          /\ \A c \in AgentTables : DOMAIN db[c] = 1..Len(db[c]) /\ Len(db[c]) \in Nat
      BY <2>2, <3>1, AgentLands, AgentTyped DEF Agent!IInv
    <3>4. \/ Agent(s)!Ids(g)' = {} \/ AgentLive(db', g) # {}
          \/ \E v \in Cast[s].workers : Agent(s)!Following(job[v])'
      <4>1. CASE h.c = g /\ h.op = "append"
        <5>1. Agent(s)!Incumbent(h)
          BY <3>1, <4>1 DEF Agent!Incumbent, Agent!WriteSound
        <5> QED BY <2>2, <3>1, <4>1, <5>1, AgentTurns
      <4>2. CASE h.c = g /\ h.op = "replace"
        <5>1. /\ ~Agent(s)!Incumbent(h)
          BY <3>1, <4>2 DEF Agent!Incumbent, Agent!WriteSound
        <5>2. AgentLive(db', g) = AgentLive(db, g) \ {h.id} /\ Len(db'[g]) = Len(db[g])
          BY <2>2, <3>1, <4>2, <5>1, AgentTurns DEF Place
        <5>3. PICK f : Agent(s)!Before(h, f) /\ j.at = "write" /\ j.todo = <<f>>
          BY <3>1, <4>2 DEF Agent!Alone
        <5>4. f.c = g /\ f.op = "append" /\ f.row.version = h.id + 1 /\ j.todo[1] = f
          BY <4>2, <5>3 DEF Agent!Before
        <5>5. CASE h.id \in AgentLive(db, g)
          <6>1. h.id = Len(db[g])
            BY <5>5, AgentLiving DEF Agent!IInv, Agent!RowsSound
          <6>2. f.row.version = Len(db'[g]) + 1
            BY <5>2, <5>4, <6>1
          <6>3. ASSUME NEW i, i = job'[w] PROVE Agent(s)!Following(i)'
            BY <3>2, <5>3, <5>4, <6>2, <6>3 DEF Agent!Following
          <6> QED BY <6>3
        <5>6. CASE AgentLive(db, g) # {} /\ h.id \notin AgentLive(db, g)
          BY <5>2, <5>6
        <5>7. CASE AgentLive(db, g) = {}
          <6>1. PICK v \in Cast[s].workers : Agent(s)!Following(job[v])
            BY <3>3, <4>2, <5>7 DEF AgentHeld, Agent!Ids
          <6>2. v # w
            BY <3>1, <4>2, <6>1 DEF Agent!Following
          <6>3. ASSUME NEW i, i = job'[v] PROVE Agent(s)!Following(i)'
            BY <3>2, <5>2, <6>1, <6>2, <6>3 DEF Agent!Following
          <6> QED BY <6>3
        <5> QED BY <5>5, <5>6, <5>7
      <4>3. CASE h.c # g
        <5>1. db'[g] = db[g] /\ AgentLive(db', g) = AgentLive(db, g)
          BY <2>2, <3>1, <4>3, AgentTurns
        <5>2. ASSUME NEW v \in Cast[s].workers, Agent(s)!Following(job[v])
              PROVE  Agent(s)!Following(job[v])'
          <6>1. v # w
            BY <3>1, <4>3, <5>2 DEF Agent!Following
          <6>2. ASSUME NEW i, i = job'[v] PROVE Agent(s)!Following(i)'
            BY <3>2, <5>1, <5>2, <6>1, <6>2 DEF Agent!Following
          <6> QED BY <6>2
        <5> QED BY <5>1, <5>2 DEF AgentHeld, Agent!Ids
      <4> QED BY <3>3, <4>1, <4>2, <4>3
    <3>5. \/ \A x \in Agent(s)!Ids(p)' : Agent(s)!InStatus(p, x, {"DRAFT"})'
          \/ AgentLive(db', p) # {}
          \/ \E v \in Cast[s].workers : Agent(s)!Publishing(job[v])'
      <4>0. ASSUME NEW v \in Cast[s].workers, Agent(s)!Publishing(job[v]), h.c # p \/ h.op = "append"
            PROVE  Agent(s)!Publishing(job[v])'
        <5>1. v # w
          BY <3>1, <4>0 DEF Agent!Publishing
        <5>2. ASSUME NEW i, i = job'[v] PROVE Agent(s)!Publishing(i)'
          BY <3>2, <4>0, <5>1, <5>2 DEF Agent!Publishing
        <5> QED BY <5>2
      <4>1. CASE h.c = p /\ h.op = "append"
        <5>1. h.row.status = "DRAFT" /\ ~Agent(s)!Incumbent(h)
          BY <3>1, <4>1 DEF Agent!Incumbent, Agent!WriteSound
        <5>2. AgentLive(db', p) = AgentLive(db, p) \ {Len(db[p]) + 1}
          BY <2>2, <3>1, <4>1, <5>1, AgentTurns DEF Place
        <5>3. AgentLive(db', p) = AgentLive(db, p)
          <6>1. \A n \in Nat : n + 1 \notin 1..n
            OBVIOUS
          <6> QED BY <2>2, <3>3, <5>2, <6>1 DEF AgentLive
        <5>4. (\A x \in DOMAIN db[p] : db[p][x].status = "DRAFT") => \A x \in DOMAIN db'[p] : db'[p][x].status = "DRAFT"
          BY <3>3, <4>1, <5>1 DEF Keeps, Adds
        <5> QED BY <4>0, <4>1, <5>3, <5>4 DEF AgentHeld, Agent!Ids, Agent!InStatus
      <4>2. CASE h.c = p /\ h.op = "replace" /\ h.row.status = "PUBLISHED"
        <5>1. Agent(s)!Incumbent(h)
          BY <3>1, <4>2 DEF Agent!Incumbent
        <5> QED BY <2>2, <3>1, <4>2, <5>1, AgentTurns
      <4>3. CASE h.c = p /\ h.op = "replace" /\ h.row.status # "PUBLISHED"
        <5>1. PICK f : Agent(s)!Before(h, f) /\ j.at = "write" /\ j.todo = <<f>>
          BY <3>1, <4>3 DEF Agent!Alone
        <5>2. f.c = p /\ f.op = "replace" /\ f.row.status = "PUBLISHED" /\ j.todo[1] = f
          BY <4>3, <5>1 DEF Agent!Before, Agent!Alone
        <5>3. ASSUME NEW i, i = job'[w] PROVE Agent(s)!Publishing(i)'
          BY <3>2, <5>1, <5>2, <5>3 DEF Agent!Publishing
        <5> QED BY <5>3
      <4>4. CASE h.c # p
        <5>1. db'[p] = db[p] /\ AgentLive(db', p) = AgentLive(db, p)
          BY <2>2, <3>1, <4>4, AgentTurns
        <5> QED BY <4>0, <4>4, <5>1 DEF AgentHeld, Agent!Ids, Agent!InStatus
      <4> QED BY <3>3, <4>1, <4>2, <4>3, <4>4
    <3> QED BY <3>4, <3>5 DEF AgentHeld
  <2> QED BY <2>1, <2>3, <2>4
<1> QED BY <1>2, <1>3

(* So no agent is left without an active version, once it has one.         *)
LEMMA AgentAttends ==
  ASSUME NEW s \in AgentScenes, Agent(s)!IInv, Agent(s)!Deathless, [Agent(s)!Next]_<<db, job>>
  PROVE  Agent(s)!AgentKept
<1> DEFINE a == "registeredAgents"
<1>1. (Agent(s)!Attended <=> AgentLive(db, a) # {} \/ \E v \in Cast[s].workers : Agent(s)!Activating(job[v]))
      /\ (Agent(s)!Attended' <=> AgentLive(db', a) # {} \/ \E v \in Cast[s].workers : Agent(s)!Activating(job[v])')
  BY AgentLiving DEF Agent!Attended
<1> SUFFICES ASSUME AgentLive(db, a) # {} \/ \E v \in Cast[s].workers : Agent(s)!Activating(job[v])
             PROVE  AgentLive(db', a) # {} \/ \E v \in Cast[s].workers : Agent(s)!Activating(job[v])'
  BY <1>1 DEF Agent!AgentKept
<1>2. CASE UNCHANGED <<db, job>>
  BY <1>2 DEF AgentLive, Agent!Activating
<1>3. CASE Agent(s)!Next
  <2>1. PICK w \in Cast[s].workers : AgentMoves(s, w) \/ AgentWrites(s, w)
    BY <1>3, AgentTakes
  <2>2. /\ job = [v \in Cast[s].workers |-> job[v]] /\ a \in AgentTables /\ a \in Agent(s)!Registries
    BY DEF Agent!IInv, AgentTables, Agent!Registries
  <2>3. CASE AgentMoves(s, w)
    <3>1. PICK j : /\ job' = [job EXCEPT ![w] = j] /\ UNCHANGED db
                   /\ j = job[w] \/ AgentRefused(s, job[w]) \/ job[w].at # "write"
      BY <2>3 DEF AgentMoves
    <3>2. job'[w] = j /\ \A v \in Cast[s].workers \ {w} : job'[v] = job[v]
      BY <2>2, <3>1, CarryMoves
    <3>3. ASSUME NEW v \in Cast[s].workers, Agent(s)!Activating(job[v])
          PROVE  AgentLive(db, a) # {} \/ Agent(s)!Activating(job[v])'
      <4>1. CASE job'[v] = job[v]
        BY <3>3, <4>1 DEF Agent!Activating
      <4>2. CASE job'[v] # job[v]
        <5>1. v = w /\ j # job[w]
          BY <3>2, <4>2
        <5>2. job[w].at = "write"
          BY <3>3, <5>1 DEF Agent!Activating
        <5> QED BY <3>1, <3>3, <5>1, <5>2, AgentFollowed
      <4> QED BY <4>1, <4>2
    <3>4. AgentLive(db', a) = AgentLive(db, a)
      BY <3>1
    <3> QED BY <3>3, <3>4
  <2>4. CASE AgentWrites(s, w)
    <3>1. PICK h, j :
            /\ Agent(s)!WriteSound(h) /\ Agent(s)!Admits(h) /\ db' = Agent(s)!Written(h)
            /\ job' = [job EXCEPT ![w] = j]
            /\ job[w].at = "write" => h = job[w].todo[1]
            /\ Agent(s)!Alone(h) \/ h.c = "agentExecutions"
                 \/ \E f : Agent(s)!Before(h, f) /\ j.at = "write" /\ j.todo = <<f>>
      BY <2>4 DEF AgentWrites
    <3>2. job'[w] = j /\ \A v \in Cast[s].workers \ {w} : job'[v] = job[v]
      BY <2>2, <3>1, CarryMoves
    <3>3. h.op \in {"append", "replace"} /\ DOMAIN db[a] = 1..Len(db[a]) /\ Len(db[a]) \in Nat
      BY <2>2, <3>1, AgentLands, AgentTyped DEF Agent!IInv
    <3>4. CASE h.c = a /\ h.row.active
      <4>1. Agent(s)!Incumbent(h)
        BY <3>4 DEF Agent!Incumbent
      <4>2. h.c = a
        BY <3>4
      <4>3. AgentLive(db', a) = {Place(db, h)}
        BY <2>2, <3>1, <4>1, <4>2, AgentTurns
      <4> QED BY <4>3
    <3>5. CASE h.c = a /\ h.op = "replace" /\ ~h.row.active
      <4>1. PICK f : Agent(s)!Before(h, f) /\ j.at = "write" /\ j.todo = <<f>>
        BY <3>1, <3>5 DEF Agent!Alone
      <4>2. f.c = a /\ f.op = "replace" /\ f.row.active /\ j.todo[1] = f
        BY <3>5, <4>1 DEF Agent!Before, Agent!Alone
      <4>3. ASSUME NEW i, i = job'[w] PROVE Agent(s)!Activating(i)
        BY <3>2, <4>1, <4>2, <4>3 DEF Agent!Activating
      <4>4. Agent(s)!Activating(job[w])'
        BY <4>3 DEF Agent!Activating
      <4> QED BY <4>4
    <3>6. CASE (h.c = a /\ h.op = "append" /\ ~h.row.active) \/ h.c # a
      <4>1. AgentLive(db', a) = AgentLive(db, a)
        <5>1. CASE h.c # a
          BY <2>2, <3>1, <5>1, AgentTurns
        <5>2. CASE h.c = a /\ h.op = "append" /\ ~h.row.active
          <6>1. ~Agent(s)!Incumbent(h)
            BY <5>2 DEF Agent!Incumbent
          <6>2. AgentLive(db', a) = AgentLive(db, a) \ {Len(db[a]) + 1}
            BY <2>2, <3>1, <5>2, <6>1, AgentTurns DEF Place
          <6>3. \A n \in Nat : n + 1 \notin 1..n
            OBVIOUS
          <6> QED BY <3>3, <6>2, <6>3 DEF AgentLive
        <5> QED BY <3>6, <5>1, <5>2
      <4>2. ASSUME NEW v \in Cast[s].workers, Agent(s)!Activating(job[v])
            PROVE  Agent(s)!Activating(job[v])'
        <5>1. v # w
          BY <3>1, <3>6, <4>2 DEF Agent!Activating
        <5>2. job'[v] = job[v]
          BY <3>2, <5>1
        <5> QED BY <4>2, <5>2 DEF Agent!Activating
      <4> QED BY <4>1, <4>2
    <3> QED BY <3>3, <3>4, <3>5, <3>6
  <2> QED BY <2>1, <2>3, <2>4
<1> QED BY <1>2, <1>3

(* Requests come in turn and none dies: a request that moves, or writes,   *)
(* still owes what it owed, unless it has measured it.                     *)
LEMMA AgentStillOwes ==
  ASSUME NEW s \in AgentScenes, Agent(s)!IInv, NEW w \in Cast[s].workers, AgentRefused(s, job[w]),
         Agent(s)!Room("agentTelemetry"), NEW x
  PROVE  ~Agent(s)!Owes(job[w], x)
<1> DEFINE t == job[w].todo
           h == t[1]
           g == t[2]
<1>1. /\ Agent(s)!JobSound(job[w]) /\ job[w].at = "write"
      /\ ~Agent(s)!Admits(h) \/ (h.op = "append" /\ ~Agent(s)!Room(h.c))
  BY DEF Agent!IInv, AgentRefused
<1>2. (t = <<h>> /\ Agent(s)!Alone(h)) \/ (t = <<h, g>> /\ Agent(s)!Before(h, g))
  BY <1>1 DEF Agent!JobSound
<1>3. DOMAIN <<h>> = {1} /\ DOMAIN <<h, g>> = {1, 2}
  BY TodoOfOne, TodoOfTwo
<1>4. h.c # "agentTelemetry"
  BY <1>1, AgentAdmitted
<1>5. CASE t = <<h>>
  <2>1. DOMAIN t = {1}
    <3> HIDE DEF h
    <3> QED BY <1>3, <1>5
  <2> QED BY <1>1, <1>4, <2>1 DEF Agent!Owes, Agent!Attempting
<1>6. CASE t = <<h, g>> /\ Agent(s)!Before(h, g)
  <2>1. DOMAIN t = {1, 2}
    <3> HIDE DEF h, g
    <3> QED BY <1>3, <1>6
  <2>2. h.op = "replace" /\ (g.c = "agentTelemetry" => h.c = "agentExecutions")
    BY <1>6 DEF Agent!Before
  <2>3. g.c # "agentTelemetry"
    BY <1>1, <2>2, AgentAdmitted
  <2> QED BY <1>1, <1>4, <2>1, <2>3 DEF Agent!Owes, Agent!Attempting
<1> QED BY <1>2, <1>5, <1>6

AgentMeasuredOne(s, w) ==
  /\ job[w].at \in Agent(s)!Early => ~Agent(s)!Ended(job[w].id)
  /\ Agent(s)!Room("agentTelemetry") =>
       \A x \in Agent(s)!Ids("agentExecutions") :
         Agent(s)!Ended(x) => Agent(s)!Measured(x) \/ Agent(s)!Owes(job[w], x)

LEMMA AgentMeasures ==
  ASSUME NEW s \in AgentScenes, Agent(s)!IInv, Agent(s)!MeasuredInv, [Agent(s)!Next]_<<db, job>>
  PROVE  Agent(s)!MeasuredInv'
<1> DEFINE e == "agentExecutions"
           t == "agentTelemetry"
<1>1. CASE UNCHANGED <<db, job>>
  BY <1>1 DEF Agent!MeasuredInv, Agent!Reliable, Agent!InTurn, Agent!Deathless, Agent!Ended, Agent!Measured, Agent!Owes,
     Agent!Room, Agent!Ids, Agent!InStatus
<1>2. CASE Agent(s)!Next
  <2>1. PICK w \in Cast[s].workers : AgentMoves(s, w) \/ AgentWrites(s, w)
    BY <1>2, AgentTakes
  <2>2. SUFFICES ASSUME Agent(s)!Reliable PROVE AgentMeasuredOne(s, w)'
    BY DEF Agent!MeasuredInv, Agent!Reliable, Agent!InTurn, Agent!Deathless, AgentMeasuredOne
  <2>3. AgentMeasuredOne(s, w) /\ Agent(s)!Deathless
    BY <2>2 DEF Agent!MeasuredInv, AgentMeasuredOne, Agent!Reliable
  <2>4. job = [v \in Cast[s].workers |-> job[v]] /\ e \in AgentTables /\ t \in AgentTables
    BY DEF Agent!IInv, AgentTables
  <2>5. CASE AgentMoves(s, w)
    <3>1. PICK j : /\ job' = [job EXCEPT ![w] = j] /\ UNCHANGED db /\ Agent(s)!JobSound(j)
                   /\ \/ j = job[w] \/ ~Agent(s)!Deathless \/ AgentRefused(s, job[w])
                      \/ job[w].at # "write" /\ \A x : Agent(s)!Owes(job[w], x) => Agent(s)!Owes(j, x)
                   /\ j.at \in Agent(s)!Early => job[w].at \in Agent(s)!Early /\ j.id = job[w].id
      BY <2>5 DEF AgentMoves
    <3>2. job'[w] = j
      BY <2>4, <3>1, CarryMoves
    <3>3. /\ Agent(s)!Room(t)' = Agent(s)!Room(t) /\ Agent(s)!Ids(e)' = Agent(s)!Ids(e)
          /\ \A x : /\ Agent(s)!Ended(x)' = Agent(s)!Ended(x)
                    /\ Agent(s)!Measured(x)' = Agent(s)!Measured(x)
      BY <3>1 DEF Agent!Room, Agent!Ids, Agent!Ended, Agent!InStatus, Agent!Measured
    <3>4. Agent(s)!Room(t) => \A x : Agent(s)!Owes(job[w], x) => Agent(s)!Owes(j, x)
      BY <2>3, <3>1, AgentStillOwes
    <3>5. ASSUME NEW i, i = job'[w]
          PROVE  /\ i.at \in Agent(s)!Early => ~Agent(s)!Ended(i.id)'
                 /\ \A x : (Agent(s)!Room(t) /\ Agent(s)!Owes(job[w], x)) => Agent(s)!Owes(i, x)
      BY <2>3, <3>1, <3>2, <3>3, <3>4, <3>5 DEF AgentMeasuredOne
    <3>6. /\ (job[w].at \in Agent(s)!Early)' => ~Agent(s)!Ended(job[w].id)'
          /\ \A x : (Agent(s)!Room(t) /\ Agent(s)!Owes(job[w], x)) => Agent(s)!Owes(job[w], x)'
      BY <3>5 DEF Agent!Owes, Agent!Early, Agent!Attempting, Agent!Ended, Agent!InStatus
    <3> QED BY <2>3, <3>3, <3>6 DEF AgentMeasuredOne
  <2>6. CASE AgentWrites(s, w)
    <3>1. PICK h, j :
            /\ Agent(s)!WriteSound(h) /\ Agent(s)!Admits(h) /\ db' = Agent(s)!Written(h)
            /\ job' = [job EXCEPT ![w] = j]
            /\ \A x : Agent(s)!Owes(job[w], x) =>
                        Agent(s)!Owes(j, x) \/ (h.c = "agentTelemetry" /\ h.row.execution = x)
            /\ AgentEnds(h) => h.op = "replace" /\ Agent(s)!Owes(j, h.id)
            /\ j.at \in Agent(s)!Early => h.c = "agentExecutions" /\ Place(db, h) = j.id /\ ~AgentEnds(h)
      BY <2>6 DEF AgentWrites
    <3>2. job'[w] = j
      BY <2>4, <3>1, CarryMoves
    <3>3. /\ h.op \in {"append", "replace"} /\ (h.op = "replace" => h.id \in DOMAIN db[h.c])
          /\ Lands(db, db', h) /\ Keeps(db, db', h) /\ Adds(db, db', h) /\ e \in DOMAIN db /\ t \in DOMAIN db
          /\ \A c \in AgentTables : DOMAIN db[c] = 1..Len(db[c]) /\ Len(db[c]) \in Nat
      BY <2>4, <3>1, AgentLands, AgentTyped DEF Agent!IInv
    <3>4. h.c = t => h.op = "append"
      BY <3>1 DEF Agent!WriteSound
    <3>5. Agent(s)!Room(t)' => Agent(s)!Room(t)
      <4> DEFINE m == Len(db[t])
                 n == Len(db'[t])
                 r == Cast[s].rows[t]
      <4>1. m \in Nat /\ (n = m \/ n = m + 1)
        BY <2>4, <3>3 DEF Lands
      <4>2. r \in Nat
        <5>1. Cast[s].rows \in [DOMAIN Agent(s)!RowType -> Nat]
          BY PlatformAssumption DEF Agent!AgentAssumption
        <5> QED BY <5>1 DEF Agent!RowType
      <4>3. n < r => m < r
        <5> HIDE DEF m, n, r
        <5> QED BY <4>1, <4>2
      <4> QED BY <4>3 DEF Agent!Room
    <3>6. \A x : Agent(s)!Measured(x) => Agent(s)!Measured(x)'
      BY <3>3, <3>4 DEF Agent!Measured, Keeps, Agent!Ids
    <3>7. h.c = t => Agent(s)!Measured(h.row.execution)'
      BY <3>3, <3>4 DEF Agent!Measured, Lands, Place, Agent!Ids
    <3>8. ASSUME NEW x \in DOMAIN db'[e], Agent(s)!Ended(x)'
          PROVE  (x \in DOMAIN db[e] /\ Agent(s)!Ended(x)) \/ Agent(s)!Owes(j, x)
      <4>1. CASE x \in DOMAIN db[e] /\ db'[e][x] = db[e][x]
        BY <3>8, <4>1 DEF Agent!Ended, Agent!InStatus
      <4>2. CASE x \in DOMAIN db[e] /\ h.op = "replace" /\ h.c = e /\ h.id = x /\ db'[e][x] = h.row
        BY <3>1, <3>8, <4>2 DEF Agent!Ended, Agent!InStatus, AgentEnds
      <4>3. CASE h.op = "append" /\ h.c = e /\ db'[e][x] = h.row
        BY <3>1, <3>8, <4>3 DEF Agent!Ended, Agent!InStatus, AgentEnds
      <4> QED BY <3>3, <3>8, <4>1, <4>2, <4>3 DEF Keeps, Adds
    <3>9. j.at \in Agent(s)!Early => ~Agent(s)!Ended(j.id)'
      BY <3>1, <3>3 DEF Lands, Agent!Ended, Agent!InStatus, AgentEnds
    <3>10. ASSUME Agent(s)!Room(t)', NEW x \in DOMAIN db'[e], Agent(s)!Ended(x)'
           PROVE  Agent(s)!Measured(x)' \/ Agent(s)!Owes(j, x)
      <4>1. CASE x \in DOMAIN db[e] /\ Agent(s)!Ended(x)
        <5>1. Agent(s)!Measured(x) \/ Agent(s)!Owes(job[w], x)
          BY <2>3, <3>5, <3>10, <4>1 DEF AgentMeasuredOne, Agent!Ids
        <5> QED BY <3>1, <3>6, <3>7, <5>1
      <4> QED BY <3>8, <3>10, <4>1
    <3>11. ASSUME NEW i, i = job'[w]
           PROVE  /\ i.at \in Agent(s)!Early => ~Agent(s)!Ended(i.id)'
                  /\ Agent(s)!Room(t)' => \A x \in DOMAIN db'[e] :
                       Agent(s)!Ended(x)' => Agent(s)!Measured(x)' \/ Agent(s)!Owes(i, x)
      BY <3>2, <3>9, <3>10, <3>11
    <3>12. /\ (job[w].at \in Agent(s)!Early)' => ~Agent(s)!Ended(job[w].id)'
           /\ Agent(s)!Room(t)' => \A x \in DOMAIN db'[e] :
                Agent(s)!Ended(x)' => Agent(s)!Measured(x)' \/ Agent(s)!Owes(job[w], x)'
      BY <3>11 DEF Agent!Owes, Agent!Early, Agent!Attempting, Agent!Ended, Agent!InStatus
    <3> QED BY <3>12 DEF AgentMeasuredOne, Agent!Ids
  <2> QED BY <2>1, <2>5, <2>6
<1> QED BY <1>1, <1>2

LEMMA AgentPromises ==
  ASSUME NEW s \in AgentScenes, Agent(s)!IInv
  PROVE  /\ Agent(s)!TypeOK /\ Agent(s)!MemorySequenced /\ Agent(s)!ProtectedNeverInvoked
         /\ Agent(s)!KeptInv /\ Agent(s)!Deathless => Agent(s)!IncumbentKept
         /\ Agent(s)!MeasuredInv /\ Agent(s)!Reliable => Agent(s)!OutcomesMeasured
<1> DEFINE g == "agentGovernancePolicies"
           p == "promptVersions"
<1>1. Agent(s)!TypeOK
  BY AgentTyped DEF Agent!IInv, Agent!TypeOK, Agent!Ids
<1>2. Agent(s)!MemorySequenced /\ Agent(s)!ProtectedNeverInvoked
  BY DEF Agent!IInv, Agent!RowsSound, Agent!ProtectedNeverInvoked, Agent!Unprotected
<1>3. ASSUME Agent(s)!KeptInv, Agent(s)!Deathless, Agent(s)!Quiet PROVE Agent(s)!IncumbentKept
  <2>1. \A w \in Cast[s].workers : ~Agent(s)!Following(job[w]) /\ ~Agent(s)!Publishing(job[w])
    BY <1>3 DEF Agent!Quiet, Agent!At, Agent!Following, Agent!Publishing
  <2>2. ASSUME NEW c \in {g, p}, Agent(s)!Active(c) # {} PROVE Agent(s)!Cardinality(Agent(s)!Active(c)) = 1
    <3> DEFINE A == Agent(s)!Active(c)
    <3>0. \A x, y \in A : x = y
      BY DEF Agent!IInv, Agent!RowsSound, Agent!Registries
    <3>1. PICK x : A = {x}
      <4> HIDE DEF A
      <4> QED BY <2>2, <3>0 DEF A
    <3> QED BY <3>1, AgentCardinality, FS_Singleton
  <2>3. Agent(s)!Cardinality(Agent(s)!Active("registeredAgents")) <= 1
    <3> DEFINE A == Agent(s)!Active("registeredAgents")
    <3>1. \A x, y \in A : x = y
      BY DEF Agent!IInv, Agent!RowsSound, Agent!Registries
    <3>2. A = {} \/ \E x : A = {x}
      <4> HIDE DEF A
      <4> QED BY <3>1
    <3>3. Cardinality(A) = 0 \/ Cardinality(A) = 1
      <4> HIDE DEF A
      <4> QED BY <3>2, FS_EmptySet, FS_Singleton
    <3>4. Agent(s)!Cardinality(A) = Cardinality(A)
      BY AgentCardinality
    <3>5. Agent(s)!Cardinality(A) <= 1
      <4> HIDE DEF A
      <4> QED BY <3>3, <3>4
    <3> QED BY <3>5
  <2> QED BY <1>3, <2>1, <2>2, <2>3 DEF Agent!IncumbentKept, Agent!KeptInv
<1>4. ASSUME Agent(s)!MeasuredInv, Agent(s)!Reliable, Agent(s)!Quiet, Agent(s)!Room("agentTelemetry")
      PROVE  \A x \in Agent(s)!Ids("agentExecutions") : Agent(s)!Ended(x) => Agent(s)!Measured(x)
  <2>1. PICK w : w \in Cast[s].workers
    BY PlatformAssumption DEF Agent!AgentAssumption
  <2>2. \A x : ~Agent(s)!Owes(job[w], x)
    BY <1>4, <2>1 DEF Agent!Quiet, Agent!At, Agent!Owes, Agent!Attempting
  <2> QED BY <1>4, <2>1, <2>2 DEF Agent!MeasuredInv
<1>5. Agent(s)!MeasuredInv /\ Agent(s)!Reliable => Agent(s)!OutcomesMeasured
  BY <1>4 DEF Agent!OutcomesMeasured, Agent!Ended, Agent!Measured
<1>6. Agent(s)!KeptInv /\ Agent(s)!Deathless => Agent(s)!IncumbentKept
  BY <1>3 DEF Agent!IncumbentKept
<1> QED BY <1>1, <1>2, <1>5, <1>6

----------------------------------------------------------------------------
(* Engines 11 to 13.                                                       *)

LEMMA DraftingCardinality ==
  ASSUME NEW s, NEW S PROVE Drafting(s)!Cardinality(S) = Cardinality(S)
  BY DEF Drafting!Cardinality, Cardinality

DraftingTables ==
  {"agreements", "templateVersions", "documentVersions", "contractDrafts", "contractComments",
   "clauseVersions", "clauseInstances", "clauseDeviations", "negotiationRounds"}

LEMMA DraftingTyped ==
  ASSUME NEW s \in DraftingScenes, Drafting(s)!TablesTyped(Drafting(s)!RowType)
  PROVE  /\ Drafting(s)!Collections = DraftingTables /\ DOMAIN db = DraftingTables
         /\ \A c \in DraftingTables :
              /\ db[c] \in Seq(Drafting(s)!RowType[c]) /\ DOMAIN db[c] = 1..Len(db[c]) /\ Len(db[c]) \in Nat
              /\ \A x \in DOMAIN db[c] : db[c][x] \in Drafting(s)!RowType[c] /\ x \in Nat
<1>1. Drafting(s)!Collections = DraftingTables /\ DOMAIN db = DraftingTables
  <2>1. Cast[s].rows \in [DOMAIN Drafting(s)!RowType -> Nat]
    BY PlatformAssumption DEF Drafting!DraftingAssumption
  <2>2. Drafting(s)!Collections = DOMAIN Drafting(s)!RowType
    BY <2>1 DEF Drafting!Collections
  <2> QED BY <2>2 DEF Drafting!TablesTyped, Drafting!RowType, DraftingTables
<1>2. \A c \in DraftingTables : db[c] \in Seq(Drafting(s)!RowType[c])
  BY <1>1 DEF Drafting!TablesTyped
<1> QED BY <1>1, <1>2, LenProperties

(* A write, and the tables after it.                                       *)
LEMMA DraftingLands ==
  ASSUME NEW s \in DraftingScenes, Drafting(s)!IInv, NEW h, Drafting(s)!WriteSound(h), db' = Drafting(s)!Written(h)
  PROVE  /\ Drafting(s)!TablesTyped(Drafting(s)!RowType)' /\ h.c \in DraftingTables
         /\ h.op \in {"append", "replace"} /\ h.row \in Drafting(s)!RowType[h.c]
         /\ h.op = "replace" => h.id \in DOMAIN db[h.c]
         /\ Lands(db, db', h) /\ Keeps(db, db', h) /\ Adds(db, db', h)
         /\ \A c \in DraftingTables : DOMAIN db'[c] = 1..Len(db'[c]) /\ Len(db'[c]) \in Nat
<1> DEFINE T == Drafting(s)!RowType
           C == Drafting(s)!Collections
<1>1. Fitting(db, C, T, h) /\ db' = Holding(db, h) /\ C = DraftingTables
  BY DraftingTyped DEF Drafting!IInv, Drafting!TablesTyped, Drafting!WriteSound, Drafting!WriteTyped,
     Drafting!Ids, Drafting!Written, Tabled, Fitting, Holding
<1>2. Tabled(db', C, T) /\ Lands(db, db', h) /\ Keeps(db, db', h) /\ Adds(db, db', h)
  <2> HIDE DEF T, C
  <2> QED BY <1>1, Landing
<1>3. \A c \in DraftingTables : DOMAIN db'[c] = 1..Len(db'[c]) /\ Len(db'[c]) \in Nat
  <2>1. \A c \in DraftingTables : db'[c] \in Seq(T[c])
    BY <1>1, <1>2 DEF Tabled
  <2> HIDE DEF T
  <2> QED BY <2>1, LenProperties
<1> QED BY <1>1, <1>2, <1>3 DEF Tabled, Fitting, Drafting!TablesTyped

(* A new row.                                                              *)
LEMMA DraftingNew ==
  ASSUME NEW s \in DraftingScenes, Drafting(s)!IInv, NEW c \in DraftingTables, NEW row \in Drafting(s)!RowType[c]
  PROVE  LET h == Drafting(s)!New(c, row)
         IN Drafting(s)!WriteTyped(h, Drafting(s)!RowType) /\ h.op = "append" /\ h.c = c /\ h.row = row
<1>1. Drafting(s)!Collections = DraftingTables
  BY DraftingTyped DEF Drafting!IInv
<1> QED BY <1>1 DEF Drafting!New, Drafting!WriteTyped

(* A row in place of the one read before.                                  *)
LEMMA DraftingPut ==
  ASSUME NEW s \in DraftingScenes, Drafting(s)!IInv, NEW c \in DraftingTables, NEW x \in DOMAIN db[c],
         NEW row \in Drafting(s)!RowType[c]
  PROVE  LET h == Drafting(s)!Put(c, x, row)
         IN /\ Drafting(s)!WriteTyped(h, Drafting(s)!RowType)
            /\ h.op = "replace" /\ h.c = c /\ h.id = x /\ h.row = row
<1>1. Drafting(s)!Collections = DraftingTables
  BY DraftingTyped DEF Drafting!IInv
<1> QED BY <1>1 DEF Drafting!Put, Drafting!WriteTyped, Drafting!Ids

(* What no write changes: the number of a version or a round, and what a   *)
(* template requires.                                                      *)
DraftingGrows(s, D, E) ==
  /\ \A c \in DraftingTables : \A x \in DOMAIN D[c] : x \in DOMAIN E[c]
  /\ \A x \in DOMAIN D["templateVersions"] :
       E["templateVersions"][x].required = D["templateVersions"][x].required
  /\ \A c \in Drafting(s)!Keyed : \A x \in DOMAIN D[c] :
       Drafting(s)!Key(c, E[c][x]) = Drafting(s)!Key(c, D[c][x])

LEMMA DraftingGrown ==
  ASSUME NEW s \in DraftingScenes, Drafting(s)!IInv, DraftingGrows(s, db, db')
  PROVE  /\ \A d : Drafting(s)!Filled(d) => Drafting(s)!Filled(d)'
         /\ \A j : Drafting(s)!JobSound(j) => Drafting(s)!JobSound(j)'
<1>1. ASSUME NEW d, Drafting(s)!Filled(d) PROVE Drafting(s)!Filled(d)'
  BY <1>1 DEF DraftingGrows, DraftingTables, Drafting!Filled, Drafting!Ids
<1>2. ASSUME NEW h, Drafting(s)!WriteSound(h) PROVE Drafting(s)!WriteSound(h)'
  <2>1. Drafting(s)!Collections = DraftingTables
    BY DraftingTyped DEF Drafting!IInv
  <2>2. Drafting(s)!WriteTyped(h, Drafting(s)!RowType)'
    BY <1>2, <2>1 DEF DraftingGrows, Drafting!WriteSound, Drafting!WriteTyped, Drafting!Ids
  <2>3. h.op = "replace" => h.id \in DOMAIN db[h.c]
    BY <1>2 DEF Drafting!WriteSound, Drafting!WriteTyped, Drafting!Ids
  <2>4. h.op \in {"append", "replace"}
    BY <1>2 DEF Drafting!WriteSound, Drafting!WriteTyped
  <2>5. h.c \in Drafting(s)!Keyed /\ h.op = "replace"
          => Drafting(s)!Key(h.c, h.row) = Drafting(s)!Key(h.c, db'[h.c][h.id])
    <3>1. ASSUME h.c \in Drafting(s)!Keyed, h.op = "replace"
          PROVE  /\ Drafting(s)!Key(h.c, h.row) = Drafting(s)!Key(h.c, db[h.c][h.id])
                 /\ Drafting(s)!Key(h.c, db'[h.c][h.id]) = Drafting(s)!Key(h.c, db[h.c][h.id])
      <4>1. Drafting(s)!Key(h.c, h.row) = Drafting(s)!Key(h.c, db[h.c][h.id])
        BY <1>2, <3>1 DEF Drafting!WriteSound
      <4>2. Drafting(s)!Key(h.c, db'[h.c][h.id]) = Drafting(s)!Key(h.c, db[h.c][h.id])
        BY <2>3, <3>1 DEF DraftingGrows
      <4> QED BY <4>1, <4>2
    <3> QED BY <3>1
  <2>6. h.c = "templateVersions" =>
          IF h.op = "append" THEN h.row.status = "DRAFT" ELSE h.row.required = db'[h.c][h.id].required
    BY <1>2, <2>3, <2>4 DEF DraftingGrows, Drafting!WriteSound
  <2>7. h.c = "contractDrafts" => Drafting(s)!Filled(h.row)'
    BY <1>1, <1>2 DEF Drafting!WriteSound
  <2> QED BY <1>2, <2>2, <2>5, <2>6, <2>7 DEF Drafting!WriteSound, Drafting!Key
<1>3. ASSUME NEW j, Drafting(s)!JobSound(j) PROVE Drafting(s)!JobSound(j)'
  BY <1>2, <1>3 DEF DraftingGrows, DraftingTables, Drafting!JobSound, Drafting!Ids, Drafting!Alone,
     Drafting!Twofold, Drafting!Listed
<1> QED BY <1>1, <1>3

(* A write that is admitted.                                               *)
LEMMA DraftingWritten ==
  ASSUME NEW s \in DraftingScenes, Drafting(s)!IInv, NEW h, Drafting(s)!WriteSound(h),
         Drafting(s)!Admits(h), db' = Drafting(s)!Written(h)
  PROVE  /\ DraftingGrows(s, db, db') /\ Drafting(s)!NothingCountedTwice'
         /\ \A x \in DOMAIN db'["contractDrafts"] : \A y : y = db'["contractDrafts"][x] => Drafting(s)!Filled(y)'
         /\ Drafting(s)!ClosedRoundStays
<1> DEFINE t == "templateVersions"
           d == "contractDrafts"
           r == "negotiationRounds"
           K(c, row) == Drafting(s)!Key(c, row)
<1>1. /\ DOMAIN db = DraftingTables /\ t \in DOMAIN db /\ d \in DOMAIN db /\ r \in DOMAIN db
      /\ Drafting(s)!Keyed \subseteq DOMAIN db
      /\ \A c \in DOMAIN db : DOMAIN db[c] = 1..Len(db[c]) /\ Len(db[c]) \in Nat
      /\ h.op \in {"append", "replace"} /\ (h.op = "replace" => h.id \in DOMAIN db[h.c])
      /\ Keeps(db, db', h) /\ Adds(db, db', h)
  <2>1. {t, d, r} \cup Drafting(s)!Keyed \subseteq DraftingTables
    BY DEF DraftingTables, Drafting!Keyed
  <2> QED BY <2>1, DraftingTyped, DraftingLands DEF Drafting!IInv
<1>2. /\ h.c \in Drafting(s)!Keyed /\ h.op = "replace" => K(h.c, h.row) = K(h.c, db[h.c][h.id])
      /\ h.c = t /\ h.op = "replace" => h.row.required = db[t][h.id].required
      /\ h.c = d => Drafting(s)!Filled(h.row)
  <2>1. h.c \in Drafting(s)!Keyed /\ h.op = "replace" => K(h.c, h.row) = K(h.c, db[h.c][h.id])
    BY DEF Drafting!WriteSound
  <2>2. h.c = t /\ h.op = "replace" => h.row.required = db[t][h.id].required
    BY DEF Drafting!WriteSound
  <2>3. h.c = d => Drafting(s)!Filled(h.row)
    BY DEF Drafting!WriteSound
  <2> QED BY <2>1, <2>2, <2>3
<1>3. h.c \in Drafting(s)!Keyed /\ h.op = "append" => \A x \in DOMAIN db[h.c] : K(h.c, db[h.c][x]) # K(h.c, h.row)
  BY DEF Drafting!Admits, Drafting!KeyFree, Drafting!Ids
<1>4. h.c = r /\ h.op = "replace" => db[r][h.id].status \notin {"WITHDRAWN", "ACCEPTED"}
  <2>1. Drafting(s)!Terminal(r) = {"WITHDRAWN", "ACCEPTED"}
    BY DEF Drafting!Terminal
  <2> QED BY <2>1 DEF Drafting!Admits, Drafting!InStatus
<1>5. \A c \in Drafting(s)!Keyed : \A x \in DOMAIN db[c] : K(c, db'[c][x]) = K(c, db[c][x])
  <2> HIDE DEF K
  <2> QED BY <1>1, <1>2 DEF Keeps
<1>6. DraftingGrows(s, db, db')
  <2>1. \A c \in DraftingTables : \A x \in DOMAIN db[c] : x \in DOMAIN db'[c]
    BY <1>1 DEF Keeps
  <2>2. \A x \in DOMAIN db[t] : db'[t][x].required = db[t][x].required
    BY <1>1, <1>2 DEF Keeps
  <2> QED BY <1>5, <2>1, <2>2 DEF DraftingGrows
<1>7. Drafting(s)!NothingCountedTwice'
  <2>1. ASSUME NEW c \in Drafting(s)!Keyed, NEW x \in DOMAIN db'[c], NEW y \in DOMAIN db'[c], K(c, db'[c][x]) = K(c, db'[c][y])
        PROVE  x = y
    <3>1. \A z \in DOMAIN db[c] : K(c, db'[c][z]) = K(c, db[c][z])
      BY <1>5
    <3>2. \A u, v \in DOMAIN db[c] : K(c, db[c][u]) = K(c, db[c][v]) => u = v
      BY DEF Drafting!IInv, Drafting!NothingCountedTwice, Drafting!Ids
    <3>3. \A z \in DOMAIN db'[c] : z \in DOMAIN db[c] \/ (h.op = "append" /\ h.c = c /\ z = Len(db[c]) + 1 /\ db'[c][z] = h.row)
      BY <1>1 DEF Adds
    <3> HIDE DEF K
    <3> QED BY <1>3, <2>1, <3>1, <3>2, <3>3
  <2> QED BY <2>1 DEF Drafting!NothingCountedTwice, Drafting!Ids, Drafting!Key
<1>8. ASSUME NEW x \in DOMAIN db'[d], NEW y, y = db'[d][x] PROVE Drafting(s)!Filled(y)'
  <2>1. Drafting(s)!Filled(y)
    <3>1. \A z \in DOMAIN db[d] : Drafting(s)!Filled(db[d][z])
      BY DEF Drafting!IInv, Drafting!Ids
    <3> QED BY <1>1, <1>2, <1>8, <3>1 DEF Keeps, Adds
  <2> QED BY <1>6, <2>1, DraftingGrown
<1>9. Drafting(s)!ClosedRoundStays
  <2>1. \A x \in DOMAIN db[r] : db[r][x].status \in {"SUBMITTED", "WITHDRAWN", "ACCEPTED"}
    <3>1. \A x \in DOMAIN db[r] : db[r][x] \in Drafting(s)!RowType[r]
      BY <1>1, DraftingTyped DEF Drafting!IInv
    <3> QED BY <3>1 DEF Drafting!RowType, Drafting!NegotiationRound
  <2> QED BY <1>1, <1>4, <2>1 DEF Keeps, Drafting!ClosedRoundStays, Drafting!Ids, Drafting!InStatus
<1> QED BY <1>6, <1>7, <1>8, <1>9

----------------------------------------------------------------------------
(* A request moves to its next call, or makes a write.  What it is about   *)
(* to insert is published; and unless it dies, what is to hold of one that *)
(* comes in turn still holds of it.                                        *)
DraftingInserts(s, j) ==
  Drafting(s)!Writes(j, "clauseInstances", "append") => Drafting(s)!Insertable(j.todo[1].row.clause)

DraftingKeeps(s, i, j) ==
  Drafting(s)!Numbered(i) /\ Drafting(s)!Replaced(i) => Drafting(s)!Numbered(j) /\ Drafting(s)!Replaced(j)

DraftingMoves(s, w) ==
  \E j : /\ job' = [job EXCEPT ![w] = j] /\ UNCHANGED db /\ Drafting(s)!JobSound(j)
         /\ j = job[w] \/ DraftingInserts(s, j)
         /\ ~Drafting(s)!Deathless \/ DraftingKeeps(s, job[w], j)

DraftingWrites(s, w) ==
  \E h, j :
    /\ Drafting(s)!WriteSound(h) /\ Drafting(s)!Admits(h) /\ db' = Drafting(s)!Written(h)
    /\ job' = [job EXCEPT ![w] = j] /\ Drafting(s)!JobSound(j)
    /\ Drafting(s)!JobSound(job[w]) /\ job[w].at = "write" /\ h = job[w].todo[1]
    /\ \/ j.at = "idle" /\ Tail(job[w].todo) = <<>>
       \/ j.at = "write" /\ j.todo = Tail(job[w].todo) /\ Tail(job[w].todo) # <<>>

(* Most calls do not count documents or put template versions in force.    *)
DraftingPlain(s, j) ==
  \/ j.at = "idle"
  \/ /\ j.at = "write" /\ j.todo[1].c \notin {"documentVersions", "contractDrafts"}
     /\ ~Drafting(s)!Writes(j, "templateVersions", "replace")

LEMMA DraftingPlainly ==
  ASSUME NEW s \in DraftingScenes, NEW i, NEW j, DraftingPlain(s, i), DraftingPlain(s, j)
  PROVE  DraftingKeeps(s, i, j)
<1> SUFFICES ASSUME Drafting(s)!Numbered(i), Drafting(s)!Replaced(i)
             PROVE  Drafting(s)!Numbered(j) /\ Drafting(s)!Replaced(j)
  BY DEF DraftingKeeps
<1>1. ~Drafting(s)!Writes(i, "contractDrafts", "replace")
  BY DEF DraftingPlain, Drafting!Writes
<1>2. Drafting(s)!Numbered(j)
  BY <1>1 DEF DraftingPlain, Drafting!Numbered
<1>3. /\ ~(i.at = "write" /\ Drafting(s)!Publishes(i.todo[1])) /\ ~(j.at = "write" /\ Drafting(s)!Publishes(j.todo[1]))
      /\ ~Drafting(s)!Writes(j, "templateVersions", "replace") /\ j.at # "published"
  BY DEF DraftingPlain, Drafting!Publishes, Drafting!Writes
<1>4. Drafting(s)!Replaced(j)
  BY <1>3 DEF Drafting!Replaced
<1> QED BY <1>2, <1>4

LEMMA DraftingAsks ==
  ASSUME NEW s \in DraftingScenes, NEW w, NEW h, Drafting(s)!Ask(w, <<h>>), Drafting(s)!WriteSound(h),
         h.c \notin {"documentVersions", "contractDrafts"},
         h.c = "templateVersions" => h.op = "append",
         h.c = "clauseInstances" => Drafting(s)!Insertable(h.row.clause)
  PROVE  DraftingMoves(s, w)
<1> DEFINE j == [at |-> "write", todo |-> <<h>>]
<1>1. j.at = "write" /\ j.todo = <<h>> /\ j.todo[1] = h
  OBVIOUS
<1>2. job' = [job EXCEPT ![w] = j] /\ UNCHANGED db /\ job[w].at = "idle"
  BY DEF Drafting!Ask, Drafting!Receive, Drafting!Carry, Drafting!At
<1> HIDE DEF j
<1>3. Drafting(s)!JobSound(j)
  <2>1. ListedTodo(<<h>>) /\ DOMAIN <<h>> = {1}
    BY TodoOfOne
  <2> QED BY <1>1, <2>1 DEF Drafting!JobSound, Drafting!Listed, ListedTodo, Drafting!Alone
<1>4. DraftingPlain(s, j) /\ DraftingPlain(s, job[w]) /\ DraftingInserts(s, j)
  BY <1>1, <1>2 DEF DraftingPlain, DraftingInserts, Drafting!Writes
<1> QED BY <1>2, <1>3, <1>4, DraftingPlainly DEF DraftingMoves

LEMMA DraftingAppends ==
  ASSUME NEW s \in DraftingScenes, Drafting(s)!IInv, NEW w, NEW c \in DraftingTables,
         c \notin {"documentVersions", "contractDrafts"}, NEW row \in Drafting(s)!RowType[c],
         Drafting(s)!Ask(w, <<Drafting(s)!New(c, row)>>),
         c = "templateVersions" => row.status = "DRAFT",
         c = "clauseInstances" => Drafting(s)!Insertable(row.clause)
  PROVE  DraftingMoves(s, w)
<1> DEFINE h == Drafting(s)!New(c, row)
<1>1. Drafting(s)!WriteTyped(h, Drafting(s)!RowType) /\ h.op = "append" /\ h.c = c /\ h.row = row
  BY DraftingNew
<1>2. Drafting(s)!Ask(w, <<h>>)
  OBVIOUS
<1> HIDE DEF h
<1>3. Drafting(s)!WriteSound(h)
  BY <1>1 DEF Drafting!WriteSound
<1> QED BY <1>1, <1>2, <1>3, DraftingAsks

LEMMA DraftingSets ==
  ASSUME NEW s \in DraftingScenes, Drafting(s)!IInv, NEW w,
         NEW c \in {"clauseVersions", "clauseDeviations", "negotiationRounds"},
         NEW x \in DOMAIN db[c], NEW row \in Drafting(s)!RowType[c],
         Drafting(s)!Ask(w, <<Drafting(s)!Put(c, x, row)>>),
         c \in Drafting(s)!Keyed => Drafting(s)!Key(c, row) = Drafting(s)!Key(c, db[c][x])
  PROVE  DraftingMoves(s, w)
<1> DEFINE h == Drafting(s)!Put(c, x, row)
<1>0. c \in DraftingTables
  BY DEF DraftingTables
<1>1. Drafting(s)!WriteTyped(h, Drafting(s)!RowType) /\ h.op = "replace" /\ h.c = c /\ h.id = x /\ h.row = row
  BY <1>0, DraftingPut
<1>2. Drafting(s)!Ask(w, <<h>>)
  OBVIOUS
<1> HIDE DEF h
<1>3. Drafting(s)!WriteSound(h)
  BY <1>1 DEF Drafting!WriteSound
<1> QED BY <1>1, <1>2, <1>3, DraftingAsks

(* A number that no document has yet.                                      *)
LEMMA DraftingFresh ==
  ASSUME NEW s \in DraftingScenes, NEW k \in Drafting(s)!Fresh
  PROVE  k \in Nat /\ Drafting(s)!Document(k) = {}
<1>1. Cast[s].rows["documentVersions"] \in Nat
  BY PlatformAssumption DEF Drafting!DraftingAssumption, Drafting!RowType
<1>2. Drafting(s)!Cardinality(Cast[s].workers) \in Nat
  <2>1. IsFiniteSet(Cast[s].workers)
    BY PlatformAssumption DEF Drafting!DraftingAssumption, Drafting!IsFiniteSet, IsFiniteSet
  <2> QED BY <2>1, FS_CardinalityType, DraftingCardinality
<1> DEFINE n == Cast[s].rows["documentVersions"] + Drafting(s)!Cardinality(Cast[s].workers)
<1>3. n \in Nat
  BY <1>1, <1>2
<1>4. k \in 1..n /\ k \notin Drafting(s)!Drawn
  BY DEF Drafting!Fresh
<1>5. Drafting(s)!Document(k) = {}
  BY <1>4 DEF Drafting!Drawn, Drafting!Document
<1> HIDE DEF n
<1> QED BY <1>3, <1>4, <1>5

(* A draft changed, but not what it names.                                 *)
LEMMA DraftingChanges ==
  ASSUME NEW s \in DraftingScenes, Drafting(s)!IInv, NEW w, NEW x \in DOMAIN db["contractDrafts"], NEW row,
         Drafting(s)!Ask(w, <<Drafting(s)!PutDraft(x, row)>>),
         row \in Drafting(s)!ContractDraft, Drafting(s)!Filled(row),
         row.key = db["contractDrafts"][x].key, row.document = db["contractDrafts"][x].document
  PROVE  DraftingMoves(s, w)
<1> DEFINE c == "contractDrafts"
           h == Drafting(s)!Put(c, x, row)
           j == [at |-> "write", todo |-> <<h>>]
<1>1. Drafting(s)!WriteTyped(h, Drafting(s)!RowType) /\ h.op = "replace" /\ h.c = c /\ h.id = x /\ h.row = row
  <2>1. row \in Drafting(s)!RowType[c] /\ c \in DraftingTables
    BY DEF Drafting!RowType, DraftingTables
  <2> QED BY <2>1, DraftingPut
<1>2. j.at = "write" /\ j.todo = <<h>> /\ j.todo[1] = h
  OBVIOUS
<1>3. job' = [job EXCEPT ![w] = j] /\ UNCHANGED db /\ job[w].at = "idle"
  BY DEF Drafting!Ask, Drafting!Receive, Drafting!Carry, Drafting!At, Drafting!PutDraft
<1> HIDE DEF j, h
<1>4. Drafting(s)!WriteSound(h)
  BY <1>1 DEF Drafting!WriteSound, Drafting!Keyed
<1>5. Drafting(s)!JobSound(j)
  <2>1. ListedTodo(<<h>>) /\ DOMAIN <<h>> = {1}
    BY TodoOfOne
  <2> QED BY <1>1, <1>2, <1>4, <2>1 DEF Drafting!JobSound, Drafting!Listed, ListedTodo, Drafting!Alone
<1>6. DraftingInserts(s, j)
  BY <1>1, <1>2 DEF DraftingInserts, Drafting!Writes
<1>7. ASSUME Drafting(s)!Numbered(job[w]), Drafting(s)!Replaced(job[w])
      PROVE  Drafting(s)!Numbered(j) /\ Drafting(s)!Replaced(j)
  <2>1. /\ Drafting(s)!Newest(db[c][x]) /\ Drafting(s)!Document(db[c][x].key) # {}
    BY <1>3, <1>7 DEF Drafting!Numbered, Drafting!Ids, Drafting!Writes
  <2>2. Drafting(s)!Naming(h)
    BY <1>1, <2>1 DEF Drafting!Naming, Drafting!Newest
  <2>3. Drafting(s)!Numbered(j)
    BY <1>1, <1>2, <1>3, <1>7, <2>2 DEF Drafting!Numbered, Drafting!Writes
  <2>4. Drafting(s)!Replaced(j)
    BY <1>1, <1>2, <1>3, <1>7 DEF Drafting!Replaced, Drafting!Writes, Drafting!Publishes
  <2> QED BY <2>3, <2>4
<1> QED BY <1>3, <1>5, <1>6, <1>7 DEF DraftingMoves, DraftingKeeps

(* A document is numbered, and the draft that names it.                    *)
LEMMA DraftingAsksTwo ==
  ASSUME NEW s \in DraftingScenes, NEW w, NEW h, NEW g, Drafting(s)!Ask(w, <<h, g>>),
         Drafting(s)!WriteSound(h), Drafting(s)!WriteSound(g), h.c = "documentVersions", g.c = "contractDrafts",
         Drafting(s)!Numbered(job[w]) => Drafting(s)!Documenting(h, g)
  PROVE  DraftingMoves(s, w)
<1> DEFINE j == [at |-> "write", todo |-> <<h, g>>]
<1>1. j.at = "write" /\ j.todo = <<h, g>> /\ j.todo[1] = h /\ j.todo[2] = g
  OBVIOUS
<1>2. job' = [job EXCEPT ![w] = j] /\ UNCHANGED db /\ job[w].at = "idle"
  BY DEF Drafting!Ask, Drafting!Receive, Drafting!Carry, Drafting!At
<1> HIDE DEF j
<1>3. Drafting(s)!JobSound(j)
  <2> DEFINE u == <<h, g>>
  <2>1. DOMAIN u = {1, 2} /\ ListedTodo(u)
    <3>1. DOMAIN u = {1, 2}
      OBVIOUS
    <3>2. ListedTodo(u)
      BY TodoOfTwo
    <3> QED BY <3>1, <3>2
  <2> HIDE DEF u
  <2>2. \A n \in DOMAIN j.todo : Drafting(s)!WriteSound(j.todo[n])
    BY <1>1, <2>1 DEF u
  <2>3. Drafting(s)!Listed(j.todo) /\ Drafting(s)!Twofold(j)
    BY <1>1, <2>1 DEF Drafting!Listed, ListedTodo, Drafting!Twofold, u
  <2> QED BY <1>1, <2>2, <2>3 DEF Drafting!JobSound
<1>4. DraftingInserts(s, j)
  BY <1>1 DEF DraftingInserts, Drafting!Writes
<1>5. ASSUME Drafting(s)!Numbered(job[w]), Drafting(s)!Replaced(job[w])
      PROVE  Drafting(s)!Numbered(j) /\ Drafting(s)!Replaced(j)
  <2>1. Drafting(s)!Numbered(j)
    BY <1>1, <1>2, <1>5 DEF Drafting!Numbered, Drafting!Writes
  <2>2. Drafting(s)!Replaced(j)
    BY <1>1, <1>2, <1>5 DEF Drafting!Replaced, Drafting!Writes, Drafting!Publishes
  <2> QED BY <2>1, <2>2
<1> QED BY <1>2, <1>3, <1>4, <1>5 DEF DraftingMoves, DraftingKeeps

LEMMA DraftingHandles ==
  ASSUME NEW s \in DraftingScenes, Drafting(s)!IInv, NEW w, Drafting(s)!Handle(w)
  PROVE  DraftingMoves(s, w)
<1>1. \A c \in DraftingTables :
        /\ DOMAIN db[c] = 1..Len(db[c]) /\ Len(db[c]) \in Nat
        /\ \A x \in DOMAIN db[c] : db[c][x] \in Drafting(s)!RowType[c] /\ x \in Nat
  BY DraftingTyped DEF Drafting!IInv
<1>2. \A x \in DOMAIN db["contractDrafts"] :
        /\ Drafting(s)!Filled(db["contractDrafts"][x])
        /\ db["contractDrafts"][x] \in Drafting(s)!ContractDraft
  <2>1. "contractDrafts" \in DraftingTables
    BY DEF DraftingTables
  <2> QED BY <1>1, <2>1 DEF Drafting!IInv, Drafting!Ids, Drafting!RowType
<1>3. CASE Drafting(s)!Create(w)
  <2>1. PICK n \in Cast[s].numbers : Drafting(s)!Ask(w, <<Drafting(s)!New("agreements", [number |-> n])>>)
    BY <1>3 DEF Drafting!Create, Drafting!NewAgreement
  <2>2. "agreements" \in DraftingTables /\ [number |-> n] \in Drafting(s)!RowType["agreements"]
    BY DEF DraftingTables, Drafting!RowType, Drafting!Agreement
  <2> QED BY <2>1, <2>2, DraftingAppends
<1>4. CASE Drafting(s)!CreateTemplateVersion(w)
  <2> DEFINE c == "templateVersions"
             m == Len(db[c]) + 1
  <2>1. PICK r \in BOOLEAN :
          Drafting(s)!Ask(w, <<Drafting(s)!New(c, [status |-> "DRAFT", version |-> m, required |-> r])>>)
    BY <1>4 DEF Drafting!CreateTemplateVersion
  <2> DEFINE row == [status |-> "DRAFT", version |-> m, required |-> r]
  <2>2. c \in DraftingTables /\ m \in Nat \ {0}
    BY <1>1 DEF DraftingTables
  <2> HIDE DEF m
  <2>3. row \in Drafting(s)!RowType[c] /\ row.status = "DRAFT"
    BY <2>2 DEF Drafting!RowType, Drafting!TemplateVersion
  <2>4. Drafting(s)!Ask(w, <<Drafting(s)!New(c, row)>>)
    BY <2>1
  <2> HIDE DEF row
  <2> QED BY <2>2, <2>3, <2>4, DraftingAppends
<1>5. CASE Drafting(s)!PublishTemplate(w)
  <2> DEFINE c == "templateVersions"
  <2>1. PICK x \in DOMAIN db[c] : Drafting(s)!InStatus(c, x, {"DRAFT"}) /\ Drafting(s)!Look(w, [at |-> "published", id |-> x])
    BY <1>5 DEF Drafting!PublishTemplate, Drafting!Ids
  <2> DEFINE j == [at |-> "published", id |-> x]
  <2>2. j.at = "published" /\ j.id = x
    OBVIOUS
  <2>3. job' = [job EXCEPT ![w] = j] /\ UNCHANGED db /\ job[w].at = "idle"
    BY <2>1 DEF Drafting!Look, Drafting!Receive, Drafting!Carry, Drafting!At
  <2> HIDE DEF j
  <2>4. Drafting(s)!JobSound(j) /\ DraftingInserts(s, j)
    BY <2>1, <2>2 DEF Drafting!JobSound, Drafting!Ids, DraftingInserts, Drafting!Writes
  <2>5. ASSUME Drafting(s)!Numbered(job[w]), Drafting(s)!Replaced(job[w])
        PROVE  Drafting(s)!Numbered(j) /\ Drafting(s)!Replaced(j)
    <3>1. Drafting(s)!Numbered(j)
      BY <2>2, <2>3, <2>5 DEF Drafting!Numbered, Drafting!Writes
    <3>2. Drafting(s)!Replaced(j)
      BY <2>1, <2>2, <2>3, <2>5 DEF Drafting!Replaced, Drafting!Writes, Drafting!Draft, Drafting!Ids
    <3> QED BY <3>1, <3>2
  <2> QED BY <2>3, <2>4, <2>5 DEF DraftingMoves, DraftingKeeps
<1>6. CASE Drafting(s)!CreateDraft(w)
  <2> DEFINE c == "documentVersions"
             e == "contractDrafts"
             Doc(k) == [key |-> k, draft |-> k, number |-> 1]
             Dra(t, k) == [status |-> "WORKING", key |-> k, template |-> t, document |-> k, filled |-> FALSE]
  <2>1. PICK t \in Drafting(s)!Published, k \in Drafting(s)!Fresh :
          /\ Drafting(s)!Room(c) /\ Drafting(s)!Room(e)
          /\ Drafting(s)!Ask(w, <<Drafting(s)!New(c, Doc(k)), Drafting(s)!New(e, Dra(t, k))>>)
    BY <1>6 DEF Drafting!CreateDraft, Drafting!NewDocument
  <2> DEFINE a == Doc(k)
             b == Dra(t, k)
             h == Drafting(s)!New(c, a)
             g == Drafting(s)!New(e, b)
  <2>2. k \in Nat /\ Drafting(s)!Document(k) = {}
    BY DraftingFresh
  <2>3. c \in DraftingTables /\ e \in DraftingTables /\ "templateVersions" \in DraftingTables
    BY DEF DraftingTables
  <2>4. t \in DOMAIN db["templateVersions"] /\ t \in Nat
    BY <1>1, <2>3 DEF Drafting!Published, Drafting!Ids
  <2>5. a \in Drafting(s)!RowType[c] /\ a.key = k /\ a.draft = k
    BY <2>2 DEF Drafting!RowType, Drafting!DocumentVersion
  <2>6. /\ b \in Drafting(s)!RowType[e] /\ b.key = k /\ b.document = k
        /\ b.template = t /\ b.status = "WORKING"
    BY <2>2, <2>4 DEF Drafting!RowType, Drafting!ContractDraft
  <2>7. Drafting(s)!Ask(w, <<h, g>>)
    BY <2>1
  <2> HIDE DEF a, b, Doc, Dra
  <2>8. /\ Drafting(s)!WriteTyped(h, Drafting(s)!RowType) /\ h.op = "append" /\ h.c = c /\ h.row = a
        /\ Drafting(s)!WriteTyped(g, Drafting(s)!RowType) /\ g.op = "append" /\ g.c = e /\ g.row = b
    BY <2>3, <2>5, <2>6, DraftingNew
  <2> HIDE DEF h, g
  <2>9. Drafting(s)!Filled(b)
    BY <2>4, <2>6 DEF Drafting!Filled, Drafting!Ids
  <2>10. Drafting(s)!WriteSound(h) /\ Drafting(s)!WriteSound(g)
    BY <2>8, <2>9 DEF Drafting!WriteSound
  <2>11. ASSUME Drafting(s)!Numbered(job[w]) PROVE Drafting(s)!Documenting(h, g)
    <3>1. \A y \in Drafting(s)!Ids(c) : db[c][y].draft # k
      BY <2>2, <2>11 DEF Drafting!Numbered
    <3> QED BY <2>1, <2>2, <2>5, <2>6, <2>8, <3>1 DEF Drafting!Documenting
  <2> QED BY <2>7, <2>8, <2>10, <2>11, DraftingAsksTwo
<1>7. CASE Drafting(s)!SetVariables(w)
  <2> DEFINE c == "contractDrafts"
  <2>1. PICK x \in DOMAIN db[c], f \in BOOLEAN :
          /\ Drafting(s)!InStatus(c, x, {"WORKING"})
          /\ Drafting(s)!Ask(w, <<Drafting(s)!PutDraft(x, [db[c][x] EXCEPT !.filled = f])>>)
    BY <1>7 DEF Drafting!SetVariables, Drafting!Ids
  <2> DEFINE d == db[c][x]
             row == [d EXCEPT !.filled = f]
  <2>2. d \in Drafting(s)!ContractDraft /\ Drafting(s)!Filled(d) /\ d.status = "WORKING"
    BY <1>2, <2>1 DEF Drafting!InStatus
  <2>3. /\ row \in Drafting(s)!ContractDraft /\ row.key = d.key /\ row.document = d.document
        /\ row.template = d.template /\ row.status = "WORKING"
    BY <2>2 DEF Drafting!ContractDraft
  <2>4. Drafting(s)!Ask(w, <<Drafting(s)!PutDraft(x, row)>>)
    BY <2>1
  <2> HIDE DEF row
  <2>5. Drafting(s)!Filled(row)
    BY <2>2, <2>3 DEF Drafting!Filled
  <2> QED BY <2>3, <2>4, <2>5, DraftingChanges
<1>8. CASE Drafting(s)!Lock(w)
  <2> DEFINE c == "contractDrafts"
  <2>1. PICK x \in DOMAIN db[c] : Drafting(s)!Ask(w, <<Drafting(s)!PutDraft(x, [db[c][x] EXCEPT !.status = "LOCKED"])>>)
    BY <1>8 DEF Drafting!Lock, Drafting!Ids
  <2> DEFINE d == db[c][x]
             row == [d EXCEPT !.status = "LOCKED"]
  <2>2. d \in Drafting(s)!ContractDraft /\ Drafting(s)!Filled(d)
    BY <1>2
  <2>3. /\ row \in Drafting(s)!ContractDraft /\ row.key = d.key /\ row.document = d.document
        /\ row.template = d.template /\ row.status = "LOCKED"
    BY <2>2 DEF Drafting!ContractDraft
  <2>4. Drafting(s)!Ask(w, <<Drafting(s)!PutDraft(x, row)>>)
    BY <2>1
  <2> HIDE DEF row
  <2>5. Drafting(s)!Filled(row)
    BY <2>2, <2>3 DEF Drafting!Filled
  <2> QED BY <2>3, <2>4, <2>5, DraftingChanges
<1>9. CASE Drafting(s)!SubmitDraft(w)
  <2> DEFINE c == "contractDrafts"
  <2>1. PICK x \in DOMAIN db[c] :
          /\ Drafting(s)!Complete(db[c][x])
          /\ Drafting(s)!Ask(w, <<Drafting(s)!PutDraft(x, [db[c][x] EXCEPT !.status = "SUBMITTED"])>>)
    BY <1>9 DEF Drafting!SubmitDraft, Drafting!Ids
  <2> DEFINE d == db[c][x]
             row == [d EXCEPT !.status = "SUBMITTED"]
  <2>2. d \in Drafting(s)!ContractDraft /\ Drafting(s)!Filled(d)
    BY <1>2
  <2>3. /\ row \in Drafting(s)!ContractDraft /\ row.key = d.key /\ row.document = d.document
        /\ row.template = d.template /\ row.filled = d.filled
    BY <2>2 DEF Drafting!ContractDraft
  <2>4. Drafting(s)!Ask(w, <<Drafting(s)!PutDraft(x, row)>>)
    BY <2>1
  <2> HIDE DEF row
  <2>5. Drafting(s)!Filled(row)
    BY <2>1, <2>2, <2>3 DEF Drafting!Filled, Drafting!Complete
  <2> QED BY <2>3, <2>4, <2>5, DraftingChanges
<1>10. CASE Drafting(s)!Revise(w)
  <2> DEFINE c == "documentVersions"
             e == "contractDrafts"
             Doc(x, k, y) == [key |-> k, draft |-> db[e][x].key, number |-> db[c][y].number + 1]
             Dra(x, k) == [db[e][x] EXCEPT !.document = k, !.status = "WORKING"]
  <2>0. PICK x \in DOMAIN db[e], k \in Drafting(s)!Fresh :
          /\ Drafting(s)!Room(c)
          /\ \E y \in Drafting(s)!Document(db[e][x].document) :
               Drafting(s)!Ask(w, <<Drafting(s)!New(c, Doc(x, k, y)), Drafting(s)!Put(e, x, Dra(x, k))>>)
    BY <1>10 DEF Drafting!Revise, Drafting!Ids, Drafting!NewDocument, Drafting!PutDraft
  <2>1. PICK y \in Drafting(s)!Document(db[e][x].document) :
          Drafting(s)!Ask(w, <<Drafting(s)!New(c, Doc(x, k, y)), Drafting(s)!Put(e, x, Dra(x, k))>>)
    BY <2>0
  <2> DEFINE d == db[e][x]
             n == db[c][y].number + 1
             a == [key |-> k, draft |-> d.key, number |-> n]
             b == [d EXCEPT !.document = k, !.status = "WORKING"]
             h == Drafting(s)!New(c, a)
             g == Drafting(s)!Put(e, x, b)
  <2>2. k \in Nat /\ Drafting(s)!Document(k) = {}
    BY DraftingFresh
  <2>3. c \in DraftingTables /\ e \in DraftingTables
    BY DEF DraftingTables
  <2>4. d \in Drafting(s)!ContractDraft /\ Drafting(s)!Filled(d)
    BY <1>2
  <2>5. \A z \in DOMAIN db[c] : db[c][z].number \in Nat
    BY <1>1, <2>3 DEF Drafting!RowType, Drafting!DocumentVersion
  <2>6. y \in DOMAIN db[c] /\ db[c][y].key = d.document /\ n \in Nat
    BY <2>5 DEF Drafting!Document, Drafting!Ids
  <2>7. Drafting(s)!Ask(w, <<h, g>>)
    BY <2>1
  <2>8. n = db[c][y].number + 1
    OBVIOUS
  <2> HIDE DEF n, Doc, Dra
  <2>9. a \in Drafting(s)!RowType[c] /\ a.key = k /\ a.draft = d.key /\ a.number = n
    BY <2>2, <2>4, <2>6 DEF Drafting!RowType, Drafting!DocumentVersion, Drafting!ContractDraft
  <2>10. /\ b \in Drafting(s)!RowType[e] /\ b.key = d.key /\ b.document = k
         /\ b.template = d.template /\ b.status = "WORKING"
    BY <2>2, <2>4 DEF Drafting!RowType, Drafting!ContractDraft
  <2> HIDE DEF a, b
  <2>11. /\ Drafting(s)!WriteTyped(h, Drafting(s)!RowType) /\ h.op = "append" /\ h.c = c /\ h.row = a
         /\ Drafting(s)!WriteTyped(g, Drafting(s)!RowType)
         /\ g.op = "replace" /\ g.c = e /\ g.id = x /\ g.row = b
    BY <2>3, <2>9, <2>10, DraftingNew, DraftingPut
  <2> HIDE DEF h, g
  <2>12. Drafting(s)!Filled(b)
    BY <2>4, <2>10 DEF Drafting!Filled
  <2>13. Drafting(s)!WriteSound(h) /\ Drafting(s)!WriteSound(g)
    BY <2>11, <2>12 DEF Drafting!WriteSound, Drafting!Keyed
  <2>14. job[w].at = "idle"
    BY <2>7 DEF Drafting!Ask, Drafting!Receive, Drafting!At
  <2>15. ASSUME Drafting(s)!Numbered(job[w]) PROVE Drafting(s)!Documenting(h, g)
    <3>1. Drafting(s)!Newest(d)
      BY <2>14, <2>15 DEF Drafting!Numbered, Drafting!Writes, Drafting!Ids
    <3>2. ASSUME NEW z \in DOMAIN db[c], db[c][z].draft = d.key PROVE db[c][z].number < n
      <4>1. PICK u \in Drafting(s)!Document(d.document) : db[c][z].number <= db[c][u].number
        BY <3>1, <3>2 DEF Drafting!Newest, Drafting!Ids
      <4>2. u = y
        BY <2>6, <2>15, <4>1 DEF Drafting!Numbered, Drafting!Document, Drafting!Ids
      <4> QED BY <2>5, <2>6, <2>8, <3>2, <4>1, <4>2
    <3> QED BY <2>0, <2>2, <2>9, <2>10, <2>11, <3>2 DEF Drafting!Documenting, Drafting!Ids
  <2> QED BY <2>7, <2>11, <2>13, <2>15, DraftingAsksTwo
<1>11. CASE Drafting(s)!Comment(w)
  <2> DEFINE c == "contractComments"
  <2>1. PICK x \in DOMAIN db["agreements"], v \in {"INTERNAL", "SHARED"} :
          Drafting(s)!Ask(w, <<Drafting(s)!New(c, [contract |-> x, visibility |-> v])>>)
    BY <1>11 DEF Drafting!Comment, Drafting!Ids, Drafting!NewComment
  <2>2. c \in DraftingTables /\ "agreements" \in DraftingTables
    BY DEF DraftingTables
  <2>3. [contract |-> x, visibility |-> v] \in Drafting(s)!RowType[c]
    BY <1>1, <2>2 DEF Drafting!RowType, Drafting!ContractComment
  <2> QED BY <2>1, <2>2, <2>3, DraftingAppends
<1>12. CASE Drafting(s)!CreateClause(w)
  <2> DEFINE c == "clauseVersions"
             m == Len(db[c]) + 1
             row == [status |-> "DRAFT", version |-> m]
  <2>1. Drafting(s)!Ask(w, <<Drafting(s)!New(c, row)>>)
    BY <1>12 DEF Drafting!CreateClause
  <2>2. c \in DraftingTables /\ m \in Nat
    BY <1>1 DEF DraftingTables
  <2> HIDE DEF m
  <2>3. row \in Drafting(s)!RowType[c]
    BY <2>2 DEF Drafting!RowType, Drafting!ClauseVersion
  <2> HIDE DEF row
  <2> QED BY <2>1, <2>2, <2>3, DraftingAppends
<1>13. CASE Drafting(s)!PublishClause(w) \/ Drafting(s)!Retire(w)
  <2> DEFINE c == "clauseVersions"
  <2>1. PICK x \in DOMAIN db[c], st \in {"PUBLISHED", "RETIRED"} :
          Drafting(s)!Ask(w, <<Drafting(s)!Put(c, x, [db[c][x] EXCEPT !.status = st])>>)
    BY <1>13 DEF Drafting!PublishClause, Drafting!Retire, Drafting!Ids, Drafting!PutClause, Drafting!Set
  <2> DEFINE row == [db[c][x] EXCEPT !.status = st]
  <2>2. db[c][x] \in Drafting(s)!ClauseVersion
    <3>1. c \in DraftingTables
      BY DEF DraftingTables
    <3> QED BY <1>1, <3>1 DEF Drafting!RowType
  <2>3. row \in Drafting(s)!RowType[c] /\ row.version = db[c][x].version
    BY <2>2 DEF Drafting!RowType, Drafting!ClauseVersion
  <2> HIDE DEF row
  <2>4. Drafting(s)!Key(c, row) = Drafting(s)!Key(c, db[c][x])
    BY <2>3 DEF Drafting!Key
  <2> QED BY <2>1, <2>3, <2>4, DraftingSets DEF row
<1>14. CASE Drafting(s)!Insert(w)
  <2> DEFINE c == "clauseInstances"
  <2>1. PICK x \in {0} \cup DOMAIN db["clauseVersions"] :
          Drafting(s)!Insertable(x) /\ Drafting(s)!Ask(w, <<Drafting(s)!New(c, [clause |-> x])>>)
    BY <1>14 DEF Drafting!Insert, Drafting!Ids, Drafting!NewInstance
  <2> DEFINE row == [clause |-> x]
  <2>2. c \in DraftingTables /\ "clauseVersions" \in DraftingTables
    BY DEF DraftingTables
  <2>3. row \in Drafting(s)!RowType[c] /\ row.clause = x
    BY <1>1, <2>2 DEF Drafting!RowType, Drafting!ClauseInstance
  <2> HIDE DEF row
  <2> QED BY <2>1, <2>2, <2>3, DraftingAppends DEF row
<1>15. CASE Drafting(s)!Deviate(w)
  <2> DEFINE c == "clauseDeviations"
  <2>1. PICK x \in DOMAIN db["clauseVersions"] :
          Drafting(s)!Ask(w, <<Drafting(s)!New(c, [status |-> "PENDING", baseline |-> x])>>)
    BY <1>15 DEF Drafting!Deviate, Drafting!Ids
  <2>2. c \in DraftingTables /\ "clauseVersions" \in DraftingTables
    BY DEF DraftingTables
  <2>3. [status |-> "PENDING", baseline |-> x] \in Drafting(s)!RowType[c]
    BY <1>1, <2>2 DEF Drafting!RowType, Drafting!ClauseDeviation
  <2> QED BY <2>1, <2>2, <2>3, DraftingAppends
<1>16. CASE Drafting(s)!ApproveDeviation(w)
  <2> DEFINE c == "clauseDeviations"
  <2>1. PICK x \in DOMAIN db[c] : Drafting(s)!Ask(w, <<Drafting(s)!Put(c, x, [db[c][x] EXCEPT !.status = "APPROVED"])>>)
    BY <1>16 DEF Drafting!ApproveDeviation, Drafting!Ids, Drafting!PutDeviation, Drafting!Set
  <2> DEFINE row == [db[c][x] EXCEPT !.status = "APPROVED"]
  <2>2. db[c][x] \in Drafting(s)!ClauseDeviation
    <3>1. c \in DraftingTables
      BY DEF DraftingTables
    <3> QED BY <1>1, <3>1 DEF Drafting!RowType
  <2>3. row \in Drafting(s)!RowType[c] /\ c \notin Drafting(s)!Keyed
    BY <2>2 DEF Drafting!RowType, Drafting!ClauseDeviation, Drafting!Keyed
  <2> QED BY <2>1, <2>3, DraftingSets
<1>17. CASE Drafting(s)!SubmitRound(w)
  <2> DEFINE c == "negotiationRounds"
             R(k) == {r \in DOMAIN db[c] : db[c][r].contract = k}
             N(k) == 1 + Drafting(s)!Cardinality(R(k))
  <2>1. PICK k \in DOMAIN db["agreements"], p \in Cast[s].parties, o \in BOOLEAN :
          Drafting(s)!Ask(w, <<Drafting(s)!New(c,
            [status |-> "SUBMITTED", contract |-> k, by |-> p, open |-> o, number |-> N(k)])>>)
    BY <1>17 DEF Drafting!SubmitRound, Drafting!Ids
  <2> DEFINE n == N(k)
             row == [status |-> "SUBMITTED", contract |-> k, by |-> p, open |-> o, number |-> n]
  <2>2. c \in DraftingTables /\ "agreements" \in DraftingTables
    BY DEF DraftingTables
  <2>3. n \in Nat
    <3>1. R(k) \subseteq 1..Len(db[c]) /\ Len(db[c]) \in Nat
      BY <1>1, <2>2
    <3> HIDE DEF R
    <3>2. Cardinality(R(k)) \in Nat
      BY <3>1, RowsFinite
    <3> QED BY <3>2, DraftingCardinality
  <2>4. Drafting(s)!Ask(w, <<Drafting(s)!New(c, row)>>)
    BY <2>1
  <2> HIDE DEF n, N, R
  <2>5. row \in Drafting(s)!RowType[c]
    BY <1>1, <2>2, <2>3 DEF Drafting!RowType, Drafting!NegotiationRound
  <2> HIDE DEF row
  <2> QED BY <2>2, <2>4, <2>5, DraftingAppends
<1>18. CASE Drafting(s)!Withdraw(w) \/ Drafting(s)!Accept(w)
  <2> DEFINE c == "negotiationRounds"
  <2>1. PICK x \in DOMAIN db[c], st \in {"WITHDRAWN", "ACCEPTED"} :
          Drafting(s)!Ask(w, <<Drafting(s)!Put(c, x, [db[c][x] EXCEPT !.status = st])>>)
    BY <1>18 DEF Drafting!Withdraw, Drafting!Accept, Drafting!Ids, Drafting!PutRound, Drafting!Set
  <2> DEFINE row == [db[c][x] EXCEPT !.status = st]
  <2>2. db[c][x] \in Drafting(s)!NegotiationRound
    <3>1. c \in DraftingTables
      BY DEF DraftingTables
    <3> QED BY <1>1, <3>1 DEF Drafting!RowType
  <2>3. /\ row \in Drafting(s)!RowType[c] /\ row.contract = db[c][x].contract
        /\ row.number = db[c][x].number
    BY <2>2 DEF Drafting!RowType, Drafting!NegotiationRound
  <2> HIDE DEF row
  <2>4. Drafting(s)!Key(c, row) = Drafting(s)!Key(c, db[c][x])
    BY <2>3 DEF Drafting!Key
  <2> QED BY <2>1, <2>3, <2>4, DraftingSets DEF row
<1> QED BY <1>3, <1>4, <1>5, <1>6, <1>7, <1>8, <1>9, <1>10, <1>11, <1>12, <1>13, <1>14, <1>15, <1>16, <1>17, <1>18
        DEF Drafting!Handle

(* The versions that are in force are taken back before the next is.       *)
LEMMA DraftingReads ==
  ASSUME NEW s \in DraftingScenes, Drafting(s)!IInv, NEW w \in Cast[s].workers, Drafting(s)!ReadPublished(w)
  PROVE  DraftingMoves(s, w)
<1> DEFINE c == "templateVersions"
           S == Drafting(s)!Published
           id == job[w].id
           B(x) == [db[c][x] EXCEPT !.status = "SUPERSEDED"]
           a == [db[c][id] EXCEPT !.status = "PUBLISHED"]
           g == Drafting(s)!Put(c, id, a)
           F(q) == [n \in DOMAIN q |-> Drafting(s)!Put(c, q[n], B(q[n]))]
<1>1. /\ c \in DraftingTables /\ DOMAIN db[c] = 1..Len(db[c]) /\ Len(db[c]) \in Nat
      /\ \A x \in DOMAIN db[c] : db[c][x] \in Drafting(s)!TemplateVersion /\ x \in Nat
  <2>1. c \in DraftingTables
    BY DEF DraftingTables
  <2> QED BY <2>1, DraftingTyped DEF Drafting!IInv, Drafting!RowType
<1>2. job[w].at = "published" /\ id \in DOMAIN db[c] /\ Drafting(s)!JobSound(job[w])
  BY DEF Drafting!ReadPublished, Drafting!At, Drafting!IInv, Drafting!JobSound, Drafting!Ids
<1>3. PICK q \in Drafting(s)!Listing(S) : Drafting(s)!Decide(w, F(q) \o <<g>>)
  BY DEF Drafting!ReadPublished, Drafting!PutTemplate, Drafting!Set
<1> DEFINE f == F(q)
<1>4. S \subseteq DOMAIN db[c] /\ S \subseteq 1..Len(db[c]) /\ \A x \in S : db[c][x].status = "PUBLISHED"
  BY <1>1 DEF Drafting!Published, Drafting!Ids, Drafting!InStatus
<1>5. q \in [1..Cardinality(S) -> S] /\ Cardinality(S) \in Nat
  <2>1. q \in [1..Drafting(s)!Cardinality(S) -> S]
    BY DEF Drafting!Listing
  <2>2. Drafting(s)!Cardinality(S) = Cardinality(S)
    BY DraftingCardinality
  <2>3. Cardinality(S) \in Nat
    BY <1>1, <1>4, RowsFinite
  <2> HIDE DEF S
  <2> QED BY <2>1, <2>2, <2>3
<1>6. ASSUME NEW x \in DOMAIN db[c], NEW st \in {"PUBLISHED", "SUPERSEDED"}, NEW b, b = [db[c][x] EXCEPT !.status = st]
      PROVE  LET h == Drafting(s)!Put(c, x, b)
             IN Drafting(s)!WriteSound(h) /\ h.c = c /\ h.op = "replace" /\ h.id = x /\ h.row.status = st
  <2> DEFINE h == Drafting(s)!Put(c, x, b)
  <2>1. /\ b \in Drafting(s)!RowType[c] /\ b.required = db[c][x].required /\ b.version = db[c][x].version
        /\ b.status = st
    BY <1>1, <1>6 DEF Drafting!RowType, Drafting!TemplateVersion
  <2>2. Drafting(s)!WriteTyped(h, Drafting(s)!RowType) /\ h.op = "replace" /\ h.c = c /\ h.id = x /\ h.row = b
    BY <1>1, <2>1, DraftingPut
  <2> HIDE DEF h
  <2>3. Drafting(s)!Key(h.c, h.row) = Drafting(s)!Key(h.c, db[h.c][h.id])
    BY <2>1, <2>2 DEF Drafting!Key
  <2>4. Drafting(s)!WriteSound(h)
    BY <2>1, <2>2, <2>3 DEF Drafting!WriteSound
  <2> QED BY <2>1, <2>2, <2>4 DEF h
<1>7. Drafting(s)!WriteSound(g) /\ g.c = c /\ g.op = "replace" /\ g.id = id /\ g.row.status = "PUBLISHED"
  <2> HIDE DEF g
  <2> QED BY <1>2, <1>6 DEF g
<1>8. \A n \in 1..Cardinality(S) : LET h == f[n]
        IN Drafting(s)!WriteSound(h) /\ h.c = c /\ h.op = "replace" /\ h.id = q[n] /\ h.row.status = "SUPERSEDED"
  <2> SUFFICES ASSUME NEW n \in 1..Cardinality(S)
               PROVE  LET h == f[n]
                      IN /\ Drafting(s)!WriteSound(h) /\ h.c = c /\ h.op = "replace" /\ h.id = q[n]
                         /\ h.row.status = "SUPERSEDED"
    OBVIOUS
  <2>1. q[n] \in DOMAIN db[c] /\ n \in DOMAIN q
    BY <1>4, <1>5
  <2>2. f[n] = Drafting(s)!Put(c, q[n], B(q[n]))
    BY <2>1
  <2> HIDE DEF f, F
  <2> QED BY <2>1, <2>2, <1>6
<1> DEFINE t == f \o <<g>>
           j == [at |-> "write", todo |-> t]
           m == Cardinality(S)
<1>9. TodoOf(t, m, f, g)
  <2> DEFINE R == {f[n] : n \in 1..m}
  <2>1. f \in [1..m -> R]
    BY <1>5
  <2> HIDE DEF R, f, g, m
  <2> QED BY <1>5, <2>1, TodoAppended DEF m
<1>10. j.at = "write" /\ j.todo = t
  OBVIOUS
<1>11. job' = [job EXCEPT ![w] = j] /\ UNCHANGED db
  BY <1>3 DEF Drafting!Decide, Drafting!Then, Drafting!Carry
<1>12. OneEach(Len(db[c]), S, q, f) <=> \A x, y \in S : x = y
  <2>1. f = [k \in DOMAIN q |-> f[k]]
    OBVIOUS
  <2> HIDE DEF f, F, S
  <2> QED BY <1>1, <1>4, <1>5, <2>1 DEF OneEach
<1>13. (\A x, y \in S : x = y) => \/ S = {} /\ t = <<g>>
                                  \/ 1 \in DOMAIN q /\ q[1] \in S /\ t = <<f[1], g>>
  <2> HIDE DEF f, g, F, S
  <2> QED BY <1>12, OneBefore
<1> HIDE DEF f, g, F, t, j, S, id, m
<1>14. \A n \in DOMAIN j.todo :
         Drafting(s)!WriteSound(j.todo[n]) /\ j.todo[n].c = c /\ j.todo[n].op = "replace"
  <2>1. \A n \in 1..(m + 1) : n \in 1..m \/ n = m + 1
    BY <1>5 DEF m
  <2> QED BY <1>7, <1>8, <1>9, <1>10, <2>1 DEF TodoOf, m
<1>15. Drafting(s)!JobSound(j)
  <2>1. Drafting(s)!Listed(j.todo)
    BY <1>9, <1>10 DEF TodoOf, ListedTodo, Drafting!Listed
  <2> QED BY <1>10, <1>14, <2>1 DEF Drafting!JobSound
<1>16. 1 \in DOMAIN j.todo /\ j.todo[1].c = c /\ j.todo[1].op = "replace"
  BY <1>9, <1>10, <1>14, TodoHead DEF TodoOf
<1>17. DraftingInserts(s, j)
  BY <1>16 DEF DraftingInserts, Drafting!Writes
<1>18. ASSUME Drafting(s)!Numbered(job[w]), Drafting(s)!Replaced(job[w])
       PROVE  Drafting(s)!Numbered(j) /\ Drafting(s)!Replaced(j)
  <2>1. Drafting(s)!Numbered(j)
    BY <1>2, <1>10, <1>16, <1>18 DEF Drafting!Numbered, Drafting!Writes
  <2>2. /\ \A x, y \in S : x = y
        /\ Drafting(s)!Draft(id)
    BY <1>2, <1>18 DEF Drafting!Replaced, S, id
  <2>3. Drafting(s)!Publishes(g)
    BY <1>7, <2>2 DEF Drafting!Publishes
  <2>4. CASE S = {} /\ t = <<g>>
    <3>1. j.todo[1] = g /\ Drafting(s)!Alone(j)
      BY <1>10, <2>4 DEF Drafting!Alone
    <3>2. Drafting(s)!Publishes(j.todo[1]) /\ Drafting(s)!Published = {} /\ j.at = "write"
      BY <1>10, <2>3, <2>4, <3>1 DEF S
    <3> QED BY <2>1, <3>1, <3>2 DEF Drafting!Replaced
  <2>5. CASE 1 \in DOMAIN q /\ q[1] \in S /\ t = <<f[1], g>>
    <3>1. j.todo[1] = f[1] /\ j.todo[2] = g /\ Drafting(s)!Twofold(j)
      BY <1>10, <2>5 DEF Drafting!Twofold
    <3>2. 1 \in 1..Cardinality(S)
      BY <1>5, <2>5
    <3>3. f[1].id = q[1] /\ f[1].row.status = "SUPERSEDED"
      BY <1>8, <3>2
    <3>4. S = {q[1]}
      BY <2>2, <2>5
    <3>5. /\ j.todo[1].row.status = "SUPERSEDED" /\ Drafting(s)!Published = {j.todo[1].id}
          /\ Drafting(s)!Publishes(j.todo[2]) /\ j.at = "write"
      BY <1>10, <2>3, <3>1, <3>3, <3>4 DEF S
    <3> QED BY <2>1, <3>1, <3>5 DEF Drafting!Replaced
  <2> QED BY <1>13, <2>1, <2>2, <2>4, <2>5
<1> QED BY <1>11, <1>15, <1>17, <1>18 DEF DraftingMoves, DraftingKeeps

(* No request that comes in turn is refused a document, a draft or what is *)
(* to become of a template version.                                        *)
LEMMA DraftingRefused ==
  ASSUME NEW s \in DraftingScenes, Drafting(s)!IInv, NEW i, Drafting(s)!JobSound(i), i.at = "write",
         Drafting(s)!Numbered(i), Drafting(s)!Replaced(i), NEW h, h = i.todo[1],
         ~Drafting(s)!Admits(h) \/ (h.op = "append" /\ ~Drafting(s)!Room(h.c))
  PROVE  DraftingPlain(s, i)
<1>1. CASE h.c = "documentVersions"
  <2> DEFINE c == "documentVersions"
             g == i.todo[2]
  <2>1. Drafting(s)!Documenting(h, g)
    BY <1>1 DEF Drafting!Numbered
  <2>2. Drafting(s)!WriteSound(h)
    <3>1. 1 \in DOMAIN i.todo
      BY TodoHead DEF Drafting!JobSound, Drafting!Listed, ListedTodo
    <3> QED BY <3>1 DEF Drafting!JobSound
  <2>3. h.op = "append" /\ h.row \in Drafting(s)!RowType[c]
    BY <1>1, <2>2 DEF Drafting!WriteSound, Drafting!WriteTyped
  <2>4. h.row.number \in Nat /\ \A x \in DOMAIN db[c] : db[c][x].number \in Nat
    <3>1. c \in DraftingTables
      BY DEF DraftingTables
    <3>2. \A x \in DOMAIN db[c] : db[c][x] \in Drafting(s)!RowType[c]
      BY <3>1, DraftingTyped DEF Drafting!IInv
    <3> QED BY <2>3, <3>2 DEF Drafting!RowType, Drafting!DocumentVersion
  <2>5. \A x \in DOMAIN db[c] : db[c][x].draft # h.row.draft \/ db[c][x].number # h.row.number
    <3>1. ASSUME NEW x \in DOMAIN db[c], db[c][x].draft = h.row.draft PROVE db[c][x].number < h.row.number
      BY <2>1, <3>1 DEF Drafting!Documenting, Drafting!Ids
    <3> QED BY <2>4, <3>1
  <2>6. Drafting(s)!Admits(h)
    <3>1. \A row : Drafting(s)!Key(c, row) = <<row.draft, row.number>>
      BY DEF Drafting!Key
    <3>2. \A x \in DOMAIN db[c] : Drafting(s)!Key(c, db[c][x]) # Drafting(s)!Key(c, h.row)
      <4> SUFFICES ASSUME NEW x \in DOMAIN db[c]
                   PROVE  Drafting(s)!Key(c, db[c][x]) # Drafting(s)!Key(c, h.row)
        OBVIOUS
      <4>1. <<db[c][x].draft, db[c][x].number>> # <<h.row.draft, h.row.number>>
        BY <2>5
      <4> QED BY <3>1, <4>1
    <3>3. Drafting(s)!KeyFree(h)
      BY <1>1, <3>2 DEF Drafting!KeyFree, Drafting!Ids
    <3> QED BY <2>3, <3>3 DEF Drafting!Admits
  <2>7. Drafting(s)!Room(h.c)
    BY <1>1, <2>1 DEF Drafting!Documenting
  <2> QED BY <2>6, <2>7
<1>2. CASE h.c = "contractDrafts"
  <2>1. Drafting(s)!Naming(h)
    BY <1>2 DEF Drafting!Numbered
  <2>2. h.op = "append" => Drafting(s)!Room(h.c)
    BY <1>2, <2>1 DEF Drafting!Naming
  <2>3. Drafting(s)!Admits(h)
    BY <1>2 DEF Drafting!Admits, Drafting!KeyFree, Drafting!Keyed
  <2> QED BY <2>2, <2>3
<1>3. CASE h.c = "templateVersions" /\ h.op = "replace"
  <2>1. Drafting(s)!Terminal("templateVersions") = {"SUPERSEDED"}
    BY DEF Drafting!Terminal
  <2>2. ~Drafting(s)!InStatus("templateVersions", h.id, {"SUPERSEDED"})
    BY <1>3 DEF Drafting!Replaced, Drafting!Writes, Drafting!Publishes, Drafting!Draft, Drafting!Published,
       Drafting!InStatus
  <2> QED BY <1>3, <2>1, <2>2 DEF Drafting!Admits
<1> QED BY <1>1, <1>2, <1>3 DEF DraftingPlain, Drafting!Writes

LEMMA DraftingGivesUp ==
  ASSUME NEW s \in DraftingScenes, NEW w, Drafting(s)!GiveUp(w),
         \/ ~Drafting(s)!Deathless
         \/ Drafting(s)!Numbered(job[w]) /\ Drafting(s)!Replaced(job[w]) => DraftingPlain(s, job[w])
  PROVE  DraftingMoves(s, w)
<1> DEFINE j == Drafting(s)!Idle
<1>1. j.at = "idle" /\ job' = [job EXCEPT ![w] = j] /\ UNCHANGED db
  BY DEF Drafting!GiveUp, Drafting!Return, Drafting!Carry, Drafting!Idle
<1> HIDE DEF j
<1>2. Drafting(s)!JobSound(j) /\ DraftingInserts(s, j) /\ DraftingPlain(s, j)
  BY <1>1 DEF Drafting!JobSound, DraftingInserts, DraftingPlain, Drafting!Writes
<1>3. ~Drafting(s)!Deathless \/ DraftingKeeps(s, job[w], j)
  BY <1>2, DraftingPlainly DEF DraftingKeeps
<1> QED BY <1>1, <1>2, <1>3 DEF DraftingMoves

LEMMA DraftingCommits ==
  ASSUME NEW s \in DraftingScenes, Drafting(s)!IInv, NEW w \in Cast[s].workers,
         Drafting(s)!Commit(w, Drafting(s)!Admits(Drafting(s)!Due(w)))
  PROVE  DraftingMoves(s, w) \/ DraftingWrites(s, w)
<1> DEFINE t == job[w].todo
           h == t[1]
<1>1. /\ Drafting(s)!JobSound(job[w]) /\ job[w].at = "write"
      /\ ListedTodo(t) /\ \A n \in DOMAIN t : Drafting(s)!WriteSound(t[n])
  BY DEF Drafting!Commit, Drafting!At, Drafting!IInv, Drafting!JobSound, Drafting!Listed, ListedTodo
<1>2. 1 \in DOMAIN t /\ Drafting(s)!Due(w) = h
  BY <1>1, TodoHead DEF Drafting!Due
<1>3. \/ /\ Drafting(s)!Admits(h) /\ db' = Drafting(s)!Written(h)
         /\ IF Tail(t) = <<>> THEN Drafting(s)!Return(w)
            ELSE Drafting(s)!Carry(w, [at |-> "write", todo |-> Tail(t)])
      \/ /\ ~Drafting(s)!Admits(h) \/ (h.op = "append" /\ ~Drafting(s)!Room(h.c))
         /\ Drafting(s)!GiveUp(w)
  BY <1>2 DEF Drafting!Commit
<1>4. CASE /\ Drafting(s)!Admits(h) /\ db' = Drafting(s)!Written(h)
           /\ Tail(t) = <<>> /\ Drafting(s)!Return(w)
  <2> DEFINE j == Drafting(s)!Idle
  <2>1. j.at = "idle" /\ job' = [job EXCEPT ![w] = j]
    BY <1>4 DEF Drafting!Return, Drafting!Carry, Drafting!Idle
  <2> HIDE DEF j
  <2>2. Drafting(s)!JobSound(j)
    BY <2>1 DEF Drafting!JobSound
  <2> QED BY <1>1, <1>2, <1>4, <2>1, <2>2 DEF DraftingWrites
<1>5. CASE /\ Drafting(s)!Admits(h) /\ db' = Drafting(s)!Written(h)
           /\ Tail(t) # <<>> /\ Drafting(s)!Carry(w, [at |-> "write", todo |-> Tail(t)])
  <2> DEFINE u == Tail(t)
             j == [at |-> "write", todo |-> u]
  <2>1. j.at = "write" /\ j.todo = u /\ job' = [job EXCEPT ![w] = j]
    BY <1>5 DEF Drafting!Carry
  <2>2. /\ ListedTodo(u)
        /\ \A n \in DOMAIN u : n \in Nat \ {0} /\ n + 1 \in DOMAIN t /\ u[n] = t[n + 1]
    BY <1>1, <1>5, TodoTail
  <2>3. \A n \in DOMAIN u : Drafting(s)!WriteSound(u[n])
    BY <1>1, <2>2
  <2>4. t # <<h>>
    BY <1>5, TodoOfOne
  <2>8. Drafting(s)!Listed(j.todo) /\ \A n \in DOMAIN j.todo : Drafting(s)!WriteSound(j.todo[n])
    <3> HIDE DEF j, u
    <3> QED BY <2>1, <2>2, <2>3 DEF Drafting!Listed, ListedTodo
  <2>5. ASSUME Drafting(s)!Twofold(job[w]), t[2].c = "contractDrafts" PROVE Drafting(s)!JobSound(j)
    <3> DEFINE g == t[2]
    <3>1. t = <<h, g>>
      BY <2>5 DEF Drafting!Twofold
    <3>2. u = <<g>>
      <4> HIDE DEF g, h, t, u
      <4>1. Tail(t) = <<g>>
        BY <3>1, TodoOfTwo
      <4> QED BY <4>1 DEF u
    <3>3. j.todo[1] = g /\ j.todo = <<g>> /\ g.c = "contractDrafts"
      BY <2>1, <2>5, <3>2
    <3> HIDE DEF g, t, h, j, u
    <3>4. Drafting(s)!Alone(j) /\ j.todo[1].c # "documentVersions"
      BY <3>3 DEF Drafting!Alone
    <3> QED BY <2>1, <2>8, <3>4 DEF Drafting!JobSound
  <2>6. ASSUME \A n \in DOMAIN t : t[n].c = "templateVersions" /\ t[n].op = "replace"
        PROVE  Drafting(s)!JobSound(j)
    <3>1. \A n \in DOMAIN u : u[n].c = "templateVersions" /\ u[n].op = "replace"
      BY <2>2, <2>6
    <3> HIDE DEF t, h, j, u
    <3>2. \A n \in DOMAIN j.todo : j.todo[n].c = "templateVersions" /\ j.todo[n].op = "replace"
      BY <2>1, <3>1
    <3> QED BY <2>1, <2>8, <3>2 DEF Drafting!JobSound
  <2>7. Drafting(s)!JobSound(j)
    <3>1. \/ Drafting(s)!Alone(job[w])
          \/ Drafting(s)!Twofold(job[w]) /\ t[2].c = "contractDrafts"
          \/ \A n \in DOMAIN t : t[n].c = "templateVersions" /\ t[n].op = "replace"
      BY <1>1 DEF Drafting!JobSound
    <3>2. ~Drafting(s)!Alone(job[w])
      BY <2>4 DEF Drafting!Alone
    <3> QED BY <2>5, <2>6, <3>1, <3>2
  <2> HIDE DEF j
  <2> QED BY <1>1, <1>2, <1>5, <2>1, <2>7 DEF DraftingWrites
<1>6. CASE (~Drafting(s)!Admits(h) \/ (h.op = "append" /\ ~Drafting(s)!Room(h.c))) /\ Drafting(s)!GiveUp(w)
  BY <1>1, <1>6, DraftingRefused, DraftingGivesUp
<1> QED BY <1>3, <1>4, <1>5, <1>6

LEMMA DraftingTakes ==
  ASSUME NEW s \in DraftingScenes, Drafting(s)!IInv, [Drafting(s)!Next]_<<db, job>>
  PROVE  \E w \in Cast[s].workers : DraftingMoves(s, w) \/ DraftingWrites(s, w)
<1>1. CASE Drafting(s)!Proceed
  BY <1>1, DraftingHandles, DraftingReads, DraftingCommits DEF Drafting!Proceed, Drafting!Continue
<1>2. ASSUME NEW w \in Cast[s].mortals, Drafting(s)!Die(w) PROVE w \in Cast[s].workers /\ DraftingMoves(s, w)
  <2>1. w \in Cast[s].workers /\ Drafting(s)!GiveUp(w) /\ ~Drafting(s)!Deathless
    BY <1>2, PlatformAssumption DEF Drafting!DraftingAssumption, Drafting!Die, Drafting!Crash, Drafting!GiveUp,
       Drafting!Deathless
  <2> QED BY <2>1, DraftingGivesUp
<1>3. CASE UNCHANGED <<db, job>>
  <2>1. PICK w \in Cast[s].workers : TRUE
    BY PlatformAssumption DEF Drafting!DraftingAssumption
  <2>2. job' = [job EXCEPT ![w] = job[w]] /\ Drafting(s)!JobSound(job[w])
    BY <1>3, CarryStays DEF Drafting!IInv
  <2>3. DraftingMoves(s, w)
    BY <1>3, <2>2 DEF DraftingMoves, DraftingKeeps
  <2> QED BY <2>3
<1> QED BY <1>1, <1>2, <1>3 DEF Drafting!Next

LEMMA DraftingInit ==
  ASSUME NEW s \in DraftingScenes, Drafting(s)!Empty PROVE Drafting(s)!IInv /\ Drafting(s)!SerialInv
<1>1. Drafting(s)!Collections = DraftingTables
  <2>1. Cast[s].rows \in [DOMAIN Drafting(s)!RowType -> Nat]
    BY PlatformAssumption DEF Drafting!DraftingAssumption
  <2>2. Drafting(s)!Collections = DOMAIN Drafting(s)!RowType
    BY <2>1 DEF Drafting!Collections
  <2> QED BY <2>2 DEF Drafting!RowType, DraftingTables
<1>2. /\ db = [c \in DraftingTables |-> <<>>]
      /\ job = [w \in Cast[s].workers |-> Drafting(s)!Idle]
  BY <1>1 DEF Drafting!Empty
<1>3. \A c \in DraftingTables : db[c] = <<>> /\ DOMAIN db[c] = {}
  BY <1>2
<1>4. Drafting(s)!TablesTyped(Drafting(s)!RowType)
  <2>1. \A T : <<>> \in Seq(T)
    OBVIOUS
  <2> QED BY <1>1, <1>2, <1>3, <2>1 DEF Drafting!TablesTyped
<1>5. \A c \in {"templateVersions", "documentVersions", "contractDrafts"} \cup Drafting(s)!Keyed : DOMAIN db[c] = {}
  BY <1>3 DEF DraftingTables, Drafting!Keyed
<1>6. Drafting(s)!NothingCountedTwice /\ \A x \in Drafting(s)!Ids("contractDrafts") : FALSE
  BY <1>5 DEF Drafting!NothingCountedTwice, Drafting!Ids
<1>7. /\ job = [w \in Cast[s].workers |-> job[w]]
      /\ \A w \in Cast[s].workers : job[w].at = "idle"
  BY <1>2 DEF Drafting!Idle
<1>8. ASSUME NEW w \in Cast[s].workers
      PROVE  /\ Drafting(s)!JobSound(job[w]) /\ ~Drafting(s)!Writes(job[w], "clauseInstances", "append")
             /\ Drafting(s)!Numbered(job[w]) /\ Drafting(s)!Replaced(job[w])
  <2>1. Drafting(s)!JobSound(job[w]) /\ ~Drafting(s)!Writes(job[w], "clauseInstances", "append")
    BY <1>7 DEF Drafting!JobSound, Drafting!Writes
  <2>2. /\ Drafting(s)!Ids("templateVersions") = {} /\ Drafting(s)!Ids("documentVersions") = {}
        /\ Drafting(s)!Ids("contractDrafts") = {} /\ Drafting(s)!Published = {}
    BY <1>5 DEF Drafting!Ids, Drafting!Published
  <2>3. Drafting(s)!Numbered(job[w])
    BY <1>7, <2>2 DEF Drafting!Numbered
  <2>4. Drafting(s)!Replaced(job[w])
    BY <1>7, <2>2 DEF Drafting!Replaced, Drafting!Writes
  <2> QED BY <2>1, <2>3, <2>4
<1>9. Drafting(s)!IInv
  BY <1>4, <1>6, <1>7, <1>8 DEF Drafting!IInv
<1> QED BY <1>8, <1>9 DEF Drafting!SerialInv

LEMMA DraftingPreserves ==
  ASSUME NEW s \in DraftingScenes, Drafting(s)!IInv, [Drafting(s)!Next]_<<db, job>>
  PROVE  Drafting(s)!IInv' /\ Drafting(s)!ClosedRoundStays
<1>1. PICK w \in Cast[s].workers : DraftingMoves(s, w) \/ DraftingWrites(s, w)
  BY DraftingTakes
<1>2. /\ job = [v \in Cast[s].workers |-> job[v]] /\ \A v \in Cast[s].workers : Drafting(s)!JobSound(job[v])
  BY DEF Drafting!IInv
<1>3. CASE DraftingMoves(s, w)
  <2>1. PICK j : job' = [job EXCEPT ![w] = j] /\ UNCHANGED db /\ Drafting(s)!JobSound(j)
    BY <1>3 DEF DraftingMoves
  <2>2. /\ job' = [v \in Cast[s].workers |-> job'[v]] /\ \A v \in Cast[s].workers : Drafting(s)!JobSound(job'[v])
    BY <1>2, <2>1, CarryMoves
  <2>3. DraftingGrows(s, db, db')
    BY <2>1 DEF DraftingGrows
  <2>4. ASSUME NEW v \in Cast[s].workers, NEW i, i = job'[v] PROVE Drafting(s)!JobSound(i)'
    BY <2>2, <2>3, <2>4, DraftingGrown
  <2>5. /\ Drafting(s)!TablesTyped(Drafting(s)!RowType)' /\ Drafting(s)!NothingCountedTwice'
        /\ \A x \in Drafting(s)!Ids("contractDrafts")' : Drafting(s)!Filled(db["contractDrafts"][x])'
    <3>1. Drafting(s)!TablesTyped(Drafting(s)!RowType)'
      BY <2>1 DEF Drafting!IInv, Drafting!TablesTyped
    <3>2. Drafting(s)!NothingCountedTwice'
      BY <2>1 DEF Drafting!IInv, Drafting!NothingCountedTwice, Drafting!Ids
    <3>3. \A x \in Drafting(s)!Ids("contractDrafts")' : Drafting(s)!Filled(db["contractDrafts"][x])'
      BY <2>1 DEF Drafting!IInv, Drafting!Filled, Drafting!Ids
    <3> QED BY <3>1, <3>2, <3>3
  <2>6. Drafting(s)!ClosedRoundStays
    BY <2>1 DEF Drafting!ClosedRoundStays
  <2>7. \A v \in Cast[s].workers : Drafting(s)!JobSound(job[v])'
    BY <2>4
  <2> QED BY <2>2, <2>5, <2>6, <2>7 DEF Drafting!IInv
<1>4. CASE DraftingWrites(s, w)
  <2>1. PICK h, j : /\ Drafting(s)!WriteSound(h) /\ Drafting(s)!Admits(h) /\ db' = Drafting(s)!Written(h)
                    /\ job' = [job EXCEPT ![w] = j] /\ Drafting(s)!JobSound(j)
    BY <1>4 DEF DraftingWrites
  <2>2. /\ DraftingGrows(s, db, db') /\ Drafting(s)!NothingCountedTwice' /\ Drafting(s)!ClosedRoundStays
        /\ \A x \in DOMAIN db'["contractDrafts"] : \A y : y = db'["contractDrafts"][x] => Drafting(s)!Filled(y)'
    BY <2>1, DraftingWritten
  <2>3. Drafting(s)!TablesTyped(Drafting(s)!RowType)'
    BY <2>1, DraftingLands
  <2>4. /\ job' = [v \in Cast[s].workers |-> job'[v]] /\ \A v \in Cast[s].workers : Drafting(s)!JobSound(job'[v])
    BY <1>2, <2>1, CarryMoves
  <2>5. ASSUME NEW v \in Cast[s].workers, NEW i, i = job'[v] PROVE Drafting(s)!JobSound(i)'
    BY <2>2, <2>4, <2>5, DraftingGrown
  <2>6. \A v \in Cast[s].workers : Drafting(s)!JobSound(job[v])'
    BY <2>5
  <2>7. \A x \in Drafting(s)!Ids("contractDrafts")' : Drafting(s)!Filled(db["contractDrafts"][x])'
    BY <2>2 DEF Drafting!Ids
  <2> QED BY <2>2, <2>3, <2>4, <2>6, <2>7 DEF Drafting!IInv
<1> QED BY <1>1, <1>3, <1>4

----------------------------------------------------------------------------
(* Requests that come in turn: one worker is all there is.                 *)
LEMMA DraftingSerialOne ==
  ASSUME NEW s \in DraftingScenes, Drafting(s)!InTurn, NEW w \in Cast[s].workers
  PROVE  /\ Drafting(s)!SerialInv <=>
              /\ DraftingInserts(s, job[w])
              /\ Drafting(s)!Deathless => Drafting(s)!Numbered(job[w]) /\ Drafting(s)!Replaced(job[w])
         /\ Drafting(s)!SerialInv' <=>
              /\ DraftingInserts(s, job[w])'
              /\ Drafting(s)!Deathless => Drafting(s)!Numbered(job[w])' /\ Drafting(s)!Replaced(job[w])'
<1>1. \A v \in Cast[s].workers : v = w
  BY DEF Drafting!InTurn
<1> QED BY <1>1 DEF Drafting!SerialInv, Drafting!InTurn, Drafting!Deathless, Drafting!Reliable, DraftingInserts

(* A write, when none dies.                                                *)
DraftingWriting(s, i, h, j) ==
  /\ Drafting(s)!WriteSound(h) /\ Drafting(s)!Admits(h) /\ db' = Drafting(s)!Written(h)
  /\ Drafting(s)!JobSound(i) /\ i.at = "write" /\ h = i.todo[1]
  /\ \/ j.at = "idle" /\ Tail(i.todo) = <<>>
     \/ j.at = "write" /\ j.todo = Tail(i.todo) /\ Tail(i.todo) # <<>>

LEMMA DraftingGoesOn ==
  ASSUME NEW s \in DraftingScenes, NEW i, NEW h, NEW j, DraftingWriting(s, i, h, j), Drafting(s)!Replaced(i)
  PROVE  \/ Drafting(s)!Alone(i) /\ j.at = "idle" /\ h.c # "documentVersions"
         \/ /\ Drafting(s)!Twofold(i) /\ j.at = "write" /\ j.todo = <<i.todo[2]>> /\ j.todo[1] = i.todo[2]
            /\ Drafting(s)!Alone(j)
            /\ \/ h.c = "documentVersions" /\ j.todo[1].c = "contractDrafts"
               \/ h.c = "templateVersions" /\ h.op = "replace" /\ j.todo[1].c = "templateVersions"
<1> DEFINE t == i.todo
           g == t[2]
<1>1. /\ i.at = "write" /\ h = t[1] /\ 1 \in DOMAIN t
      /\ \/ Drafting(s)!Alone(i) /\ h.c # "documentVersions"
         \/ Drafting(s)!Twofold(i) /\ h.c = "documentVersions" /\ g.c = "contractDrafts"
         \/ \A n \in DOMAIN t : t[n].c = "templateVersions" /\ t[n].op = "replace"
  <2>1. ListedTodo(t)
    BY DEF DraftingWriting, Drafting!JobSound, Drafting!Listed, ListedTodo
  <2> QED BY <2>1, TodoHead DEF DraftingWriting, Drafting!JobSound
<1>2. ASSUME \A n \in DOMAIN t : t[n].c = "templateVersions" /\ t[n].op = "replace"
      PROVE  Drafting(s)!Alone(i) \/ Drafting(s)!Twofold(i)
  BY <1>1, <1>2 DEF Drafting!Replaced, Drafting!Writes
<1>3. CASE Drafting(s)!Alone(i)
  <2>1. t = <<h>>
    BY <1>1, <1>3 DEF Drafting!Alone
  <2>2. Tail(t) = <<>>
    <3> HIDE DEF t
    <3> QED BY <2>1, TodoOfOne
  <2>3. h.c # "documentVersions"
    <3>1. ~Drafting(s)!Twofold(i)
      <4>1. Drafting(s)!Twofold(i) => t = <<h, g>>
        BY <1>1 DEF Drafting!Twofold
      <4> HIDE DEF t, g
      <4>2. <<h>> # <<h, g>>
        <5>1. Tail(<<h>>) = <<>> /\ Tail(<<h, g>>) = <<g>> /\ <<g>> # <<>>
          BY TodoOfOne, TodoOfTwo
        <5> QED BY <5>1
      <4> QED BY <2>1, <4>1, <4>2
    <3> QED BY <1>1, <3>1
  <2> QED BY <1>3, <2>2, <2>3 DEF DraftingWriting
<1>4. CASE Drafting(s)!Twofold(i)
  <2>1. t = <<h, g>>
    BY <1>1, <1>4 DEF Drafting!Twofold
  <2> HIDE DEF g, t
  <2>2. Tail(t) = <<g>> /\ <<g>> # <<>> /\ DOMAIN t = {1, 2} /\ t[2] = g
    <3>1. Tail(<<h, g>>) = <<g>> /\ <<g>> # <<>>
      BY TodoOfTwo
    <3>2. DOMAIN <<h, g>> = {1, 2} /\ <<h, g>>[2] = g
      OBVIOUS
    <3> QED BY <2>1, <3>1, <3>2
  <2>3. j.at = "write" /\ j.todo = <<g>>
    BY <2>2 DEF DraftingWriting, t
  <2>4. j.todo[1] = g /\ Drafting(s)!Alone(j)
    BY <2>3 DEF Drafting!Alone
  <2>5. t # <<h>>
    BY <2>2, TodoOfOne
  <2>6. \/ h.c = "documentVersions" /\ g.c = "contractDrafts"
        \/ h.c = "templateVersions" /\ h.op = "replace" /\ g.c = "templateVersions"
    <3>1. ~Drafting(s)!Alone(i)
      BY <1>1, <2>5 DEF Drafting!Alone, t
    <3> QED BY <1>1, <2>2, <3>1
  <2> QED BY <1>4, <2>3, <2>4, <2>6 DEF g, t
<1> QED BY <1>1, <1>2, <1>3, <1>4

LEMMA DraftingNumbers ==
  ASSUME NEW s \in DraftingScenes, Drafting(s)!IInv, NEW i, NEW h, NEW j, DraftingWriting(s, i, h, j),
         Drafting(s)!Numbered(i), Drafting(s)!Replaced(i)
  PROVE  Drafting(s)!Numbered(j)'
<1> DEFINE c == "documentVersions"
           e == "contractDrafts"
           y0 == Len(db[c]) + 1
           k == h.row.key
           dr == h.row.draft
<1>1. /\ c \in DOMAIN db /\ e \in DOMAIN db
      /\ \A b \in {c, e} : DOMAIN db[b] = 1..Len(db[b]) /\ Len(db[b]) \in Nat
      /\ \A y \in DOMAIN db[c] : db[c][y].number \in Nat
      /\ h.op \in {"append", "replace"} /\ h.row \in Drafting(s)!RowType[h.c]
      /\ Lands(db, db', h) /\ Keeps(db, db', h) /\ Adds(db, db', h)
  <2>1. c \in DraftingTables /\ e \in DraftingTables
    BY DEF DraftingTables
  <2>2. \A y \in DOMAIN db[c] : db[c][y] \in Drafting(s)!DocumentVersion
    BY <2>1, DraftingTyped DEF Drafting!IInv, Drafting!RowType
  <2>3. \A y \in DOMAIN db[c] : db[c][y].number \in Nat
    BY <2>2 DEF Drafting!DocumentVersion
  <2> QED BY <2>1, <2>3, DraftingTyped, DraftingLands DEF Drafting!IInv, DraftingWriting
<1>2. /\ i.at = "write" /\ h = i.todo[1] /\ Drafting(s)!WriteSound(h)
  BY DEF DraftingWriting
<1>3. \/ Drafting(s)!Alone(i) /\ j.at = "idle" /\ h.c # c
      \/ /\ Drafting(s)!Twofold(i) /\ j.at = "write" /\ j.todo = <<i.todo[2]>> /\ j.todo[1] = i.todo[2]
         /\ Drafting(s)!Alone(j)
         /\ \/ h.c = c /\ j.todo[1].c = e
            \/ h.c = "templateVersions" /\ h.op = "replace" /\ j.todo[1].c = "templateVersions"
  BY DraftingGoesOn
<1>4. /\ \A y, z \in DOMAIN db[c] : db[c][y].key = db[c][z].key => y = z
      /\ \A y \in DOMAIN db[c] : Drafting(s)!Document(db[c][y].draft) # {}
      /\ \A x \in DOMAIN db[e] :
           /\ Drafting(s)!Document(db[e][x].key) # {}
           /\ \A y \in DOMAIN db[e] : db[e][y].key = db[e][x].key => x = y
           /\ Drafting(s)!Newest(db[e][x]) \/ (h.c = e /\ h.op = "replace" /\ h.id = x)
  BY <1>2 DEF Drafting!Numbered, Drafting!Writes, Drafting!Ids
<1>5. CASE h.c \notin {c, e}
  <2>1. db'[c] = db[c] /\ db'[e] = db[e]
    BY <1>1, <1>5 DEF Lands
  <2>2. j.at = "idle" \/ (j.at = "write" /\ j.todo[1].c = "templateVersions")
    BY <1>3, <1>5
  <2>3. \A d : /\ Drafting(s)!Document(d)' = Drafting(s)!Document(d)
               /\ Drafting(s)!Newest(d)' <=> Drafting(s)!Newest(d)
    BY <2>1 DEF Drafting!Document, Drafting!Newest, Drafting!Ids
  <2>4. ASSUME NEW x \in DOMAIN db'[e], NEW d, d = db'[e][x] PROVE Drafting(s)!Newest(d)'
    BY <1>4, <1>5, <2>1, <2>3, <2>4
  <2>5. ASSUME NEW x \in DOMAIN db'[e], NEW d, d = db'[e][x].key PROVE Drafting(s)!Document(d)' # {}
    BY <1>4, <2>1, <2>3, <2>5
  <2>6. ASSUME NEW x \in DOMAIN db'[c], NEW d, d = db'[c][x].draft PROVE Drafting(s)!Document(d)' # {}
    BY <1>4, <2>1, <2>3, <2>6
  <2> QED BY <1>4, <2>1, <2>2, <2>4, <2>5, <2>6 DEF Drafting!Numbered, Drafting!Ids
<1>6. CASE h.c = c
  <2> DEFINE g == j.todo[1]
  <2>1. j.at = "write" /\ Drafting(s)!Alone(j) /\ g = i.todo[2] /\ g.c = e
    BY <1>3, <1>6
  <2>2. Drafting(s)!Documenting(h, g)
    BY <1>2, <1>6, <2>1 DEF Drafting!Numbered
  <2>3. /\ Drafting(s)!Document(k) = {}
        /\ \A y \in DOMAIN db[c] : db[c][y].draft = dr => db[c][y].number < h.row.number
        /\ g.row.document = k /\ g.row.key = dr
        /\ IF g.op = "append" THEN Drafting(s)!Room(e) /\ dr = k ELSE db[e][g.id].key = dr
    BY <2>2 DEF Drafting!Documenting, Drafting!Ids
  <2>4. h.op = "append"
    BY <1>2, <1>6 DEF Drafting!WriteSound
  <2>5. /\ db'[e] = db[e] /\ DOMAIN db'[c] = DOMAIN db[c] \cup {y0} /\ db'[c][y0] = h.row
        /\ \A y \in DOMAIN db[c] : db'[c][y] = db[c][y]
        /\ y0 \notin DOMAIN db[c] /\ h.row.number \in Nat
    <3>1. /\ db'[e] = db[e] /\ DOMAIN db'[c] = DOMAIN db[c] \cup {y0} /\ db'[c][y0] = h.row
          /\ \A y \in DOMAIN db[c] : db'[c][y] = db[c][y]
      BY <1>1, <1>6, <2>4 DEF Lands, Place, Keeps
    <3>2. y0 \notin DOMAIN db[c]
      BY <1>1
    <3>3. h.row.number \in Nat
      BY <1>1, <1>6 DEF Drafting!RowType, Drafting!DocumentVersion
    <3> QED BY <3>1, <3>2, <3>3
  <2> HIDE DEF y0, g, k, dr
  <2>6. /\ \A d : Drafting(s)!Document(d) \subseteq Drafting(s)!Document(d)'
        /\ y0 \in Drafting(s)!Document(k)'
    BY <2>5 DEF Drafting!Document, Drafting!Ids, k
  <2>7. g.op \in {"append", "replace"} /\ (g.op = "replace" => g.id \in DOMAIN db[e])
    <3>1. Drafting(s)!WriteSound(g)
      <4>1. 2 \in DOMAIN i.todo
        <5>1. i.todo = <<i.todo[1], i.todo[2]>>
          BY <1>3, <1>6 DEF Drafting!Twofold
        <5>2. \A a, b : 2 \in DOMAIN <<a, b>>
          OBVIOUS
        <5> QED BY <5>1, <5>2
      <4> QED BY <1>2, <2>1, <4>1 DEF DraftingWriting, Drafting!JobSound
    <3> QED BY <2>1, <3>1 DEF Drafting!WriteSound, Drafting!WriteTyped, Drafting!Ids
  <2>8. Drafting(s)!Document(dr)' # {}
    <3>1. CASE g.op = "append"
      BY <2>3, <2>6, <3>1
    <3>2. CASE g.op # "append"
      BY <1>4, <2>3, <2>6, <2>7, <3>2
    <3> QED BY <3>1, <3>2
  <2>9. \A y, z \in DOMAIN db'[c] : db'[c][y].key = db'[c][z].key => y = z
    <3>1. \A y \in DOMAIN db[c] : db[c][y].key # k
      BY <2>3 DEF Drafting!Document, Drafting!Ids
    <3> QED BY <1>4, <2>5, <3>1 DEF k
  <2>10. ASSUME NEW y \in DOMAIN db'[c], NEW d, d = db'[c][y].draft PROVE Drafting(s)!Document(d)' # {}
    <3>1. CASE y = y0
      BY <2>5, <2>8, <2>10, <3>1 DEF dr
    <3>2. CASE y \in DOMAIN db[c]
      BY <1>4, <2>5, <2>6, <2>10, <3>2
    <3> QED BY <2>5, <3>1, <3>2
  <2>11. ASSUME NEW x \in DOMAIN db'[e], NEW d, d = db'[e][x].key PROVE Drafting(s)!Document(d)' # {}
    BY <1>4, <2>5, <2>6, <2>11
  <2>12. ASSUME NEW x \in DOMAIN db'[e], NEW d, d = db'[e][x], ~(g.op # "append" /\ g.id = x)
         PROVE  Drafting(s)!Newest(d)'
    <3>1. Drafting(s)!Newest(d) /\ Drafting(s)!Document(d.key) # {}
      BY <1>4, <1>6, <2>5, <2>12
    <3>2. d.key # dr
      <4>1. CASE g.op = "append"
        BY <2>3, <3>1, <4>1
      <4>2. CASE g.op # "append"
        BY <1>4, <2>3, <2>5, <2>7, <2>12, <4>2
      <4> QED BY <4>1, <4>2
    <3>3. ASSUME NEW y \in DOMAIN db'[c], db'[c][y].draft = d.key
          PROVE  \E z \in Drafting(s)!Document(d.document)' : db'[c][y].number <= db'[c][z].number
      <4>1. y \in DOMAIN db[c] /\ db[c][y].draft = d.key /\ db'[c][y] = db[c][y]
        BY <2>5, <3>2, <3>3 DEF dr
      <4>2. PICK z \in Drafting(s)!Document(d.document) : db[c][y].number <= db[c][z].number
        BY <3>1, <4>1 DEF Drafting!Newest, Drafting!Ids
      <4>3. z \in Drafting(s)!Document(d.document)' /\ db'[c][z] = db[c][z]
        BY <2>5, <2>6 DEF Drafting!Document, Drafting!Ids
      <4> QED BY <4>1, <4>2, <4>3
    <3> QED BY <3>3 DEF Drafting!Newest, Drafting!Ids
  <2>13. Drafting(s)!Naming(g)'
    <3> DEFINE d == g.row
    <3>1. d.document = k /\ d.key = dr
      BY <2>3
    <3>2. ASSUME NEW y \in DOMAIN db'[c], db'[c][y].draft = dr
          PROVE  db'[c][y].number <= db'[c][y0].number
      <4>1. CASE y = y0
        BY <2>5, <4>1
      <4>2. CASE y \in DOMAIN db[c]
        <5>1. db[c][y].number < h.row.number
          BY <2>3, <2>5, <3>2, <4>2
        <5> QED BY <1>1, <2>5, <4>2, <5>1
      <4> QED BY <2>5, <4>1, <4>2
    <3> HIDE DEF d
    <3>3. Drafting(s)!Newest(d)'
      BY <2>6, <3>1, <3>2 DEF Drafting!Newest, Drafting!Ids
    <3>4. Drafting(s)!Document(d.key)' # {}
      BY <2>8, <3>1
    <3>5. CASE g.op = "append"
      <4>1. Drafting(s)!Room(e)'
        BY <2>3, <2>5, <3>5 DEF Drafting!Room
      <4>2. \A x \in DOMAIN db'[e] : db'[e][x].key # d.key
        BY <1>4, <2>3, <2>5, <3>1, <3>5
      <4> QED BY <3>3, <3>4, <3>5, <4>1, <4>2 DEF Drafting!Naming, Drafting!Ids, d
    <3>6. CASE g.op # "append"
      <4>1. db'[e][g.id].key = d.key
        BY <2>3, <2>5, <3>1, <3>6
      <4> QED BY <3>3, <3>4, <3>6, <4>1 DEF Drafting!Naming, d
    <3> QED BY <3>5, <3>6
  <2>14. g.op # "append" => Drafting(s)!Writes(j, e, "replace")
    BY <2>1, <2>7 DEF Drafting!Writes, g
  <2> QED
    <3>1. \A x \in DOMAIN db'[e] : \A y \in DOMAIN db'[e] : db'[e][y].key = db'[e][x].key => x = y
      BY <1>4, <2>5
    <3>2. ASSUME NEW x \in DOMAIN db'[e]
          PROVE  Drafting(s)!Newest(db[e][x])' \/ (Drafting(s)!Writes(j, e, "replace") /\ g.id = x)
      BY <2>12, <2>14
    <3> QED BY <2>1, <2>9, <2>10, <2>11, <2>13, <3>1, <3>2 DEF Drafting!Numbered, Drafting!Ids, g
<1>7. CASE h.c = e
  <2>1. j.at = "idle"
    BY <1>3, <1>7
  <2>2. Drafting(s)!Naming(h)
    BY <1>2, <1>7 DEF Drafting!Numbered
  <2>3. db'[c] = db[c]
    BY <1>1, <1>7 DEF Lands
  <2>4. \A d : /\ Drafting(s)!Document(d)' = Drafting(s)!Document(d)
               /\ Drafting(s)!Newest(d)' <=> Drafting(s)!Newest(d)
    BY <2>3 DEF Drafting!Document, Drafting!Newest, Drafting!Ids
  <2>5. /\ Drafting(s)!Newest(h.row) /\ Drafting(s)!Document(k) # {}
        /\ IF h.op = "append" THEN \A x \in DOMAIN db[e] : db[e][x].key # k ELSE db[e][h.id].key = k
    BY <2>2 DEF Drafting!Naming, Drafting!Ids
  <2>7. ASSUME NEW x \in DOMAIN db'[e], NEW d, d = db'[e][x]
        PROVE  Drafting(s)!Newest(d)' /\ Drafting(s)!Document(d.key)' # {}
    <3>1. \/ x \in DOMAIN db[e] /\ d = db[e][x] /\ ~(h.op = "replace" /\ h.id = x)
          \/ d = h.row
      BY <1>1, <1>7, <2>7 DEF Lands, Place, Keeps, Adds
    <3> QED BY <1>4, <2>4, <2>5, <3>1
  <2>8. \A x, y \in DOMAIN db'[e] : db'[e][y].key = db'[e][x].key => x = y
    <3>1. \A x \in DOMAIN db'[e] :
            \/ x \in DOMAIN db[e] /\ db'[e][x].key = db[e][x].key
            \/ x = Len(db[e]) + 1 /\ db'[e][x].key = k /\ h.op = "append"
      BY <1>1, <1>7, <2>5 DEF Keeps, Adds
    <3> HIDE DEF k
    <3> QED BY <1>4, <2>5, <3>1
  <2>9. ASSUME NEW x \in DOMAIN db'[c], NEW d, d = db'[c][x].draft PROVE Drafting(s)!Document(d)' # {}
    BY <1>4, <2>3, <2>4, <2>9
  <2>10. \A x \in DOMAIN db'[e] : Drafting(s)!Newest(db[e][x])' /\ Drafting(s)!Document(db[e][x].key)' # {}
    BY <2>7
  <2>11. \A y \in DOMAIN db'[c] : Drafting(s)!Document(db[c][y].draft)' # {}
    BY <2>9
  <2> QED BY <1>4, <2>1, <2>3, <2>8, <2>10, <2>11 DEF Drafting!Numbered, Drafting!Ids
<1> QED BY <1>5, <1>6, <1>7

LEMMA DraftingReplaces ==
  ASSUME NEW s \in DraftingScenes, Drafting(s)!IInv, NEW i, NEW h, NEW j, DraftingWriting(s, i, h, j),
         Drafting(s)!Replaced(i)
  PROVE  Drafting(s)!Replaced(j)'
<1> DEFINE c == "templateVersions"
           S(D) == {x \in DOMAIN D[c] : D[c][x].status = "PUBLISHED"}
           U(D) == {x \in DOMAIN D[c] : D[c][x].status = "SUPERSEDED"}
<1>1. /\ c \in DOMAIN db /\ DOMAIN db[c] = 1..Len(db[c]) /\ Len(db[c]) \in Nat
      /\ h.op \in {"append", "replace"}
      /\ Lands(db, db', h) /\ Keeps(db, db', h) /\ Adds(db, db', h)
  <2>1. c \in DraftingTables
    BY DEF DraftingTables
  <2> QED BY <2>1, DraftingTyped, DraftingLands DEF Drafting!IInv, DraftingWriting
<1>2. /\ i.at = "write" /\ h = i.todo[1] /\ Drafting(s)!WriteSound(h)
  BY DEF DraftingWriting
<1>3. \/ Drafting(s)!Alone(i) /\ j.at = "idle"
      \/ /\ Drafting(s)!Twofold(i) /\ j.at = "write" /\ j.todo[1] = i.todo[2] /\ Drafting(s)!Alone(j)
         /\ \/ h.c = "documentVersions" /\ j.todo[1].c = "contractDrafts"
            \/ h.c = c /\ h.op = "replace" /\ j.todo[1].c = c
  BY DraftingGoesOn
<1>4. /\ Drafting(s)!Published = S(db) /\ Drafting(s)!Published' = S(db')
      /\ (\E x \in Drafting(s)!Ids(c) : Drafting(s)!InStatus(c, x, {"SUPERSEDED"})) <=> U(db) # {}
      /\ (\E x \in Drafting(s)!Ids(c) : Drafting(s)!InStatus(c, x, {"SUPERSEDED"}))' <=> U(db') # {}
  BY DEF Drafting!Published, Drafting!Ids, Drafting!InStatus
<1>5. /\ \A x, y \in S(db) : x = y
      /\ U(db) # {} => S(db) # {} \/ Drafting(s)!Publishes(h)
      /\ h.c = c /\ h.op = "replace" =>
           \/ Drafting(s)!Alone(i) /\ Drafting(s)!Publishes(h) /\ S(db) = {}
           \/ /\ Drafting(s)!Twofold(i) /\ h.row.status = "SUPERSEDED" /\ S(db) = {h.id}
              /\ Drafting(s)!Publishes(i.todo[2])
  <2> HIDE DEF S, U
  <2>1. Drafting(s)!Writes(i, c, "replace") <=> h.c = c /\ h.op = "replace"
    BY <1>2 DEF Drafting!Writes
  <2> QED BY <1>2, <1>4, <2>1 DEF Drafting!Replaced
<1>6. SUFFICES /\ \A x, y \in S(db') : x = y
               /\ U(db') # {} => S(db') # {} \/ (j.at = "write" /\ Drafting(s)!Publishes(j.todo[1])')
               /\ j.at # "published"
               /\ Drafting(s)!Writes(j, c, "replace") =>
                    Drafting(s)!Alone(j) /\ Drafting(s)!Publishes(j.todo[1])' /\ S(db') = {}
  <2> HIDE DEF S, U
  <2> QED BY <1>4 DEF Drafting!Replaced, Drafting!Writes, Drafting!Alone
<1>7. CASE ~(h.c = c /\ h.op = "replace")
  <2>1. ~Drafting(s)!Publishes(h)
    BY <1>7 DEF Drafting!Publishes
  <2>2. ~Drafting(s)!Writes(j, c, "replace") /\ j.at # "published"
    BY <1>3, <1>7 DEF Drafting!Writes
  <2>3. h.c = c /\ h.op = "append" => h.row.status = "DRAFT"
    BY <1>2 DEF Drafting!WriteSound
  <2>4. S(db') = S(db) /\ U(db') = U(db)
    <3>1. \A x \in DOMAIN db[c] : x \in DOMAIN db'[c] /\ db'[c][x] = db[c][x]
      BY <1>1, <1>7 DEF Keeps
    <3>2. \A x \in DOMAIN db'[c] : x \in DOMAIN db[c] \/ db'[c][x].status = "DRAFT"
      BY <1>1, <2>3 DEF Adds
    <3> QED BY <3>1, <3>2
  <2> HIDE DEF S, U
  <2> QED BY <1>5, <2>1, <2>2, <2>4
<1>8. CASE h.c = c /\ h.op = "replace" /\ Drafting(s)!Alone(i) /\ Drafting(s)!Publishes(h) /\ S(db) = {}
  <2>1. j.at = "idle"
    <3>1. ~Drafting(s)!Twofold(i)
      <4>1. \A a, b : <<a>> # <<a, b>>
        <5> TAKE a, b
        <5>1. Tail(<<a>>) = <<>> /\ Tail(<<a, b>>) = <<b>> /\ <<b>> # <<>>
          BY TodoOfOne, TodoOfTwo
        <5> QED BY <5>1
      <4> QED BY <1>8, <4>1 DEF Drafting!Alone, Drafting!Twofold
    <3> QED BY <1>3, <3>1
  <2>2. h.row.status = "PUBLISHED" /\ h.id \in DOMAIN db[c]
    BY <1>8 DEF Drafting!Publishes, Drafting!Draft, Drafting!Ids
  <2>3. S(db') = {h.id}
    <3>1. h.id \in DOMAIN db'[c] /\ db'[c][h.id] = h.row /\ DOMAIN db'[c] = DOMAIN db[c]
      BY <1>1, <1>8, <2>2 DEF Lands, Place
    <3>2. \A x \in DOMAIN db[c] : x = h.id \/ db'[c][x] = db[c][x]
      BY <1>1 DEF Keeps
    <3> QED BY <1>8, <2>2, <3>1, <3>2
  <2> HIDE DEF S, U
  <2> QED BY <2>1, <2>3 DEF Drafting!Writes
<1>9. CASE /\ h.c = c /\ h.op = "replace" /\ Drafting(s)!Twofold(i) /\ h.row.status = "SUPERSEDED" /\ S(db) = {h.id}
           /\ Drafting(s)!Publishes(i.todo[2])
  <2> DEFINE g == i.todo[2]
  <2>1. j.at = "write" /\ j.todo[1] = g /\ Drafting(s)!Alone(j)
    <3>1. ~Drafting(s)!Alone(i)
      <4>1. \A a, b : <<a>> # <<a, b>>
        <5> TAKE a, b
        <5>1. Tail(<<a>>) = <<>> /\ Tail(<<a, b>>) = <<b>> /\ <<b>> # <<>>
          BY TodoOfOne, TodoOfTwo
        <5> QED BY <5>1
      <4> QED BY <1>9, <4>1 DEF Drafting!Alone, Drafting!Twofold
    <3> QED BY <1>3, <3>1
  <2>2. h.id \in DOMAIN db[c] /\ DOMAIN db'[c] = DOMAIN db[c] /\ db'[c][h.id] = h.row
    <3>1. h.id \in DOMAIN db[c]
      BY <1>9
    <3> QED BY <1>1, <1>9, <3>1 DEF Lands, Place
  <2>3. \A x \in DOMAIN db[c] : x = h.id \/ db'[c][x] = db[c][x]
    BY <1>1 DEF Keeps
  <2>4. S(db') = {}
    BY <1>9, <2>2, <2>3
  <2>5. g.id # h.id /\ g.id \in DOMAIN db[c] /\ db[c][g.id].status = "DRAFT"
    <3>1. g.id \in DOMAIN db[c] /\ db[c][g.id].status = "DRAFT"
      BY <1>9 DEF Drafting!Publishes, Drafting!Draft, Drafting!Ids, Drafting!InStatus
    <3>2. db[c][h.id].status = "PUBLISHED"
      BY <1>9
    <3> QED BY <3>1, <3>2
  <2>6. Drafting(s)!Publishes(g)'
    <3>1. db'[c][g.id].status = "DRAFT" /\ g.id \in DOMAIN db'[c]
      BY <2>2, <2>3, <2>5
    <3> QED BY <1>9, <3>1 DEF Drafting!Publishes, Drafting!Draft, Drafting!Ids, Drafting!InStatus
  <2> HIDE DEF S, U, g
  <2> QED BY <2>1, <2>4, <2>6
<1> QED BY <1>5, <1>7, <1>8, <1>9

LEMMA DraftingSerial ==
  ASSUME NEW s \in DraftingScenes, Drafting(s)!IInv, Drafting(s)!SerialInv, [Drafting(s)!Next]_<<db, job>>
  PROVE  Drafting(s)!SerialInv' /\ (Drafting(s)!InTurn => Drafting(s)!InsertedPublished)
<1> SUFFICES ASSUME Drafting(s)!InTurn PROVE Drafting(s)!SerialInv' /\ Drafting(s)!InsertedPublished
  BY DEF Drafting!SerialInv, Drafting!InTurn, Drafting!Reliable
<1> DEFINE c == "clauseInstances"
<1>1. PICK w \in Cast[s].workers : DraftingMoves(s, w) \/ DraftingWrites(s, w)
  BY DraftingTakes
<1>2. job = [v \in Cast[s].workers |-> job[v]] /\ c \in DOMAIN db /\ Len(db[c]) \in Nat
  BY DraftingTyped DEF Drafting!IInv, DraftingTables
<1>3. /\ DraftingInserts(s, job[w])
      /\ Drafting(s)!Deathless => Drafting(s)!Numbered(job[w]) /\ Drafting(s)!Replaced(job[w])
  BY DraftingSerialOne
<1>4. CASE DraftingMoves(s, w)
  <2>1. PICK j : /\ job' = [job EXCEPT ![w] = j] /\ UNCHANGED db
                 /\ j = job[w] \/ DraftingInserts(s, j)
                 /\ ~Drafting(s)!Deathless \/ DraftingKeeps(s, job[w], j)
    BY <1>4 DEF DraftingMoves
  <2>2. job'[w] = j
    BY <1>2, <2>1, CarryMoves
  <2>3. DraftingInserts(s, j)
    BY <1>3, <2>1
  <2>4. DraftingInserts(s, job[w])'
    BY <2>1, <2>2, <2>3 DEF DraftingInserts, Drafting!Writes, Drafting!Insertable, Drafting!InStatus
  <2>5. ASSUME Drafting(s)!Deathless PROVE Drafting(s)!Numbered(job[w])' /\ Drafting(s)!Replaced(job[w])'
    <3>1. Drafting(s)!Numbered(j) /\ Drafting(s)!Replaced(j)
      BY <1>3, <2>1, <2>5 DEF DraftingKeeps
    <3>2. Drafting(s)!Numbered(j)'
      BY <2>1, <3>1 DEF Drafting!Numbered, Drafting!Document, Drafting!Newest, Drafting!Documenting,
         Drafting!Naming, Drafting!Room, Drafting!Ids, Drafting!Writes
    <3>3. Drafting(s)!Replaced(j)'
      BY <2>1, <3>1 DEF Drafting!Replaced, Drafting!Published, Drafting!Publishes, Drafting!Draft,
         Drafting!InStatus, Drafting!Ids, Drafting!Writes, Drafting!Alone, Drafting!Twofold
    <3>4. ASSUME NEW i, i = job'[w] PROVE Drafting(s)!Numbered(i)' /\ Drafting(s)!Replaced(i)'
      BY <2>2, <3>2, <3>3, <3>4
    <3> QED BY <3>4
  <2>6. Drafting(s)!InsertedPublished
    BY <1>2, <2>1 DEF Drafting!InsertedPublished
  <2> QED BY <2>4, <2>5, <2>6, DraftingSerialOne
<1>5. CASE DraftingWrites(s, w)
  <2>1. PICK h, j : /\ DraftingWriting(s, job[w], h, j) /\ job' = [job EXCEPT ![w] = j]
                    /\ Drafting(s)!JobSound(j)
    BY <1>5 DEF DraftingWrites, DraftingWriting
  <2>2. job'[w] = j
    BY <1>2, <2>1, CarryMoves
  <2>3. /\ Lands(db, db', h) /\ h.op \in {"append", "replace"} /\ h = job[w].todo[1] /\ job[w].at = "write"
    BY <2>1, DraftingLands DEF DraftingWriting
  <2>4. DraftingInserts(s, job[w])'
    <3>1. ~Drafting(s)!Writes(j, c, "append")
      <4>1. CASE j.at = "idle"
        BY <4>1 DEF Drafting!Writes
      <4>2. CASE j.todo = Tail(job[w].todo) /\ Tail(job[w].todo) # <<>>
        <5>1. Drafting(s)!JobSound(job[w]) /\ ListedTodo(job[w].todo)
          BY <2>1 DEF DraftingWriting, Drafting!JobSound, Drafting!Listed, ListedTodo
        <5>2. job[w].todo # <<job[w].todo[1]>>
          BY <4>2, TodoOfOne
        <5>3. \/ Drafting(s)!Twofold(job[w]) /\ job[w].todo[2].c = "contractDrafts"
              \/ \A n \in DOMAIN job[w].todo : job[w].todo[n].c = "templateVersions"
          BY <2>3, <5>1, <5>2 DEF Drafting!JobSound, Drafting!Alone
        <5>4. CASE Drafting(s)!Twofold(job[w]) /\ job[w].todo[2].c = "contractDrafts"
          <6>1. Tail(<<job[w].todo[1], job[w].todo[2]>>) = <<job[w].todo[2]>>
            BY TodoOfTwo
          <6>2. j.todo[1] = job[w].todo[2]
            BY <4>2, <5>4, <6>1 DEF Drafting!Twofold
          <6> QED BY <5>4, <6>2 DEF Drafting!Writes
        <5>5. CASE \A n \in DOMAIN job[w].todo : job[w].todo[n].c = "templateVersions"
          <6>1. ListedTodo(j.todo) /\ \A n \in DOMAIN j.todo : n + 1 \in DOMAIN job[w].todo /\ j.todo[n] = job[w].todo[n + 1]
            BY <4>2, <5>1, TodoTail
          <6>2. 1 \in DOMAIN j.todo
            BY <6>1, TodoHead
          <6> QED BY <5>5, <6>1, <6>2 DEF Drafting!Writes
        <5> QED BY <5>3, <5>4, <5>5
      <4> QED BY <2>1, <4>1, <4>2 DEF DraftingWriting
    <3> QED BY <2>2, <3>1 DEF DraftingInserts, Drafting!Writes
  <2>5. ASSUME Drafting(s)!Deathless PROVE Drafting(s)!Numbered(job[w])' /\ Drafting(s)!Replaced(job[w])'
    <3>1. Drafting(s)!Numbered(j)' /\ Drafting(s)!Replaced(j)'
      <4>1. \A i : i = job[w] => DraftingWriting(s, i, h, j) /\ Drafting(s)!Numbered(i) /\ Drafting(s)!Replaced(i)
        BY <1>3, <2>1, <2>5
      <4> QED BY <4>1, DraftingNumbers, DraftingReplaces
    <3>2. ASSUME NEW i, i = job'[w] PROVE Drafting(s)!Numbered(i)' /\ Drafting(s)!Replaced(i)'
      BY <2>2, <3>1, <3>2
    <3> QED BY <3>2
  <2>6. Drafting(s)!InsertedPublished
    <3> SUFFICES ASSUME Len(db'[c]) > Len(db[c])
                 PROVE  Drafting(s)!Insertable(db'[c][Len(db'[c])].clause)
      BY DEF Drafting!InsertedPublished, Drafting!Insertable
    <3>1. h.c = c /\ h.op = "append"
      <4> HIDE DEF c
      <4>1. h.c # c => db'[c] = db[c]
        BY <1>2, <2>3 DEF Lands
      <4>2. h.c = c /\ h.op # "append" => Len(db'[c]) = Len(db[c])
        BY <2>3 DEF Lands
      <4> QED BY <1>2, <4>1, <4>2
    <3>2. Len(db'[c]) = Len(db[c]) + 1 /\ db'[c][Len(db[c]) + 1] = h.row
      BY <2>3, <3>1 DEF Lands, Place
    <3>3. Drafting(s)!Insertable(h.row.clause)
      BY <1>3, <2>3, <3>1 DEF DraftingInserts, Drafting!Writes
    <3> QED BY <3>2, <3>3
  <2> QED BY <2>4, <2>5, <2>6, DraftingSerialOne
<1> QED BY <1>1, <1>4, <1>5

LEMMA DraftingPromises ==
  ASSUME NEW s \in DraftingScenes, Drafting(s)!IInv, Drafting(s)!SerialInv
  PROVE  /\ Drafting(s)!TypeOK /\ Drafting(s)!NothingCountedTwice /\ Drafting(s)!SubmittedFilled
         /\ Drafting(s)!Reliable => Drafting(s)!DraftNamesNewest /\ Drafting(s)!TemplateNeverLost
<1>1. Drafting(s)!TypeOK
  BY DraftingTyped DEF Drafting!IInv, Drafting!TypeOK, Drafting!Ids
<1>2. Drafting(s)!SubmittedFilled
  BY DEF Drafting!IInv, Drafting!SubmittedFilled, Drafting!Filled
<1>3. ASSUME Drafting(s)!Reliable, Drafting(s)!Quiet
      PROVE  /\ \A x \in Drafting(s)!Ids("contractDrafts") : Drafting(s)!Newest(db["contractDrafts"][x])
             /\ (\E x \in Drafting(s)!Ids("templateVersions") :
                   Drafting(s)!InStatus("templateVersions", x, {"SUPERSEDED"}))
                  => Drafting(s)!Cardinality(Drafting(s)!Published) = 1
  <2>1. PICK w \in Cast[s].workers : TRUE
    BY PlatformAssumption DEF Drafting!DraftingAssumption
  <2>2. Drafting(s)!Numbered(job[w]) /\ Drafting(s)!Replaced(job[w]) /\ job[w].at = "idle"
    BY <1>3 DEF Drafting!SerialInv, Drafting!Quiet, Drafting!At
  <2>3. \A x \in Drafting(s)!Ids("contractDrafts") : Drafting(s)!Newest(db["contractDrafts"][x])
    BY <2>2 DEF Drafting!Numbered, Drafting!Writes
  <2>4. ASSUME \E x \in Drafting(s)!Ids("templateVersions") :
                 Drafting(s)!InStatus("templateVersions", x, {"SUPERSEDED"})
        PROVE  Drafting(s)!Cardinality(Drafting(s)!Published) = 1
    <3> DEFINE S == Drafting(s)!Published
    <3>1. S # {} /\ \A x, y \in S : x = y
      BY <2>2, <2>4 DEF Drafting!Replaced
    <3>2. PICK x \in S : TRUE
      BY <3>1
    <3>3. S = {x}
      BY <3>1
    <3> HIDE DEF S
    <3>4. Cardinality(S) = 1
      BY <3>3, FS_Singleton
    <3> QED BY <3>4, DraftingCardinality DEF S
  <2> QED BY <2>3, <2>4
<1>4. Drafting(s)!Reliable => Drafting(s)!DraftNamesNewest /\ Drafting(s)!TemplateNeverLost
  BY <1>3 DEF Drafting!DraftNamesNewest, Drafting!TemplateNeverLost
<1> QED BY <1>1, <1>2, <1>4 DEF Drafting!IInv


----------------------------------------------------------------------------
(* The audit trail is the one that AuditProofs is about.                   *)
Trail == INSTANCE AuditProofs WITH
  Tenants <- Ledger.tenants, Platform <- Ledger.platform, Events <- Ledger.events,
  Writers <- Ledger.writers, Nobody <- Ledger.nobody, MaxAudits <- Ledger.audits,
  job <- writer

LEMMA SameTrail ==
  /\ Trail!WritersAssumption
  /\ Audit!Init => Trail!Init
  /\ [Audit!Next]_trail => [Trail!Next]_Trail!vars
  /\ Trail!TypeOK => Audit!TypeOK
  /\ Trail!ChainsVerify /\ Trail!NobodyRefused => Audit!ChainsVerify /\ Audit!NobodyRefused
  /\ Trail!CommittedStays /\ Trail!AppendOnly => Audit!CommittedStays /\ Audit!AppendOnly
<1>1. Trail!WritersAssumption
  BY PlatformAssumption DEF Audit!WritersAssumption, Trail!WritersAssumption
<1>2. Audit!Init => Trail!Init
  BY DEF Audit!Init, Trail!Init, Audit!Chains, Trail!Chains, Audit!Idle, Trail!Idle,
     Audit!NoHash, Trail!NoHash
<1>3. [Audit!Next]_trail => [Trail!Next]_Trail!vars
  BY DEF trail, Trail!vars, Audit!Next, Trail!Next, Audit!Step, Trail!Step,
     Audit!Begin, Trail!Begin, Audit!Lock, Trail!Lock, Audit!ReadTail, Trail!ReadTail,
     Audit!Insert, Trail!Insert, Audit!Commit, Trail!Commit, Audit!Rollback, Trail!Rollback,
     Audit!Seen, Trail!Seen, Audit!Chains, Trail!Chains, Audit!Idle, Trail!Idle,
     Audit!NoHash, Trail!NoHash, Audit!LastHash, Trail!LastHash, Audit!Taken, Trail!Taken,
     Audit!Contended, Trail!Contended, Audit!New, Trail!New, Audit!Extended, Trail!Extended,
     Audit!Digest, Trail!Digest, Audit!Released, Trail!Released
<1>4. Trail!TypeOK => Audit!TypeOK
  BY DEF Audit!TypeOK, Trail!TypeOK, Audit!Chains, Trail!Chains, Audit!AuditRecord, Trail!AuditRecord,
     Audit!Hash, Trail!Hash
<1>5. Trail!ChainsVerify => Audit!ChainsVerify
  BY DEF Audit!ChainsVerify, Trail!ChainsVerify, Audit!Chains, Trail!Chains,
     Audit!verifyAuditChain, Trail!verifyAuditChain, Audit!AuditFindingKind,
     Trail!AuditFindingKind, Audit!Suspicious, Trail!Suspicious, Audit!Digest, Trail!Digest,
     Audit!NoHash, Trail!NoHash
<1>6. Trail!NobodyRefused => Audit!NobodyRefused
  BY DEF Audit!NobodyRefused, Trail!NobodyRefused
<1>7. Trail!CommittedStays => Audit!CommittedStays
  BY DEF Audit!CommittedStays, Trail!CommittedStays, Audit!Chains, Trail!Chains
<1>8. Trail!AppendOnly => Audit!AppendOnly
  BY DEF Audit!AppendOnly, Trail!AppendOnly, Audit!Chains, Trail!Chains,
     Audit!diffAuditSnapshots, Trail!diffAuditSnapshots, Audit!AuditSnapshotDiffKind,
     Trail!AuditSnapshotDiffKind, Audit!Changed, Trail!Changed, Audit!HasId, Trail!HasId,
     Audit!LastWithId, Trail!LastWithId
<1> QED BY <1>1, <1>2, <1>3, <1>4, <1>5, <1>6, <1>7, <1>8

LEMMA TrailInit == Audit!Init => Trail!IInv
<1> QED BY SameTrail, Trail!InitIInv

LEMMA TrailPreserves ==
  ASSUME Trail!IInv, [Audit!Next]_trail
  PROVE  Trail!IInv' /\ Audit!CommittedStays /\ Audit!AppendOnly
<1>1. Trail!WritersAssumption /\ [Trail!Next]_Trail!vars
  BY SameTrail
<1>2. Trail!IInv'
  BY <1>1, Trail!StepIInv
<1>3. Trail!CommittedStays /\ Trail!AppendOnly
  BY <1>1, <1>2, Trail!CommittedKept
<1> QED BY <1>2, <1>3, SameTrail

LEMMA TrailPromises ==
  ASSUME Trail!IInv PROVE Audit!TypeOK /\ Audit!ChainsVerify /\ Audit!NobodyRefused
<1>1. Trail!TypeOK /\ Trail!ChainsSound /\ Trail!NobodyRefused
  BY DEF Trail!IInv
<1>2. Trail!ChainsVerify
  BY <1>1, Trail!SoundVerifies DEF Trail!TypeOK, Trail!ChainsSound, Trail!ChainsVerify
<1> QED BY <1>1, <1>2, SameTrail

----------------------------------------------------------------------------
(* A behaviour plays one scene, and a step of it is a step of its engine.  *)
LEMMA SceneStarts ==
  ASSUME Init
  PROVE  /\ \A s \in DraftingScenes : scene = s => Drafting(s)!Empty
         /\ \A s \in ExecutionScenes : scene = s => Execution(s)!Empty
         /\ \A s \in ReadingScenes : scene = s => Reading(s)!Empty
         /\ \A s \in AgentScenes : scene = s => Agent(s)!Empty
         /\ \A s \in InsightScenes : scene = s => Insight(s)!Empty
         /\ \A s \in ReportScenes : scene = s => Reports(s)!Init
         /\ scene = "audit" => Audit!Init
<1>1. "audit" \notin Scenes
  BY PlatformAssumption
<1>2. \A s \in DraftingScenes : s \in Scenes /\ Cast[s].engine = "drafting"
  BY DEF DraftingScenes
<1>3. \A s \in ExecutionScenes : s \in Scenes /\ Cast[s].engine = "execution"
  BY DEF ExecutionScenes
<1>4. \A s \in ReadingScenes : s \in Scenes /\ Cast[s].engine = "reading"
  BY DEF ReadingScenes
<1>5. \A s \in AgentScenes : s \in Scenes /\ Cast[s].engine = "agents"
  BY DEF AgentScenes
<1>6. \A s \in InsightScenes : s \in Scenes /\ Cast[s].engine = "insights"
  BY DEF InsightScenes
<1>7. \A s \in ReportScenes : s \in Scenes /\ Cast[s].engine = "reports"
  BY DEF ReportScenes
<1> QED BY <1>1, <1>2, <1>3, <1>4, <1>5, <1>6, <1>7 DEF Init

LEMMA ScenePlays ==
  ASSUME [Next]_vars
  PROVE  /\ UNCHANGED scene
         /\ \A s \in DraftingScenes : scene = s => [Drafting(s)!Next]_<<db, job>>
         /\ \A s \in ExecutionScenes : scene = s => [Execution(s)!Next]_<<db, job>>
         /\ \A s \in ReadingScenes : scene = s => [Reading(s)!Next]_<<db, job>>
         /\ \A s \in AgentScenes : scene = s => [Agent(s)!Next]_<<db, job>>
         /\ \A s \in InsightScenes : scene = s => [Insight(s)!Next]_<<db, job>>
         /\ \A s \in ReportScenes : scene = s =>
              Reports(s)!Progress \/ Reports(s)!Burden \/ Reports(s)!Judgement \/ UNCHANGED work
         /\ scene = "audit" => [Audit!Next]_trail
<1>1. "audit" \notin Scenes
  BY PlatformAssumption
<1>2. \A s \in DraftingScenes : s \in Scenes /\ Cast[s].engine = "drafting"
  BY DEF DraftingScenes
<1>3. \A s \in ExecutionScenes : s \in Scenes /\ Cast[s].engine = "execution"
  BY DEF ExecutionScenes
<1>4. \A s \in ReadingScenes : s \in Scenes /\ Cast[s].engine = "reading"
  BY DEF ReadingScenes
<1>5. \A s \in AgentScenes : s \in Scenes /\ Cast[s].engine = "agents"
  BY DEF AgentScenes
<1>6. \A s \in InsightScenes : s \in Scenes /\ Cast[s].engine = "insights"
  BY DEF InsightScenes
<1>7. \A s \in ReportScenes : s \in Scenes /\ Cast[s].engine = "reports"
  BY DEF ReportScenes
<1>8. \/ DraftingStep \/ ExecutionStep \/ ReadingStep \/ AgentStep \/ InsightStep
      \/ ReportStep \/ AuditStep \/ UNCHANGED <<scene, db, job, work, trail>>
  BY DEF Next, EngineStep, vars, tables
<1>9. UNCHANGED scene
  BY <1>8 DEF DraftingStep, ExecutionStep, ReadingStep, AgentStep, InsightStep, ReportStep, AuditStep, Playing
<1>10. \A s \in DraftingScenes : scene = s => [Drafting(s)!Next]_<<db, job>>
  BY <1>1, <1>2, <1>3, <1>4, <1>5, <1>6, <1>7, <1>8
     DEF DraftingStep, ExecutionStep, ReadingStep, AgentStep, InsightStep, ReportStep, AuditStep, Playing
<1>11. \A s \in ExecutionScenes : scene = s => [Execution(s)!Next]_<<db, job>>
  BY <1>1, <1>2, <1>3, <1>4, <1>5, <1>6, <1>7, <1>8
     DEF DraftingStep, ExecutionStep, ReadingStep, AgentStep, InsightStep, ReportStep, AuditStep, Playing
<1>12. \A s \in ReadingScenes : scene = s => [Reading(s)!Next]_<<db, job>>
  BY <1>1, <1>2, <1>3, <1>4, <1>5, <1>6, <1>7, <1>8
     DEF DraftingStep, ExecutionStep, ReadingStep, AgentStep, InsightStep, ReportStep, AuditStep, Playing
<1>13. \A s \in AgentScenes : scene = s => [Agent(s)!Next]_<<db, job>>
  BY <1>1, <1>2, <1>3, <1>4, <1>5, <1>6, <1>7, <1>8
     DEF DraftingStep, ExecutionStep, ReadingStep, AgentStep, InsightStep, ReportStep, AuditStep, Playing
<1>14. \A s \in InsightScenes : scene = s => [Insight(s)!Next]_<<db, job>>
  BY <1>1, <1>2, <1>3, <1>4, <1>5, <1>6, <1>7, <1>8
     DEF DraftingStep, ExecutionStep, ReadingStep, AgentStep, InsightStep, ReportStep, AuditStep, Playing
<1>15. \A s \in ReportScenes : scene = s =>
        Reports(s)!Progress \/ Reports(s)!Burden \/ Reports(s)!Judgement \/ UNCHANGED work
  BY <1>1, <1>2, <1>3, <1>4, <1>5, <1>6, <1>7, <1>8
     DEF DraftingStep, ExecutionStep, ReadingStep, AgentStep, InsightStep, ReportStep, AuditStep, Playing
<1>16. scene = "audit" => [Audit!Next]_trail
  BY <1>1, <1>2, <1>3, <1>4, <1>5, <1>6, <1>7, <1>8
     DEF DraftingStep, ExecutionStep, ReadingStep, AgentStep, InsightStep, ReportStep, AuditStep, Playing
<1> QED BY <1>9, <1>10, <1>11, <1>12, <1>13, <1>14, <1>15, <1>16

(* The invariants of the engines, each of the scenes it is played in.      *)
DraftingInv == \A s \in DraftingScenes : scene = s => Drafting(s)!IInv /\ Drafting(s)!SerialInv
ExecutionInv == \A s \in ExecutionScenes : scene = s => Execution(s)!IInv /\ Execution(s)!SerialInv
ReadingInv == \A s \in ReadingScenes : scene = s => Reading(s)!IInv /\ Reading(s)!KeptInv
AgentInv == \A s \in AgentScenes : scene = s => Agent(s)!IInv /\ Agent(s)!KeptInv /\ Agent(s)!MeasuredInv
InsightInv == \A s \in InsightScenes : scene = s => Insight(s)!IInv /\ Insight(s)!FlagInv
ReportInv == \A s \in ReportScenes : scene = s => Reports(s)!IInv
TrailInv == scene = "audit" => Trail!IInv

PlatformInv ==
  DraftingInv /\ ExecutionInv /\ ReadingInv /\ AgentInv /\ InsightInv /\ ReportInv /\ TrailInv

LEMMA PlatformInit == Init => PlatformInv
<1> SUFFICES ASSUME Init PROVE PlatformInv
  OBVIOUS
<1>1. DraftingInv
  BY SceneStarts, DraftingInit DEF DraftingInv
<1>2. ExecutionInv
  BY SceneStarts, ExecutionInit DEF ExecutionInv
<1>3. ReadingInv
  BY SceneStarts, ReadingInit DEF ReadingInv
<1>4. AgentInv
  BY SceneStarts, AgentInit DEF AgentInv
<1>5. InsightInv
  BY SceneStarts, InsightInit DEF InsightInv
<1>6. ReportInv
  BY SceneStarts, ReportsInit DEF ReportInv
<1>7. TrailInv
  BY SceneStarts, TrailInit DEF TrailInv
<1> QED BY <1>1, <1>2, <1>3, <1>4, <1>5, <1>6, <1>7 DEF PlatformInv

LEMMA PlatformKeeps == PlatformInv /\ [Next]_vars => PlatformInv'
<1> SUFFICES ASSUME PlatformInv, [Next]_vars PROVE PlatformInv'
  OBVIOUS
<1>1. scene' = scene
  BY ScenePlays
<1>2. DraftingInv'
  <2> SUFFICES ASSUME NEW s \in DraftingScenes, scene' = s PROVE Drafting(s)!IInv' /\ Drafting(s)!SerialInv'
    BY DEF DraftingInv
  <2>1. Drafting(s)!IInv /\ Drafting(s)!SerialInv /\ [Drafting(s)!Next]_<<db, job>>
    BY <1>1, ScenePlays DEF PlatformInv, DraftingInv
  <2> QED BY <2>1, DraftingPreserves, DraftingSerial
<1>3. ExecutionInv'
  <2> SUFFICES ASSUME NEW s \in ExecutionScenes, scene' = s PROVE Execution(s)!IInv' /\ Execution(s)!SerialInv'
    BY DEF ExecutionInv
  <2>1. Execution(s)!IInv /\ Execution(s)!SerialInv /\ [Execution(s)!Next]_<<db, job>>
    BY <1>1, ScenePlays DEF PlatformInv, ExecutionInv
  <2> QED BY <2>1, ExecutionPreserves, ExecutionSerial
<1>4. ReadingInv'
  <2> SUFFICES ASSUME NEW s \in ReadingScenes, scene' = s PROVE Reading(s)!IInv' /\ Reading(s)!KeptInv'
    BY DEF ReadingInv
  <2>1. Reading(s)!IInv /\ Reading(s)!KeptInv /\ [Reading(s)!Next]_<<db, job>>
    BY <1>1, ScenePlays DEF PlatformInv, ReadingInv
  <2> QED BY <2>1, ReadingPreserves, ReadingKeeps
<1>5. AgentInv'
  <2> SUFFICES ASSUME NEW s \in AgentScenes, scene' = s PROVE Agent(s)!IInv' /\ Agent(s)!KeptInv' /\ Agent(s)!MeasuredInv'
    BY DEF AgentInv
  <2>1. Agent(s)!IInv /\ Agent(s)!KeptInv /\ Agent(s)!MeasuredInv /\ [Agent(s)!Next]_<<db, job>>
    BY <1>1, ScenePlays DEF PlatformInv, AgentInv
  <2> QED BY <2>1, AgentPreserves, AgentKeeps, AgentMeasures
<1>6. InsightInv'
  <2> SUFFICES ASSUME NEW s \in InsightScenes, scene' = s PROVE Insight(s)!IInv' /\ Insight(s)!FlagInv'
    BY DEF InsightInv
  <2>1. Insight(s)!IInv /\ Insight(s)!FlagInv /\ [Insight(s)!Next]_<<db, job>>
    BY <1>1, ScenePlays DEF PlatformInv, InsightInv
  <2> QED BY <2>1, InsightPreserves, InsightFlags
<1>7. ReportInv'
  BY <1>1, ScenePlays, ReportsPreserve DEF PlatformInv, ReportInv
<1>8. TrailInv'
  BY <1>1, ScenePlays, TrailPreserves DEF PlatformInv, TrailInv
<1> QED BY <1>2, <1>3, <1>4, <1>5, <1>6, <1>7, <1>8 DEF PlatformInv

(* What every request of an engine is about to write is true still when it *)
(* writes; what a report says of late work is so; whoever read the end of  *)
(* a chain of audit records holds the lock.                                *)
THEOREM PlatformInvariant == Spec => []PlatformInv
<1> QED BY PlatformInit, PlatformKeeps, PTL DEF Spec

----------------------------------------------------------------------------
(* Whatever requests do at once and wherever they die, every row of every  *)
(* table of the engines has the shape its repository declares, and every   *)
(* request holds what its step expects.                                    *)
THEOREM PlatformTyped == Spec => []RecordsTyped
<1>1. PlatformInv => RecordsTyped
  <2> SUFFICES ASSUME PlatformInv PROVE RecordsTyped
    OBVIOUS
  <2>1. \A s \in DraftingScenes : scene = s => Drafting(s)!TypeOK
    BY DraftingPromises DEF PlatformInv, DraftingInv
  <2>2. \A s \in ExecutionScenes : scene = s => Execution(s)!TypeOK
    BY ExecutionPromises DEF PlatformInv, ExecutionInv
  <2>3. \A s \in ReadingScenes : scene = s => Reading(s)!TypeOK
    BY ReadingPromises DEF PlatformInv, ReadingInv
  <2>4. \A s \in AgentScenes : scene = s => Agent(s)!TypeOK
    BY AgentPromises DEF PlatformInv, AgentInv
  <2>5. \A s \in InsightScenes : scene = s => Insight(s)!TypeOK
    BY InsightPromises DEF PlatformInv, InsightInv
  <2>6. scene = "audit" => Audit!TypeOK
    BY TrailPromises DEF PlatformInv, TrailInv
  <2> QED BY <2>1, <2>2, <2>3, <2>4, <2>5, <2>6 DEF RecordsTyped
<1> QED BY <1>1, PlatformInvariant, PTL

(* Whatever is done at once, nothing an engine counts and then writes      *)
(* (rounds, versions, certificates, opinions, readings, memory, KPIs,      *)
(* models) is there twice.                                                 *)
THEOREM PlatformOnceOnly == Spec => []OnceOnly
<1>1. PlatformInv => OnceOnly
  <2> SUFFICES ASSUME PlatformInv PROVE OnceOnly
    OBVIOUS
  <2>1. \A s \in DraftingScenes : scene = s => Drafting(s)!NothingCountedTwice
    BY DraftingPromises DEF PlatformInv, DraftingInv
  <2>2. \A s \in ExecutionScenes : scene = s => Execution(s)!OneCertificate
    BY ExecutionPromises DEF PlatformInv, ExecutionInv
  <2>3. \A s \in ReadingScenes : scene = s => Reading(s)!OneOpinion /\ Reading(s)!OneReading
    BY ReadingPromises DEF PlatformInv, ReadingInv
  <2>4. \A s \in AgentScenes : scene = s => Agent(s)!MemorySequenced
    BY AgentPromises DEF PlatformInv, AgentInv
  <2>5. \A s \in InsightScenes : scene = s => Insight(s)!OneKpi /\ Insight(s)!OneRegistration
    BY InsightPromises DEF PlatformInv, InsightInv
  <2> QED BY <2>1, <2>2, <2>3, <2>4, <2>5 DEF OnceOnly
<1> QED BY <1>1, PlatformInvariant, PTL

(* What a record claims took place: approvals and signatures of all, a     *)
(* review before publication, a decision before a protected action; and    *)
(* work that is late is reported late, however its hours are rounded.      *)
THEOREM PlatformClaimsBacked == Spec => []ClaimsBacked
<1>1. PlatformInv => ClaimsBacked
  <2> SUFFICES ASSUME PlatformInv PROVE ClaimsBacked
    OBVIOUS
  <2>1. \A s \in DraftingScenes : scene = s => Drafting(s)!SubmittedFilled
    BY DraftingPromises DEF PlatformInv, DraftingInv
  <2>2. \A s \in ExecutionScenes : scene = s =>
          Execution(s)!ApprovedByAll /\ Execution(s)!CertifiedFullySigned
    BY ExecutionPromises DEF PlatformInv, ExecutionInv
  <2>3. \A s \in ReadingScenes : scene = s => Reading(s)!PublishedReviewed
    BY ReadingPromises DEF PlatformInv, ReadingInv
  <2>4. \A s \in AgentScenes : scene = s => Agent(s)!ProtectedNeverInvoked
    BY AgentPromises DEF PlatformInv, AgentInv
  <2>5. \A s \in ReportScenes : scene = s => Reports(s)!LateIsReported
    BY ReportsPromises DEF PlatformInv, ReportInv
  <2> QED BY <2>1, <2>2, <2>3, <2>4, <2>5 DEF ClaimsBacked
<1> QED BY <1>1, PlatformInvariant, PTL

(* What requests that come in turn, or never die, can rely on: drafts that *)
(* name their newest document, decisions counted, signatures that are used *)
(* and kept, a template, a contract and an incumbent never lost, outcomes  *)
(* measured and failed models flagged.                                     *)
THEOREM PlatformSerial == Spec => []SerialPromises
<1>1. PlatformInv => SerialPromises
  <2> SUFFICES ASSUME PlatformInv PROVE SerialPromises
    OBVIOUS
  <2>1. \A s \in DraftingScenes : scene = s /\ Drafting(s)!Reliable =>
          Drafting(s)!DraftNamesNewest /\ Drafting(s)!TemplateNeverLost
    BY DraftingPromises DEF PlatformInv, DraftingInv
  <2>2. \A s \in ExecutionScenes : scene = s =>
          /\ Execution(s)!Reliable => Execution(s)!DecisionsCounted
          /\ Execution(s)!InTurn => Execution(s)!UsedIsKept
    BY ExecutionPromises DEF PlatformInv, ExecutionInv
  <2>3. \A s \in ReadingScenes : scene = s /\ Reading(s)!Deathless => Reading(s)!ContractKept
    BY ReadingPromises DEF PlatformInv, ReadingInv
  <2>4. \A s \in AgentScenes : scene = s =>
          /\ Agent(s)!Deathless => Agent(s)!IncumbentKept
          /\ Agent(s)!Reliable => Agent(s)!OutcomesMeasured
    BY AgentPromises DEF PlatformInv, AgentInv
  <2>5. \A s \in InsightScenes : scene = s /\ Insight(s)!Deathless => Insight(s)!FailedIsFlagged
    BY InsightPromises DEF PlatformInv, InsightInv
  <2> QED BY <2>1, <2>2, <2>3, <2>4, <2>5 DEF SerialPromises
<1> QED BY <1>1, PlatformInvariant, PTL

(* The ledger finds no committed chain of Platform's audit trail broken,   *)
(* and nobody who writes under the lock is refused his position.           *)
THEOREM TrailOfPlatformVerifies == Spec => []ChainsLinked
<1>1. PlatformInv => ChainsLinked
  BY TrailPromises DEF PlatformInv, TrailInv, ChainsLinked
<1> QED BY <1>1, PlatformInvariant, PTL

(* The action of StepsAllowed.                                             *)
StepAllowed ==
  /\ \A s \in DraftingScenes : scene = s =>
       /\ Drafting(s)!ClosedRoundStays
       /\ Drafting(s)!InTurn => Drafting(s)!InsertedPublished
  /\ \A s \in ExecutionScenes : scene = s =>
       /\ Execution(s)!CallbackKeepsSignatures
       /\ Execution(s)!InTurn => Execution(s)!PackagedWhenApproved
  /\ \A s \in AgentScenes : scene = s =>
       /\ Agent(s)!DecisionsKept
       /\ Agent(s)!Deathless => Agent(s)!AgentKept
  /\ scene = "audit" => Audit!CommittedStays /\ Audit!AppendOnly

LEMMA PlatformSteps == PlatformInv /\ [Next]_vars => StepAllowed
<1> SUFFICES ASSUME PlatformInv, [Next]_vars PROVE StepAllowed
  OBVIOUS
<1>1. ASSUME NEW s \in DraftingScenes, scene = s
      PROVE  /\ Drafting(s)!ClosedRoundStays
             /\ Drafting(s)!InTurn => Drafting(s)!InsertedPublished
  <2>1. Drafting(s)!IInv /\ Drafting(s)!SerialInv /\ [Drafting(s)!Next]_<<db, job>>
    BY <1>1, ScenePlays DEF PlatformInv, DraftingInv
  <2> QED BY <2>1, DraftingPreserves, DraftingSerial
<1>2. ASSUME NEW s \in ExecutionScenes, scene = s
      PROVE  /\ Execution(s)!CallbackKeepsSignatures
             /\ Execution(s)!InTurn => Execution(s)!PackagedWhenApproved
  <2>1. Execution(s)!IInv /\ Execution(s)!SerialInv /\ [Execution(s)!Next]_<<db, job>>
    BY <1>2, ScenePlays DEF PlatformInv, ExecutionInv
  <2> QED BY <2>1, ExecutionAllows
<1>3. ASSUME NEW s \in AgentScenes, scene = s
      PROVE  Agent(s)!DecisionsKept /\ (Agent(s)!Deathless => Agent(s)!AgentKept)
  <2>1. Agent(s)!IInv /\ [Agent(s)!Next]_<<db, job>>
    BY <1>3, ScenePlays DEF PlatformInv, AgentInv
  <2> QED BY <2>1, AgentPreserves, AgentAttends
<1>4. scene = "audit" => Audit!CommittedStays /\ Audit!AppendOnly
  BY ScenePlays, TrailPreserves DEF PlatformInv, TrailInv
<1> QED BY <1>1, <1>2, <1>3, <1>4 DEF StepAllowed

(* No step takes back a closed round, a decision, a signature or a         *)
(* committed audit record, nor an agent's active version while no request  *)
(* dies; none that comes in turn shows a clause that is not published or   *)
(* packages what is not approved.                                          *)
THEOREM PlatformStepsAllowed == Spec => StepsAllowed
<1>1. PlatformInv /\ [Next]_vars => [StepAllowed]_vars
  BY PlatformSteps
<1>2. Spec => [][StepAllowed]_vars
  BY <1>1, PlatformInvariant, PTL DEF Spec
<1> QED BY <1>2 DEF StepsAllowed, StepAllowed

(* The action of ReportsMonotone.                                          *)
ReportsCompared ==
  \A s \in ReportScenes : scene = s =>
    /\ Reports(s)!WaitingNeverHelps /\ Reports(s)!ProgressHelps
    /\ Reports(s)!GraverGoesHigher /\ Reports(s)!BetterScoresHigher
    /\ Reports(s)!TypeOK' /\ Reports(s)!AlarmsAreTrue'

ReportsTrue == \A s \in ReportScenes : scene = s => Reports(s)!TypeOK /\ Reports(s)!AlarmsAreTrue

LEMMA PlatformReports == PlatformInv /\ ReportsTrue' /\ [Next]_vars => ReportsCompared
<1> SUFFICES ASSUME PlatformInv, ReportsTrue', [Next]_vars, NEW s \in ReportScenes, scene = s
             PROVE  /\ Reports(s)!WaitingNeverHelps /\ Reports(s)!ProgressHelps
                    /\ Reports(s)!GraverGoesHigher /\ Reports(s)!BetterScoresHigher
                    /\ Reports(s)!TypeOK' /\ Reports(s)!AlarmsAreTrue'
  BY DEF ReportsCompared
<1>1. /\ Reports(s)!IInv /\ scene' = scene
      /\ Reports(s)!Progress \/ Reports(s)!Burden \/ Reports(s)!Judgement \/ UNCHANGED work
  BY ScenePlays DEF PlatformInv, ReportInv
<1>2. /\ Reports(s)!WaitingNeverHelps /\ Reports(s)!ProgressHelps
      /\ Reports(s)!GraverGoesHigher /\ Reports(s)!BetterScoresHigher
  BY <1>1, ReportsCompare
<1>3. Reports(s)!TypeOK' /\ Reports(s)!AlarmsAreTrue'
  BY <1>1 DEF ReportsTrue
<1> QED BY <1>2, <1>3

(* Of two reports in a row, waiting never helps and progress does, the     *)
(* graver goes to the higher and better signals never score lower, however *)
(* often what each is computed from is rounded; and every report is within *)
(* its scales and alarms only at what is so.                               *)
THEOREM PlatformReportsMonotone == Spec => ReportsMonotone
<1>1. PlatformInv /\ ReportsTrue' /\ [Next]_vars => [ReportsCompared]_vars
  BY PlatformReports
<1>2. PlatformInv => ReportsTrue
  BY ReportsPromises DEF PlatformInv, ReportInv, ReportsTrue
<1>3. Spec => [][ReportsCompared]_vars
  BY <1>1, <1>2, PlatformInvariant, PTL DEF Spec
<1> QED BY <1>3 DEF ReportsMonotone, ReportsCompared
=============================================================================
