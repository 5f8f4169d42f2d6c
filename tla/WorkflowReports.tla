--------------------------- MODULE WorkflowReports ---------------------------
(***************************************************************************)
(* Engines 71, 73, 74, 76 and 78-80 (packages/workflow-intelligence): what *)
(* is reported of one agreement while other engines move its work.  Every  *)
(* report is computed from the snapshot it is handed and changes nothing.  *)
(* Time is in quarters of an hour; each node has an SLA item due at Due.   *)
(***************************************************************************)
EXTENDS Integers, FiniteSets

CONSTANTS
  Nodes,         \* the work of the agreement
  Percents,      \* the progress it is seen at
  Times,         \* when it is looked at
  Due,
  StalledAfter,  \* how long IN_PROGRESS work may go untouched
  Counts,        \* evidence missing, validations failed
  Hours,         \* durations and capacities of the owner of all nodes
  Scores         \* the signals of the health score

ReportsAssumption ==
  /\ IsFiniteSet(Nodes) /\ Nodes # {}
  /\ Percents \subseteq 0..100 /\ 0 \in Percents /\ Scores \subseteq 0..100
  /\ Times \subseteq Nat /\ 0 \in Times /\ Due \in Nat /\ StalledAfter \in Nat
  /\ Counts \subseteq Nat /\ Hours \subseteq Nat

WorkflowNodeState == {"NOT_STARTED", "IN_PROGRESS", "BLOCKED", "COMPLETED", "FAILED"}

WorkflowNode ==
  {[state |-> s, progress |-> p, updatedAt |-> t] : s \in WorkflowNodeState, p \in Percents, t \in Times}

Signals ==
  {"milestoneCompletion", "dodCompliance", "evidenceQuality", "validationStatus",
   "approvalVelocity", "settlementReadiness", "executionRisk"}

VARIABLES
  clock,
  node,      \* the canonical state of the work
  missing,   \* evidence missing, by node
  load,      \* of the owner: the hours of each node, what he can do, and
             \* whether more approvals wait for him than he has given
  signals,
  report,    \* what the last analysis told; at 0 there was none
  health     \* the last health score saved

vars == <<clock, node, missing, load, signals, report, health>>

----------------------------------------------------------------------------
(* a/b, rounded as Math.round does, and clamped to 0..100.                 *)
Round(a, b) == (2 * a + b) \div (2 * b)
Clamp(a, b) ==
  CASE Round(a, b) < 0 -> 0
    [] Round(a, b) > 100 -> 100
    [] OTHER -> Round(a, b)

Atleast1(h) == IF h < 1 THEN 1 ELSE h

(* The sum of f[n] over all nodes, as so many units of each.               *)
Total(f) == Cardinality(UNION {{n} \X (1..f[n]) : n \in Nodes})

(* Engine 71 of a snapshot x.                                              *)
Hindered(row) == row.state \in {"BLOCKED", "FAILED"}

Stalled(x) ==
  {n \in Nodes : x.nodes[n].state = "IN_PROGRESS" /\ x.at - x.nodes[n].updatedAt > StalledAfter}

Blocked(x) == {n \in Nodes : Hindered(x.nodes[n])}

ProgressScore(x) == Clamp(Total([n \in Nodes |-> x.nodes[n].progress]), Cardinality(Nodes))

HealthScore(x) ==
  Clamp(ProgressScore(x) - 10 * Cardinality(Blocked(x)) - 5 * Cardinality(Stalled(x)), 1)

Status(x) ==
  CASE Blocked(x) # {} -> "AT_RISK"
    [] Blocked(x) = {} /\ Stalled(x) # {} -> "STALLED"
    [] Blocked(x) = {} /\ Stalled(x) = {} -> IF ProgressScore(x) = 100 THEN "COMPLETE" ELSE "ACTIVE"

(* Engine 73: how grave it is that so many pieces of evidence are missing. *)
Severity(k) == Clamp(15 * k, 1)

(* Engine 74, of a node as row tells of it at time t.                      *)
HoursRemaining(t) == Round(Due - t, 4)

Open(row) == row.state # "COMPLETED"

CompletedLate(row) == ~Open(row) /\ row.updatedAt > Due

ProbabilityInverted(row, t) ==
  CASE ~Open(row) -> IF CompletedLate(row) THEN 100 ELSE 0
    [] Open(row) /\ HoursRemaining(t) <= 0 -> 100
    [] OTHER -> Clamp((100 - row.progress) * Atleast1(HoursRemaining(t)), 72)

BreachProbability(row, t) ==
  CASE ~Open(row) -> IF CompletedLate(row) THEN 100 ELSE 0
    [] Open(row) /\ HoursRemaining(t) <= 0 -> 100
    [] OTHER -> Clamp((100 - row.progress) * 72, Atleast1(HoursRemaining(t)))

Breached(row, t) == CompletedLate(row) \/ (Open(row) /\ HoursRemaining(t) <= 0)

LateCompletionRisk(p) == CASE p >= 70 -> "HIGH" [] p >= 35 /\ p < 70 -> "MEDIUM" [] p < 35 -> "LOW"

(* Engine 76: who is told of work that is late or failing.                 *)
Recipient(severity) ==
  CASE severity >= 90 -> "EXECUTIVE_SPONSOR"
    [] severity >= 70 /\ severity < 90 -> "PROJECT_OWNER"
    [] severity < 70 -> "DELIVERY_MANAGER"

(* Engines 78 and 79.  A schedule compares each node alone with the        *)
(* capacity of its owner; resources compare what is assigned in all.       *)
Overloaded(x) == \E n \in Nodes : x.load.duration[n] > x.load.capacity

Assigned(x) == Total(x.load.duration)

Utilization(x) ==
  CASE x.load.capacity > 0 -> Round(100 * Assigned(x), x.load.capacity)
    [] x.load.capacity = 0 -> IF Assigned(x) > 0 THEN 100 ELSE 0

Bottleneck(x) == Utilization(x) > 100 \/ x.load.queued

(* Engine 80, the weights in twentieths; risk is inverted.                 *)
Worth(t, s) == IF s = "executionRisk" THEN 100 - t[s] ELSE t[s]

Score(t) ==
  Clamp(4 * (Worth(t, "milestoneCompletion") + Worth(t, "dodCompliance"))
          + 3 * (Worth(t, "evidenceQuality") + Worth(t, "validationStatus"))
          + 2 * (Worth(t, "approvalVelocity") + Worth(t, "settlementReadiness")
                   + Worth(t, "executionRisk")), 20)

Health(score) ==
  CASE score >= 80 -> "HEALTHY"
    [] score >= 60 /\ score < 80 -> "WATCH"
    [] score >= 40 /\ score < 60 -> "AT_RISK"
    [] score < 40 -> "CRITICAL"

----------------------------------------------------------------------------
NoReport == [at |-> -1]
NoHealth == [score |-> 0, health |-> "none"]

Snapshot == [at |-> clock, nodes |-> node, missing |-> missing, load |-> load]

Report(x) ==
  [at |-> x.at, nodes |-> x.nodes, missing |-> x.missing, load |-> x.load,
   status |-> Status(x), progressScore |-> ProgressScore(x), healthScore |-> HealthScore(x),
   stalled |-> Stalled(x), blocked |-> Blocked(x),
   sla |-> [n \in Nodes |->
             LET p == BreachProbability(x.nodes[n], x.at)
             IN [hoursRemaining |-> HoursRemaining(x.at), breached |-> Breached(x.nodes[n], x.at),
                 breachProbability |-> p, lateCompletionRisk |-> LateCompletionRisk(p)]],
   severity |-> [n \in Nodes |-> Severity(x.missing[n])],
   recipient |-> [n \in Nodes |-> Recipient(Severity(x.missing[n]))],
   overloaded |-> Overloaded(x), bottleneck |-> Bottleneck(x)]

TypeOK ==
  /\ clock \in Times
  /\ node \in [Nodes -> WorkflowNode]
  /\ signals \in [Signals -> Scores]
  /\ report # NoReport =>
       /\ {report.progressScore, report.healthScore} \subseteq 0..100
       /\ \A n \in Nodes : {report.sla[n].breachProbability, report.severity[n]} \subseteq 0..100
  /\ health # NoHealth => health.score \in 0..100

Init ==
  /\ clock = 0
  /\ node = [n \in Nodes |-> [state |-> "NOT_STARTED", progress |-> 0, updatedAt |-> 0]]
  /\ missing \in [Nodes -> Counts]
  /\ load \in [duration : [Nodes -> Hours], capacity : Hours, queued : BOOLEAN]
  /\ signals \in [Signals -> Scores]
  /\ report = NoReport
  /\ health = NoHealth

(* What the other engines do.                                              *)
Tick ==
  /\ \E t \in Times : t > clock /\ clock' = t
  /\ UNCHANGED <<node, missing, load, signals, report, health>>

Move(n) ==
  /\ node[n].state # "COMPLETED"
  /\ \E row \in WorkflowNode :
       /\ row.updatedAt = clock
       /\ row.state = "COMPLETED" => row.progress = 100
       /\ row.state = "NOT_STARTED" => row.progress = 0
       /\ node' = [node EXCEPT ![n] = row]
  /\ UNCHANGED <<clock, missing, load, signals, report, health>>

Lose(n) ==
  /\ \E k \in Counts : k > missing[n] /\ missing' = [missing EXCEPT ![n] = k]
  /\ UNCHANGED <<clock, node, load, signals, report, health>>

Signal(s) ==
  /\ \E v \in Scores : v # signals[s] /\ signals' = [signals EXCEPT ![s] = v]
  /\ UNCHANGED <<clock, node, missing, load, report, health>>

(* The analyses of one snapshot.                                           *)
Analyze ==
  /\ report' = Report(Snapshot)
  /\ UNCHANGED <<clock, node, missing, load, signals, health>>

Compute ==
  /\ health' = [signals |-> signals, score |-> Score(signals), health |-> Health(Score(signals))]
  /\ UNCHANGED <<clock, node, missing, load, signals, report>>

(* Work moves, evidence goes missing and signals change apart, each with   *)
(* the analysis that tells of it.                                          *)
Progress == Tick \/ (\E n \in Nodes : Move(n)) \/ Analyze
Burden == (\E n \in Nodes : Lose(n)) \/ Analyze
Judgement == (\E s \in Signals : Signal(s)) \/ Compute

----------------------------------------------------------------------------
(* An analysis of work nobody touched since the one before never tells of  *)
(* better health or of less danger of being late, and takes no breach      *)
(* back: the remaining hours and the quotient by them are rounded apart.   *)
WaitingNeverHelps ==
  report # NoReport /\ report'.at >= report.at /\ report'.nodes = report.nodes =>
    /\ report'.healthScore <= report.healthScore
    /\ \A n \in Nodes :
         /\ report'.sla[n].breachProbability >= report.sla[n].breachProbability
         /\ report.sla[n].breached => report'.sla[n].breached

(* Of two analyses at one time, the one that saw more progress everywhere  *)
(* and no new blockage tells of no worse health and no greater danger.     *)
ProgressHelps ==
  /\ report # NoReport
  /\ report'.at = report.at
  /\ \A n \in Nodes :
       /\ report'.nodes[n].progress >= report.nodes[n].progress
       /\ Hindered(report'.nodes[n]) => Hindered(report.nodes[n])
       /\ report.nodes[n].state = "COMPLETED" => report'.nodes[n] = report.nodes[n]
  => /\ report'.healthScore >= report.healthScore
     /\ \A n \in Nodes :
          report'.sla[n].breachProbability <= report.sla[n].breachProbability

(* Work that is late, or was done late, is reported as breached and at the *)
(* highest risk, however the remaining hours are rounded.                  *)
LateIsReported ==
  report # NoReport =>
    \A n \in Nodes :
      LET row == report.nodes[n]
          late == IF row.state = "COMPLETED" THEN row.updatedAt > Due ELSE report.at >= Due
      IN late => report.sla[n].breached /\ report.sla[n].lateCompletionRisk = "HIGH"

(* An owner is called overloaded, or a bottleneck with no queue of         *)
(* approvals, only if he has more assigned than he has capacity for.       *)
AlarmsAreTrue ==
  report # NoReport /\ (report.overloaded \/ (report.bottleneck /\ ~report.load.queued)) =>
    Assigned(report) > report.load.capacity

(* The more evidence is found missing, the higher the person told of it.   *)
Height(recipient) ==
  CASE recipient = "DELIVERY_MANAGER" -> 1
    [] recipient = "PROJECT_OWNER" -> 2
    [] recipient = "EXECUTIVE_SPONSOR" -> 3

GraverGoesHigher ==
  report # NoReport =>
    \A n \in Nodes :
      report'.missing[n] >= report.missing[n]
        => Height(report'.recipient[n]) >= Height(report.recipient[n])

(* The health of an agreement is a monotone judgement: signals that are    *)
(* all as good or better, a lower risk among them, never lower its score,  *)
(* and faultless signals score all of the 100.                             *)
BetterScoresHigher ==
  health # NoHealth =>
    /\ (\A s \in Signals : Worth(health'.signals, s) >= Worth(health.signals, s))
         => health'.score >= health.score
    /\ (\A s \in Signals : Worth(health'.signals, s) = 100) => health'.score = 100

----------------------------------------------------------------------------
(* Inductive invariant: a report tells of the snapshot it was computed     *)
(* from, and work that moved since moved no earlier.                       *)
Told(x) ==
  /\ report = Report(x)
  /\ x.at \in Times /\ x.nodes \in [Nodes -> WorkflowNode] /\ x.missing \in [Nodes -> Counts]
  /\ x.load \in [duration : [Nodes -> Hours], capacity : Hours, queued : BOOLEAN]
  /\ x.at <= clock
  /\ \A n \in Nodes : node[n] = x.nodes[n] \/ node[n].updatedAt >= x.at

IInv ==
  /\ clock \in Times /\ node \in [Nodes -> WorkflowNode] /\ missing \in [Nodes -> Counts]
  /\ load \in [duration : [Nodes -> Hours], capacity : Hours, queued : BOOLEAN]
  /\ signals \in [Signals -> Scores]
  /\ \A n \in Nodes : node[n].updatedAt <= clock
  /\ report # NoReport =>
       Told([at |-> report.at, nodes |-> report.nodes, missing |-> report.missing, load |-> report.load])
  /\ health # NoHealth =>
       /\ health.signals \in [Signals -> Scores]
       /\ health.score = Score(health.signals)
=============================================================================
