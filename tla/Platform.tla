------------------------------- MODULE Platform -------------------------------
(***************************************************************************)
(* What stands around settlement and delivery: how an agreement is         *)
(* drafted, approved, signed and read, the agents, the models and their    *)
(* advice, the reports on work in flight and the audit trail.  As in       *)
(* Delivery, none reads the tables of another, and a behaviour plays one   *)
(* scene.  The reports and the audit trail have variables of their own.    *)
(***************************************************************************)
EXTENDS Naturals

CONSTANTS
  Program,   \* Program[s]: the engine and the bounds of scene s
  Ledger     \* the bounds of the scene of the audit trail

VARIABLES
  scene, db, job,
  clock, node, missing, load, signals, report, health,   \* WorkflowReports
  rows, lock, writer, count                              \* AuditChain

tables == <<db, job>>
work == <<clock, node, missing, load, signals, report, health>>
trail == <<rows, lock, writer, count>>
vars == <<scene, tables, work, trail>>

Scenes == DOMAIN Program
Cast == [s \in Scenes |-> Program[s]]   \* for TLC, which evaluates it once

DraftingScenes == {s \in Scenes : Cast[s].engine = "drafting"}
ExecutionScenes == {s \in Scenes : Cast[s].engine = "execution"}
ReadingScenes == {s \in Scenes : Cast[s].engine = "reading"}
AgentScenes == {s \in Scenes : Cast[s].engine = "agents"}
InsightScenes == {s \in Scenes : Cast[s].engine = "insights"}
ReportScenes == {s \in Scenes : Cast[s].engine = "reports"}

Drafting(s) == INSTANCE AgreementDrafting WITH
  Workers <- Cast[s].workers, Mortals <- Cast[s].mortals, MaxRows <- Cast[s].rows,
  Numbers <- Cast[s].numbers, Parties <- Cast[s].parties

Execution(s) == INSTANCE AgreementExecution WITH
  Workers <- Cast[s].workers, Mortals <- Cast[s].mortals, MaxRows <- Cast[s].rows,
  DocumentVersions <- Cast[s].documents, Users <- Cast[s].users, MaxSteps <- Cast[s].steps,
  Signers <- Cast[s].signers, Witnessed <- Cast[s].witnessed, Events <- Cast[s].events

Reading(s) == INSTANCE AgreementReading WITH
  Workers <- Cast[s].workers, Mortals <- Cast[s].mortals, MaxRows <- Cast[s].rows,
  Items <- Cast[s].items, Hashes <- Cast[s].hashes, Reviewers <- Cast[s].reviewers

Agent(s) == INSTANCE AgentRuntime WITH
  Workers <- Cast[s].workers, Mortals <- Cast[s].mortals, MaxRows <- Cast[s].rows,
  People <- Cast[s].people, Stamps <- Cast[s].stamps, MaxAttempts <- Cast[s].attempts

Insight(s) == INSTANCE Insights WITH
  Workers <- Cast[s].workers, Mortals <- Cast[s].mortals, MaxRows <- Cast[s].rows,
  Gates <- Cast[s].gates, ModelNames <- Cast[s].models, Roles <- Cast[s].roles

Reports(s) == INSTANCE WorkflowReports WITH
  Nodes <- Cast[s].nodes, Percents <- Cast[s].percents, Times <- Cast[s].times,
  Due <- Cast[s].due, StalledAfter <- Cast[s].stalledAfter, Counts <- Cast[s].counts,
  Hours <- Cast[s].hours, Scores <- Cast[s].scores

Audit == INSTANCE AuditChain WITH
  Tenants <- Ledger.tenants, Platform <- Ledger.platform, Events <- Ledger.events,
  Writers <- Ledger.writers, Nobody <- Ledger.nobody, MaxAudits <- Ledger.audits,
  job <- writer

ASSUME PlatformAssumption ==
  /\ \A s \in DraftingScenes : Drafting(s)!DraftingAssumption
  /\ \A s \in ExecutionScenes : Execution(s)!ExecutionAssumption
  /\ \A s \in ReadingScenes : Reading(s)!ReadingAssumption
  /\ \A s \in AgentScenes : Agent(s)!AgentAssumption
  /\ \A s \in InsightScenes : Insight(s)!InsightsAssumption
  /\ \A s \in ReportScenes : Reports(s)!ReportsAssumption
  /\ "audit" \notin Scenes /\ Audit!WritersAssumption

----------------------------------------------------------------------------
NoTables == db = "none" /\ job = "none"

NoWork ==
  /\ clock = "none" /\ node = "none" /\ missing = "none" /\ load = "none"
  /\ signals = "none" /\ report = "none" /\ health = "none"

NoTrail == rows = "none" /\ lock = "none" /\ writer = "none" /\ count = "none"

Init ==
  \/ /\ NoWork /\ NoTrail
     /\ \/ \E s \in DraftingScenes : scene = s /\ Drafting(s)!Empty
        \/ \E s \in ExecutionScenes : scene = s /\ Execution(s)!Empty
        \/ \E s \in ReadingScenes : scene = s /\ Reading(s)!Empty
        \/ \E s \in AgentScenes : scene = s /\ Agent(s)!Empty
        \/ \E s \in InsightScenes : scene = s /\ Insight(s)!Empty
  \/ /\ NoTables /\ NoTrail
     /\ \E s \in ReportScenes : scene = s /\ Reports(s)!Init
  \/ /\ NoTables /\ NoWork
     /\ scene = "audit" /\ Audit!Init

Playing(s) == scene = s /\ UNCHANGED scene

DraftingStep == \E s \in DraftingScenes : Playing(s) /\ Drafting(s)!Next
ExecutionStep == \E s \in ExecutionScenes : Playing(s) /\ Execution(s)!Next
ReadingStep == \E s \in ReadingScenes : Playing(s) /\ Reading(s)!Next
AgentStep == \E s \in AgentScenes : Playing(s) /\ Agent(s)!Next
InsightStep == \E s \in InsightScenes : Playing(s) /\ Insight(s)!Next
EngineStep ==
  /\ DraftingStep \/ ExecutionStep \/ ReadingStep \/ AgentStep \/ InsightStep
  /\ UNCHANGED <<work, trail>>

(* Work moves in time, evidence goes missing or the signals of the health  *)
(* score change, whichever the scene is about.                             *)
ReportStep ==
  /\ \E s \in ReportScenes :
       /\ Playing(s)
       /\ \/ Cast[s].about = "progress" /\ Reports(s)!Progress
          \/ Cast[s].about = "burden" /\ Reports(s)!Burden
          \/ Cast[s].about = "judgement" /\ Reports(s)!Judgement
  /\ UNCHANGED <<tables, trail>>

AuditStep ==
  /\ Playing("audit") /\ Audit!Next
  /\ UNCHANGED <<tables, work>>

Next == EngineStep \/ ReportStep \/ AuditStep
Spec == Init /\ [][Next]_vars

----------------------------------------------------------------------------
RecordsTyped ==
  /\ \A s \in DraftingScenes : scene = s => Drafting(s)!TypeOK
  /\ \A s \in ExecutionScenes : scene = s => Execution(s)!TypeOK
  /\ \A s \in ReadingScenes : scene = s => Reading(s)!TypeOK
  /\ \A s \in AgentScenes : scene = s => Agent(s)!TypeOK
  /\ \A s \in InsightScenes : scene = s => Insight(s)!TypeOK
  /\ scene = "audit" => Audit!TypeOK

(* Whatever is done at once: no round, version, certificate, KPI or model  *)
(* is counted twice, one reading is in force, a reviewer has one opinion   *)
(* of a finding, and the memory of an execution is numbered in order.      *)
OnceOnly ==
  /\ \A s \in DraftingScenes : scene = s => Drafting(s)!NothingCountedTwice
  /\ \A s \in ExecutionScenes : scene = s => Execution(s)!OneCertificate
  /\ \A s \in ReadingScenes : scene = s => Reading(s)!OneOpinion /\ Reading(s)!OneReading
  /\ \A s \in AgentScenes : scene = s => Agent(s)!MemorySequenced
  /\ \A s \in InsightScenes : scene = s => Insight(s)!OneKpi /\ Insight(s)!OneRegistration

(* What a record claims took place: approvals by all, signatures of all, a *)
(* review before publication, no protected action by a model alone; and    *)
(* what is late is reported late.  It holds while requests race and die.   *)
ClaimsBacked ==
  /\ \A s \in DraftingScenes : scene = s => Drafting(s)!SubmittedFilled
  /\ \A s \in ExecutionScenes : scene = s =>
       Execution(s)!ApprovedByAll /\ Execution(s)!CertifiedFullySigned
  /\ \A s \in ReadingScenes : scene = s => Reading(s)!PublishedReviewed
  /\ \A s \in AgentScenes : scene = s => Agent(s)!ProtectedNeverInvoked
  /\ \A s \in ReportScenes : scene = s => Reports(s)!LateIsReported

(* What holds as long as requests come in turn or none dies: nothing that  *)
(* one call counts or supersedes is lost before the next.                  *)
SerialPromises ==
  /\ \A s \in DraftingScenes : scene = s /\ Drafting(s)!Reliable =>
       Drafting(s)!DraftNamesNewest /\ Drafting(s)!TemplateNeverLost
  /\ \A s \in ExecutionScenes : scene = s =>
       /\ Execution(s)!Reliable => Execution(s)!DecisionsCounted
       /\ Execution(s)!InTurn => Execution(s)!UsedIsKept
  /\ \A s \in ReadingScenes : scene = s /\ Reading(s)!Deathless => Reading(s)!ContractKept
  /\ \A s \in AgentScenes : scene = s =>
       /\ Agent(s)!Deathless => Agent(s)!IncumbentKept
       /\ Agent(s)!Reliable => Agent(s)!OutcomesMeasured
  /\ \A s \in InsightScenes : scene = s /\ Insight(s)!Deathless => Insight(s)!FailedIsFlagged

(* No step takes back what is closed, decided, signed or committed; where  *)
(* none dies, no agent is left without its active version; of requests     *)
(* that come in turn none shows a clause that is not published or *)
(* packages what is not approved.                                          *)
StepsAllowed ==
  [][/\ \A s \in DraftingScenes : scene = s =>
          /\ Drafting(s)!ClosedRoundStays
          /\ Drafting(s)!InTurn => Drafting(s)!InsertedPublished
     /\ \A s \in ExecutionScenes : scene = s =>
          /\ Execution(s)!CallbackKeepsSignatures
          /\ Execution(s)!InTurn => Execution(s)!PackagedWhenApproved
     /\ \A s \in AgentScenes : scene = s =>
          /\ Agent(s)!DecisionsKept
          /\ Agent(s)!Deathless => Agent(s)!AgentKept
     /\ scene = "audit" => Audit!CommittedStays /\ Audit!AppendOnly]_vars

(* Of two reports in a row: waiting never helps, progress does, the graver *)
(* goes to the higher, and better signals never score lower, although what *)
(* each is computed from is rounded several times; and every report is     *)
(* within its scales and alarms only at what is so.                        *)
ReportsMonotone ==
  [][\A s \in ReportScenes : scene = s =>
       /\ Reports(s)!WaitingNeverHelps /\ Reports(s)!ProgressHelps
       /\ Reports(s)!GraverGoesHigher /\ Reports(s)!BetterScoresHigher
       /\ Reports(s)!TypeOK' /\ Reports(s)!AlarmsAreTrue']_vars

(* The ledger finds no committed chain of audit records broken, and nobody *)
(* who writes under the lock is refused his position.                      *)
ChainsLinked == scene = "audit" => Audit!ChainsVerify /\ Audit!NobodyRefused
=============================================================================
