------------------------------- MODULE Delivery -------------------------------
(***************************************************************************)
(* From the plan of a contract to the certificate of completion: execution *)
(* work, completion assurance, the performance blueprint, readiness and    *)
(* governance.  Each engine has tables of its own and a request reads no   *)
(* other engine's, so a behaviour plays one scene: the tables of one of    *)
(* them, with so many rows of each collection, and requests that race,     *)
(* come in turn or die as the cast of the scene says.                      *)
(***************************************************************************)
EXTENDS Naturals

CONSTANT Program   \* Program[s]: the engine, the rows and the requests of scene s

VARIABLES scene, db, job

Scenes == DOMAIN Program
Cast == [s \in Scenes |-> Program[s]]   \* for TLC, which evaluates it once

WorkScenes == {s \in Scenes : Cast[s].engine = "work"}
CompletionScenes == {s \in Scenes : Cast[s].engine = "completion"}
BlueprintScenes == {s \in Scenes : Cast[s].engine = "blueprint"}
ReadinessScenes == {s \in Scenes : Cast[s].engine = "readiness"}
GovernanceScenes == {s \in Scenes : Cast[s].engine = "governance"}

Work(s) == INSTANCE ExecutionWork WITH
  Workers <- Cast[s].workers, Mortals <- Cast[s].mortals, MaxRows <- Cast[s].rows,
  Milestones <- Cast[s].milestones, MaxPercent <- Cast[s].percent

Assurance(s) == INSTANCE Completion WITH
  Workers <- Cast[s].workers, Mortals <- Cast[s].mortals, MaxRows <- Cast[s].rows,
  WorkItems <- Cast[s].items

Plan(s) == INSTANCE Blueprint WITH
  Workers <- Cast[s].workers, Mortals <- Cast[s].mortals, MaxRows <- Cast[s].rows,
  Contracts <- Cast[s].contracts, MaxPercent <- Cast[s].percent

Ready(s) == INSTANCE Readiness WITH
  Workers <- Cast[s].workers, Mortals <- Cast[s].mortals, MaxRows <- Cast[s].rows,
  MaxWeight <- Cast[s].weight

Govern(s) == INSTANCE Governance WITH
  Workers <- Cast[s].workers, Mortals <- Cast[s].mortals, MaxRows <- Cast[s].rows,
  People <- Cast[s].people, Keys <- Cast[s].keys, MaxVersion <- Cast[s].version

ASSUME DeliveryAssumption ==
  /\ \A s \in WorkScenes : Work(s)!WorkAssumption
  /\ \A s \in CompletionScenes : Assurance(s)!CompletionAssumption
  /\ \A s \in BlueprintScenes : Plan(s)!BlueprintAssumption
  /\ \A s \in ReadinessScenes : Ready(s)!ReadinessAssumption
  /\ \A s \in GovernanceScenes : Govern(s)!GovernanceAssumption

----------------------------------------------------------------------------
Init ==
  \/ \E s \in WorkScenes : scene = s /\ Work(s)!Empty
  \/ \E s \in CompletionScenes : scene = s /\ Assurance(s)!Empty
  \/ \E s \in BlueprintScenes : scene = s /\ Plan(s)!Empty
  \/ \E s \in ReadinessScenes : scene = s /\ Ready(s)!Empty
  \/ \E s \in GovernanceScenes : scene = s /\ Govern(s)!Empty

Playing(s) == scene = s /\ UNCHANGED scene

WorkStep == \E s \in WorkScenes : Playing(s) /\ Work(s)!Next
CompletionStep == \E s \in CompletionScenes : Playing(s) /\ Assurance(s)!Next
BlueprintStep == \E s \in BlueprintScenes : Playing(s) /\ Plan(s)!Next
ReadinessStep == \E s \in ReadinessScenes : Playing(s) /\ Ready(s)!Next
GovernanceStep == \E s \in GovernanceScenes : Playing(s) /\ Govern(s)!Next

Next == WorkStep \/ CompletionStep \/ BlueprintStep \/ ReadinessStep \/ GovernanceStep
Spec == Init /\ [][Next]_<<scene, db, job>>

----------------------------------------------------------------------------
RecordsTyped ==
  /\ \A s \in WorkScenes : scene = s => Work(s)!TypeOK
  /\ \A s \in CompletionScenes : scene = s => Assurance(s)!TypeOK
  /\ \A s \in BlueprintScenes : scene = s => Plan(s)!TypeOK
  /\ \A s \in ReadinessScenes : scene = s => Ready(s)!TypeOK
  /\ \A s \in GovernanceScenes : scene = s => Govern(s)!TypeOK

(* Whatever is done at once: one workspace per milestone, one decision and *)
(* one certificate in force per work item, one plan per contract and one   *)
(* definition of done per milestone, one baseline and one proposal per     *)
(* key.  No engine locks what it counts; the unique constraints, or a      *)
(* guard on what is written, have to do it.  For the definitions of done   *)
(* of governance neither does, and requests come in turn.                  *)
OnceOnly ==
  /\ \A s \in WorkScenes : scene = s => Work(s)!OneWorkspacePerMilestone
  /\ \A s \in CompletionScenes : scene = s => Assurance(s)!OneInForce
  /\ \A s \in BlueprintScenes : scene = s => Plan(s)!OnePlan
  /\ \A s \in ReadinessScenes : scene = s => Ready(s)!BaselineOnce
  /\ \A s \in GovernanceScenes : scene = s =>
       /\ Govern(s)!ProposedOnce
       /\ Govern(s)!InTurn => Govern(s)!OnePublished

(* What is recorded rests on what has to come before it, although it was   *)
(* checked in an earlier call and any of the requests may die in between.  *)
RecordsBacked ==
  /\ \A s \in WorkScenes : scene = s =>
       /\ Work(s)!CustodyComplete
       /\ Work(s)!ResolvedHasCause
       /\ Work(s)!EarnedAfterAccepted
  /\ \A s \in CompletionScenes : scene = s =>
       /\ Assurance(s)!ReinspectsFailure
       /\ Assurance(s)!ImplementedOnApproval
       /\ Assurance(s)!ResolvedOnPlan
  /\ \A s \in BlueprintScenes : scene = s => Plan(s)!MilestonesConfirmed
  /\ \A s \in GovernanceScenes : scene = s =>
       /\ Govern(s)!HistoryTookPlace
       /\ Govern(s)!StatusIsDecided
       /\ Govern(s)!CertifiedOnApproval
       /\ Govern(s)!ReleasedWhenDue

(* What holds as long as requests come in turn, and what two at once break *)
(* where the tables do not guard it; and what, besides, a request that     *)
(* dies between two writes breaks.                                         *)
SerialPromises ==
  /\ \A s \in WorkScenes : scene = s /\ Work(s)!InTurn =>
       Work(s)!ProgressGrows /\ Work(s)!SubmittedIsDone
  /\ \A s \in CompletionScenes : scene = s /\ Assurance(s)!Reliable =>
       Assurance(s)!IssueFollowsPlans /\ Assurance(s)!SupersededBySuccessor
  /\ \A s \in BlueprintScenes : scene = s =>
       /\ Plan(s)!InTurn => Plan(s)!AllocationBounded /\ Plan(s)!EdgesAcyclic
       /\ Plan(s)!Reliable => Plan(s)!PlanNeverLost
  /\ \A s \in ReadinessScenes : scene = s /\ Ready(s)!InTurn => Ready(s)!WeightBounded
  /\ \A s \in GovernanceScenes : scene = s /\ Govern(s)!InTurn => Govern(s)!OrderIsAcyclic

(* No step takes back what is final, leaves the table of transitions, or   *)
(* grants something whose conditions do not hold when it is written; the   *)
(* last only of requests that come in turn.                                *)
StepsAllowed ==
  [][/\ \A s \in WorkScenes : scene = s =>
          /\ Work(s)!FinalStays
          /\ Work(s)!InTurn => Work(s)!GatePassesClear /\ Work(s)!PackageCovers
     /\ \A s \in CompletionScenes : scene = s /\ Assurance(s)!InTurn =>
          Assurance(s)!CertifiedOnActive
     /\ \A s \in BlueprintScenes : scene = s /\ Plan(s)!InTurn => Plan(s)!ActivatedWithDone
     /\ \A s \in ReadinessScenes : scene = s => Ready(s)!EligibilityKept
     /\ \A s \in GovernanceScenes : scene = s =>
          /\ Govern(s)!MovesAreAllowed
          /\ Govern(s)!InTurn => Govern(s)!CompletedInOrder]_<<scene, db, job>>
=============================================================================
