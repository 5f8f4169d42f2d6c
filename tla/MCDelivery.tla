------------------------------ MODULE MCDelivery ------------------------------
(* Casts for Delivery: so many rows of each collection that what a scene   *)
(* is about can happen.  Two requests race and may die, or a clerk makes   *)
(* one after another, who may die too unless it is said that he does not.  *)
EXTENDS Delivery, TLC

CONSTANTS Pair, Clerk

Collections ==
  [work |-> {"executionWorkspaces", "workItems", "progressRecords", "evidenceRequirements",
             "evidencePackages", "validationTests", "qualityPlans", "defects",
             "qualityGateResults"},
   completion |-> {"inspections", "issueRecords", "correctiveActionPlans", "changeRequests",
                   "changeApprovals", "acceptanceDecisions", "completionCertificates"},
   blueprint |-> {"performanceBlueprints", "scopeItems", "deliverables", "blueprintMilestones",
                  "milestoneSequenceEdges", "dodPackages"},
   readiness |-> {"acceptanceCriteria", "successMetrics", "dependencies", "paymentTriggerRules",
                  "performanceBaselines", "baselineVariances"},
   governance |-> {"governedExecutions", "executionHistory", "governedMilestones",
                   "milestoneDependencies", "dodVersions", "dodEvaluations",
                   "certificationRequests", "certificationDecisions", "digitalCertifications",
                   "paymentTriggerDefinitions", "paymentAuthorizationProposals",
                   "releaseIntents"}]

(* A scene of an engine: of the collections that rows does not name, none. *)
Racing(engine, rows) ==
  [engine |-> engine, workers |-> Pair, mortals |-> Pair,
   rows |-> [c \in Collections[engine] |-> IF c \in DOMAIN rows THEN rows[c] ELSE 0],
   milestones |-> {"m1"}, items |-> {"i1"}, contracts |-> {"k1"}, percent |-> 1,
   weight |-> 1, people |-> {"p1"}, keys |-> {"k1"}, version |-> 1]

InOrder(engine, rows) ==
  [Racing(engine, rows) EXCEPT !.workers = {Clerk}, !.mortals = {Clerk}]

Reliably(engine, rows) == [InOrder(engine, rows) EXCEPT !.mortals = {}]

Working ==
  [spaces |-> [Racing("work", [executionWorkspaces |-> 2, workItems |-> 1])
                 EXCEPT !.milestones = {"m1", "m2"}],
   evidence |-> Racing("work", [evidenceRequirements |-> 2, evidencePackages |-> 1,
                                defects |-> 1]),
   progress |-> Racing("work", [executionWorkspaces |-> 1, workItems |-> 1,
                                progressRecords |-> 2]),
   earning |-> [InOrder("work", [executionWorkspaces |-> 1, workItems |-> 1,
                                 progressRecords |-> 3, validationTests |-> 1,
                                 qualityPlans |-> 1])
                  EXCEPT !.percent = 2],
   quality |-> InOrder("work", [defects |-> 2, qualityGateResults |-> 2,
                                evidenceRequirements |-> 2, evidencePackages |-> 1])]

Completing ==
  [checks |-> Racing("completion", [inspections |-> 3, changeRequests |-> 1,
                                    changeApprovals |-> 2]),
   issues |-> Racing("completion", [issueRecords |-> 1, correctiveActionPlans |-> 2]),
   certify |-> [Racing("completion", [acceptanceDecisions |-> 2, completionCertificates |-> 2])
                  EXCEPT !.items = {"i1", "i2"}],
   accept |-> [Reliably("completion", [issueRecords |-> 1, correctiveActionPlans |-> 1,
                                       acceptanceDecisions |-> 3, completionCertificates |-> 2])
                 EXCEPT !.items = {"i1", "i2"}]]

Planning ==
  [packages |-> Racing("blueprint", [performanceBlueprints |-> 2, scopeItems |-> 1,
                                     deliverables |-> 1, blueprintMilestones |-> 1,
                                     dodPackages |-> 2]),
   plan |-> [Reliably("blueprint", [performanceBlueprints |-> 2, scopeItems |-> 1,
                                    deliverables |-> 1, blueprintMilestones |-> 2,
                                    milestoneSequenceEdges |-> 1, dodPackages |-> 2])
               EXCEPT !.percent = 2],
   succession |-> Reliably("blueprint", [performanceBlueprints |-> 2, scopeItems |-> 2,
                                         deliverables |-> 2, blueprintMilestones |-> 2,
                                         dodPackages |-> 2]),
   order |-> [Reliably("blueprint", [performanceBlueprints |-> 1, scopeItems |-> 1,
                                     deliverables |-> 1, blueprintMilestones |-> 3,
                                     milestoneSequenceEdges |-> 3])
                EXCEPT !.percent = 3]]

Preparing ==
  [payment |-> Racing("readiness", [acceptanceCriteria |-> 1, dependencies |-> 2,
                                    paymentTriggerRules |-> 1]),
   baseline |-> Racing("readiness", [performanceBaselines |-> 2, baselineVariances |-> 2]),
   metrics |-> [InOrder("readiness", [successMetrics |-> 3]) EXCEPT !.weight = 3]]

Governing ==
  [executions |-> [Racing("governance", [governedExecutions |-> 1, executionHistory |-> 5])
                     EXCEPT !.version = 5],
   milestones |-> [InOrder("governance", [governedMilestones |-> 3,
                                          milestoneDependencies |-> 3])
                     EXCEPT !.version = 2],
   definitions |-> InOrder("governance", [governedMilestones |-> 2, dodVersions |-> 3]),
   certifications |-> [Racing("governance",
                         [governedMilestones |-> 1, dodVersions |-> 1, dodEvaluations |-> 1,
                          certificationRequests |-> 1, certificationDecisions |-> 2,
                          digitalCertifications |-> 2])
                         EXCEPT !.people = {"p1", "p2", "p3"}],
   proposals |-> [Racing("governance",
                    [governedMilestones |-> 2, dodVersions |-> 1, dodEvaluations |-> 1,
                     certificationRequests |-> 1, certificationDecisions |-> 1,
                     digitalCertifications |-> 1, paymentTriggerDefinitions |-> 1,
                     paymentAuthorizationProposals |-> 2, releaseIntents |-> 1])
                    EXCEPT !.people = {"p1", "p2"}]]

Casting == Working @@ Completing @@ Planning @@ Preparing @@ Governing
=============================================================================
