------------------------------ MODULE MCPlatform ------------------------------
(* Casts for Platform: so many rows of each collection that what a scene   *)
(* is about can happen.  Two requests race and may die, or a clerk makes   *)
(* one after another, who may die too unless it is said that he does not.  *)
EXTENDS Platform, TLC

CONSTANTS Pair, Clerk

Collections ==
  [drafting |-> {"agreements", "templateVersions", "documentVersions", "contractDrafts",
                 "contractComments", "clauseVersions", "clauseInstances", "clauseDeviations",
                 "negotiationRounds"},
   execution |-> {"approvalPolicies", "approvalRequests", "approvalDecisions",
                  "signaturePackages", "signatureCallbacks", "agreementExecutionCertificates"},
   reading |-> {"contractVersionsV2", "contractAnalysisRuns", "analysisReviews",
                "contractRiskAssessments", "repositoryDocuments",
                "agreementIntelligenceVersions"},
   agents |-> {"agentCapabilities", "registeredAgents", "promptVersions",
               "agentContextSnapshots", "agentMemory", "agentApprovalRequests",
               "agentTelemetry", "agentGovernancePolicies", "agentExecutions",
               "capabilityCalls", "protectedActions"},
   insights |-> {"executionAssuranceIndices", "settlementAssuranceIndices", "kpiDefinitions",
                 "kpiValues", "dashboardSnapshots", "executionForecasts",
                 "financialForecasts", "performanceScorecards", "portfolioSnapshots",
                 "renewalAssessments", "modelRegistrations", "evaluationRecords",
                 "driftAlerts", "modelFeedback", "recommendations"}]

(* What the provider reports: signatures, each perhaps many times, and     *)
(* that someone declined.                                                  *)
Reported(signers, witnesses) ==
  {[act |-> "SIGNED", user |-> u] : u \in signers}
    \cup {[act |-> "WITNESSED", user |-> u] : u \in witnesses}
    \cup {[act |-> "DECLINED"]}

(* A scene of an engine: of the collections that room does not name, none. *)
Racing(engine, room) ==
  [engine |-> engine, workers |-> Pair, mortals |-> Pair,
   rows |-> [c \in Collections[engine] |-> IF c \in DOMAIN room THEN room[c] ELSE 0],
   numbers |-> {"n1", "n2"}, parties |-> {"p1"},
   documents |-> {"d1"}, users |-> {"u1", "u2"}, steps |-> 2, signers |-> {"s1", "s2"},
   witnessed |-> {}, events |-> Reported({"s1", "s2"}, {}),
   items |-> {"i1", "i2"}, hashes |-> {"h1", "h2", "h3"}, reviewers |-> {"r1", "r2"},
   people |-> {"p1", "p2"}, stamps |-> {1}, attempts |-> 1,
   gates |-> {"g1"}, models |-> {"m1", "m2"}, roles |-> {"r1", "r2"}]

RacingDeathless(engine, room) == [Racing(engine, room) EXCEPT !.mortals = {}]

InOrder(engine, room) ==
  [Racing(engine, room) EXCEPT !.workers = {Clerk}, !.mortals = {Clerk}]

Reliably(engine, room) == [InOrder(engine, room) EXCEPT !.mortals = {}]

Draft ==
  [drafts |-> Racing("drafting", [agreements |-> 1, templateVersions |-> 1,
                                  documentVersions |-> 2, contractDrafts |-> 1]),
   rounds |-> Racing("drafting", [agreements |-> 2, negotiationRounds |-> 2,
                                  contractComments |-> 1]),
   clauses |-> InOrder("drafting", [clauseVersions |-> 2, clauseInstances |-> 3,
                                    clauseDeviations |-> 1]),
   revisions |-> Reliably("drafting", [agreements |-> 1, templateVersions |-> 3,
                                       documentVersions |-> 3, contractDrafts |-> 1])]

Sign ==
  [approvals |-> Racing("execution", [approvalPolicies |-> 1, approvalRequests |-> 1,
                                      approvalDecisions |-> 3]),
   signing |-> [Racing("execution", [approvalPolicies |-> 1, approvalRequests |-> 1,
                                     approvalDecisions |-> 2, signaturePackages |-> 1,
                                     signatureCallbacks |-> 3,
                                     agreementExecutionCertificates |-> 2])
                  EXCEPT !.steps = 1],
   signed |-> [Reliably("execution", [approvalPolicies |-> 1, approvalRequests |-> 1,
                                      approvalDecisions |-> 2, signaturePackages |-> 1,
                                      signatureCallbacks |-> 3,
                                      agreementExecutionCertificates |-> 2])
                 EXCEPT !.witnessed = {"s2"},
                        !.events = Reported({"s1", "s2", "outsider"}, {"s2"})]]

Read ==
  [contracts |-> RacingDeathless("reading", [contractVersionsV2 |-> 3,
                                             repositoryDocuments |-> 1]),
   findings |-> Racing("reading", [contractAnalysisRuns |-> 1, analysisReviews |-> 2,
                                   contractRiskAssessments |-> 2]),
   readings |-> Racing("reading", [agreementIntelligenceVersions |-> 2])]

Act ==
  [registries |-> RacingDeathless("agents", [registeredAgents |-> 2, promptVersions |-> 3,
                                             agentGovernancePolicies |-> 3]),
   consents |-> [Racing("agents", [agentApprovalRequests |-> 2, protectedActions |-> 2])
                   EXCEPT !.stamps = {1, 2}],
   runs |-> Racing("agents", [agentCapabilities |-> 1, registeredAgents |-> 1,
                              promptVersions |-> 1, agentContextSnapshots |-> 1,
                              agentGovernancePolicies |-> 1, agentExecutions |-> 1,
                              agentMemory |-> 2, agentTelemetry |-> 1, capabilityCalls |-> 1]),
   measured |-> [Reliably("agents", [agentCapabilities |-> 1, registeredAgents |-> 1,
                                     promptVersions |-> 1, agentContextSnapshots |-> 1,
                                     agentGovernancePolicies |-> 1, agentExecutions |-> 1,
                                     agentMemory |-> 3, agentTelemetry |-> 2,
                                     capabilityCalls |-> 2])
                   EXCEPT !.attempts = 2]]

Advise ==
  [measures |-> [Racing("insights", [kpiDefinitions |-> 2, kpiValues |-> 1,
                                     executionAssuranceIndices |-> 1,
                                     settlementAssuranceIndices |-> 1,
                                     dashboardSnapshots |-> 1])
                   EXCEPT !.roles = {"r1"}],
   forecasts |-> Racing("insights", [executionForecasts |-> 1, financialForecasts |-> 1,
                                     performanceScorecards |-> 1, portfolioSnapshots |-> 1,
                                     renewalAssessments |-> 1]),
   advice |-> Racing("insights", [modelRegistrations |-> 2, recommendations |-> 1,
                                  modelFeedback |-> 1]),
   drift |-> RacingDeathless("insights", [modelRegistrations |-> 1, evaluationRecords |-> 2,
                                          driftAlerts |-> 3])]

(* Quarters of an hour: 400 is a little over four days, and one may look   *)
(* just before and after work is due, or has stalled.                      *)
Watching(about, nodes) ==
  [engine |-> "reports", about |-> about, nodes |-> nodes, percents |-> {0}, times |-> {0},
   due |-> 400, stalledAfter |-> 200, counts |-> {0}, hours |-> {0}, scores |-> {0}]

Watch ==
  [late |-> [Watching("progress", {"n1"})
               EXCEPT !.percents = {0, 33, 99, 100},
                      !.times = {0, 200, 201, 398, 399, 400, 401}],
   pace |-> [Watching("progress", {"n1", "n2"})
               EXCEPT !.percents = {0, 100}, !.times = {0, 240}],
   load |-> [Watching("burden", {"n1", "n2"})
               EXCEPT !.counts = {0, 5, 7}, !.hours = {0, 3, 7}],
   health |-> [Watching("judgement", {"n1"}) EXCEPT !.scores = {0, 100}]]

Casting == Draft @@ Sign @@ Read @@ Act @@ Advise @@ Watch

Account ==
  [tenants |-> {"tenant"}, platform |-> "platform", events |-> {"e1", "e2"},
   writers |-> {"v1", "v2", "v3"}, nobody |-> "nobody", audits |-> 3]
=============================================================================
