SPECIFICATION Spec
CONSTANTS
  Workers = {w1, w2}
  Flows = {f1}
  NSteps = 2
  Deps <- ChainDeps
  Kind <- ChainKind
  EventOf <- ChainEvent
  Gate <- ChainGate
  MaxAttempts <- ChainRetry
  Levels <- TestLevels
  StartKeys = {start1}
  SignalKeys = {sig1}
  Tasks = {t1, t2}
  Requests <- ApprovalRequests
  MaxRuns = 2
  Nil = Nil
SYMMETRY Symmetry
INVARIANTS TypeOK DependencyOrder EffectsAfterDependencies ClosedAfterWork HumanGate RetryBudget
PROPERTY PlanSpec
CHECK_DEADLOCK FALSE
