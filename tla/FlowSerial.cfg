SPECIFICATION Spec
CONSTANTS
  Workers = {w1}
  Flows = {f1}
  NSteps = 4
  Deps <- TestDeps
  Kind <- TestKind
  EventOf <- TestEvent
  Gate <- TestGate
  MaxAttempts <- TestRetry
  Levels <- TestLevels
  StartKeys = {start1}
  SignalKeys = {sig1, sig2}
  Tasks = {t1, t2}
  Requests <- AllRequests
  MaxRuns = 3
  Nil = Nil
INVARIANTS EffectPerAttempt ApprovalGate
PROPERTIES StepsFinal HaltedStays
CHECK_DEADLOCK FALSE
