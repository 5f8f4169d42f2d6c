SPECIFICATION LiveSpec
CONSTANTS
  Workers = {w1, w2}
  Flows = {f1}
  NSteps = 2
  Deps <- RestartDeps
  Kind <- RestartKind
  EventOf <- RestartEvent
  Gate <- RestartGate
  MaxAttempts <- RestartRetry
  Levels <- TestLevels
  StartKeys = {start1}
  SignalKeys = {sig1, sig2}
  Tasks = {t1, t2}
  Requests <- EventRequests
  MaxRuns = 3
  Nil = Nil
INVARIANT EffectOnce
CHECK_DEADLOCK FALSE
