SPECIFICATION LiveSpec
CONSTANTS
  Workers = {w1, w2}
  Flows = {f1}
  NSteps = 3
  Deps <- RelayDeps
  Kind <- RelayKind
  EventOf <- RelayEvent
  Gate <- RelayGate
  MaxAttempts <- RelayRetry
  Levels <- TestLevels
  StartKeys = {start1}
  SignalKeys = {sig1}
  Tasks = {t1, t2}
  Requests <- EventRequests
  MaxRuns = 3
  Nil = Nil
INVARIANT AdvancedOnce
CHECK_DEADLOCK FALSE
