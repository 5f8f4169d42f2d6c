SPECIFICATION LiveSpec
CONSTANTS
  Workers = {w1, w2}
  Flows = {f1, f2}
  NSteps = 3
  Deps <- RelayDeps
  Kind <- RelayKind
  EventOf <- RelayEvent
  Gate <- RelayGate
  MaxAttempts <- RelayRetry
  Levels <- TestLevels
  StartKeys = {start1}
  SignalKeys = {sig1, sig2}
  Tasks = {t1, t2}
  Requests <- StartRequests
  MaxRuns = 3
  Nil = Nil
INVARIANT OneFlowPerKey
CHECK_DEADLOCK FALSE
