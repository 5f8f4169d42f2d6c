SPECIFICATION Spec
CONSTANTS
  Workers = {w1, w2}
  Flows = {f1}
  NSteps = 3
  Deps <- RelayDeps
  Kind <- RelayKind
  EventOf <- RelayEvent
  Gate <- RelayGate
  MaxAttempts <- RelayRetry
  Levels = {1}
  StartKeys = {start1}
  SignalKeys = {sig1, sig2}
  Tasks = {t1}
  Requests <- EventRequests
  MaxRuns = 2
  Nil = Nil
SYMMETRY Symmetry
INVARIANTS IInv EventGate
CHECK_DEADLOCK FALSE
