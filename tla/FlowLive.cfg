SPECIFICATION LiveSpec
CONSTANTS
  Workers = {w1}
  Flows = {f1}
  NSteps = 5
  Deps <- ForkDeps
  Kind <- ForkKind
  EventOf <- ForkEvent
  Gate <- ForkGate
  MaxAttempts <- ForkRetry
  Levels <- TestLevels
  StartKeys = {start1}
  SignalKeys = {sig1}
  Tasks = {t1, t2}
  Requests <- AllRequests
  MaxRuns = 2
  Nil = Nil
INVARIANTS SummaryAgrees NothingLeftBehind FailureHasCause
PROPERTIES RequestsEnd ApprovalTakesEffect
CHECK_DEADLOCK FALSE
