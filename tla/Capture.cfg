SPECIFICATION BudgetSpec
CONSTANTS
  Pods = {p1, p2}
  NoPod = NoPod
  MaxLogAttempts = 2
INVARIANTS
  NeverPauseGuessed
  NoFalseSuccess
  FailureMeansNoGoodCapture
  RefusalIsHarmless
  RejectedCopyIsNamed
  EveryFileAccountedFor
PROPERTIES
  DumpKeptUntilValidated
  CancelStopsHarm
  ImplementsPromise
  BudgetBoundsRun
CHECK_DEADLOCK FALSE
