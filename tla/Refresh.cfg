SPECIFICATION FairSpec
CONSTANTS
  Pods = {p1, p2}
  NoPod = NoPod
  Hung = {p2}
  MaxKeys = 3
INVARIANTS
  BusyIsAnswered
  LogsDoNotStack
PROPERTY CatchesUp
