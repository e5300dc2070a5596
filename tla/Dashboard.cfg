SPECIFICATION FairSpec
CONSTANTS
  Flows <- MCFlows
  MaxStreams = 3
  Buffer = 1
  Scenes <- Every
INVARIANTS
  TypeOK
  OnlyThePaneRuns
  HeapAsksFirst
  FlowGoesOn
PROPERTY StoppedEnds
CHECK_DEADLOCK FALSE
