SPECIFICATION Spec
CONSTANTS
  Flows <- ShortFlow
  MaxStreams = 3
  Buffer = 1
  Scenes <- Ordinary
INVARIANT EscGoesBack
CHECK_DEADLOCK FALSE
