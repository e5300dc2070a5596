SPECIFICATION Spec
CONSTANTS
  Pods = {p1, p2}
  NoPod = NoPod
  Stray = Stray
INVARIANTS
  RefusedBeforeAnything
  SuccessIsBacked
PROPERTIES
  HarmIsAuthorised
  KeptUntilWhole
CHECK_DEADLOCK FALSE
