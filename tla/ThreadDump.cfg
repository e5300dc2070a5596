SPECIFICATION Spec
CONSTANTS
  N = 3
  Monitors = {m1, m2}
  JucLocks = {j1}
  Namings <- Unique
  Forms = {"actuator", "jstack", "json", "plain"}
INVARIANTS
  CyclesAreReal
  EveryDeadlockFound
  AllClearIsEarned
PROPERTY WalkEnds
CHECK_DEADLOCK FALSE
