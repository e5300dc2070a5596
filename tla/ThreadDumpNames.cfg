SPECIFICATION Spec
CONSTANTS
  N = 3
  Monitors = {m1}
  JucLocks = {j1, j2}
  Namings <- Shared
  Forms = {"json"}
INVARIANTS
  NeverCertifiedHealthy
CHECK_DEADLOCK FALSE
