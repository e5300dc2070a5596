SPECIFICATION Spec
CONSTANTS
  Runs = {r1, r2}
  NoRun = NoRun
  Names = {n1, n2}
  Kinds = {"capture"}
  Exclusive = FALSE
  DiskMayFail = FALSE
INVARIANT InvalidDistinguishable
CHECK_DEADLOCK FALSE
