SPECIFICATION Spec
CONSTANTS
  Runs = {r1, r2, r3}
  NoRun = NoRun
  Names = {n1, n2}
  Kinds = {"capture", "section", "raw"}
  Exclusive = TRUE
  DiskMayFail = TRUE
SYMMETRY Symmetry
INVARIANTS
  ManifestReadable
  RecordDescribesFile
PROPERTY ImplementsLog
CHECK_DEADLOCK FALSE
