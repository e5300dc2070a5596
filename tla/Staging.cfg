SPECIFICATION Spec
CONSTANTS
  Procs = {x1, x2}
  Items <- MCItems
  Engine = "core"
  Faults <- Combined
SYMMETRY Symmetry
INVARIANTS
  TypeOK
  NothingStranded
  ProbedFilesUntouched
PROPERTY OwnedRowKeptUntilRemoved
