SPECIFICATION Spec
CONSTANTS
  Callers = {c1, c2}
  Archives = {i, j}
  Names = {"a", "a (restored)"}
  Tried <- TriedNames
  Nothing = nothing
  MaxOps = 3
  MaxCopies = 1
  MaxSweeps = 1
  MaxErrors = 1
  MaxCrashes = 1
SYMMETRY Symmetry
CHECK_DEADLOCK FALSE
INVARIANTS TypeOK NothingIsLost RecoveryListsEveryFile
