SPECIFICATION Spec
CONSTANTS
  Downloads = {d1, d2}
  Watcher = watcher
  Boot = boot
  CatchUp = catchUp
  Brought = {a, b, e}
  UserContents = {a}
  Names = {"p.zip", "p (1).zip"}
  Wanted = {"p.zip"}
  UserNames = {"p.zip"}
  Numbered <- NumberedNames
  Stem <- StemOf
  Nothing = nothing
  MaxIngests = 2
  MaxUserMoves = 0
  MaxFaults = 1
SYMMETRY Symmetry
CHECK_DEADLOCK FALSE
INVARIANTS TypeOK RestingFilesAreServed
PROPERTIES FilesSurvive
