SPECIFICATION Spec
CONSTANTS
  Downloads = {d1}
  Watcher = watcher
  Boot = boot
  CatchUp = catchUp
  Brought = {b}
  UserContents = {a, c}
  Names = {"p.zip", "q.zip"}
  Wanted = {}
  UserNames = {"p.zip", "q.zip"}
  Numbered <- NumberedNames
  Stem <- StemOf
  Nothing = nothing
  MaxIngests = 0
  MaxUserMoves = 1
  MaxFaults = 2
CHECK_DEADLOCK FALSE
PROPERTIES EveryFileIsServed
