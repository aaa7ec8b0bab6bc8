SPECIFICATION Spec
CONSTANTS
  Requests = {r1, r2}
  Archives = {i, j}
  Names = {"a.zip", "b.zip", "b.zip.zip", "c.zip"}
  Stem <- StemOf
  Nothing = nothing
  MaxRenames = 2
  MaxErrors = 1
  MaxCrashes = 2
CHECK_DEADLOCK FALSE
INVARIANTS TypeOK EveryFileIsFound MappingsAreTrue
PROPERTIES RenamesAreAtomic RenamesEnd
