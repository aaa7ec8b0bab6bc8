SPECIFICATION Spec
CONSTANTS
  book = book
  twin = twin
  tab = tab
  phone = phone
  Items <- TwoItems
  Url <- SameUrl
  Clients <- TwoClients
  Requests <- StartAndConfirm
  Background <- NoBackground
  MaxRuns = 2
  MaxFaults = 0
  MaxCrashes = 0
SYMMETRY AnyClient
INVARIANTS
  TokenBelongsToLiveRun
CHECK_DEADLOCK FALSE
