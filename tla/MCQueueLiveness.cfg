SPECIFICATION FairSpec
CONSTANTS
  book = book
  twin = twin
  tab = tab
  phone = phone
  Items <- OneItem
  Url <- SameUrl
  Clients <- OneClient
  Requests <- StartStopDelete
  Background <- AllBackground
  MaxRuns = 1
  MaxFaults = 1
  MaxCrashes = 1
PROPERTIES
  EveryRunEnds
  NothingStaysInFlight
CHECK_DEADLOCK FALSE
