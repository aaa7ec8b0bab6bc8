SPECIFICATION Spec
CONSTANTS
  book = book
  twin = twin
  tab = tab
  phone = phone
  Items <- OneItem
  Url <- SameUrl
  Clients <- OneClient
  Requests <- AllRequests
  Background <- AllBackground
  MaxRuns = 1
  MaxFaults = 0
  MaxCrashes = 1
INVARIANTS
  TypeOK
  JobMirrorsRun
  ArchivesOnlyAfterIngest
CHECK_DEADLOCK FALSE
