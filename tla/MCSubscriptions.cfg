SPECIFICATION Spec
CONSTANTS
  book = book
  first = first
  second = second
  user1 = user1
  Nothing = Nothing
  Works <- OneWork
  Checks <- TwoChecks
  Users <- OneUser
  MissingThreshold = 2
  MaxRequests = 1
  MaxChanges = 1
  MaxFaults = 1
INVARIANTS TypeOK NothingSlipsAway
PROPERTIES MatchesAreOffered
CHECK_DEADLOCK FALSE
