SPECIFICATION FairSpec
CONSTANTS
  unlimited = unlimited
  NoLimit = unlimited
  MaxJobs = 3
  Capacities <- OneOrTwo
  MaxChanges = 2
INVARIANTS
  TypeOK
  ServedInOrder
  LimitHoldsWhileItStands
PROPERTIES
  ImplementsTurnLine
  NobodyIsStranded
CHECK_DEADLOCK FALSE
