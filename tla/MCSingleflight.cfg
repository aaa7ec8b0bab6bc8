SPECIFICATION FairSpec
CONSTANTS
  c1 = c1
  c2 = c2
  c3 = c3
  c4 = c4
  k1 = k1
  k2 = k2
  k3 = k3
  nothing = nothing
  Nothing = nothing
  MaxConcurrency = 2
  Calls <- FourCalls
  Keys <- ThreeKeys
  Impatient <- FourCalls
INVARIANTS
  TypeOK
  OneWorkPerKey
  PermitsAreOutForWork
PROPERTIES
  FreshUnlessOwnerDropped
  EveryCallReturns
CHECK_DEADLOCK FALSE
