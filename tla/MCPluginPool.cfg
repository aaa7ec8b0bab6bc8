SPECIFICATION Spec
CONSTANTS
  ehentai = ehentai
  NCalls = 3
  plugin <- OneCalled
  Plugins <- OnePlugin
  PipeRoom = 1
  MaxFetches = 2
  MaxUpsets = 3
INVARIANTS TypeOK NewCodeAnswers OneFailurePerProcess
PROPERTIES EveryCallReturns
CHECK_DEADLOCK FALSE
