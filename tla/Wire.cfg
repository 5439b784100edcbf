SPECIFICATION FairSpec
CONSTANTS
  MaxFrame = 2
  Sizes <- SomeSizes
  Cap = 6
  Window = 2
  MaxCalls = 3
INVARIANTS
  InStep
  NothingSkipped
PROPERTIES
  ImplementsRequestReply
  CallReturns
CHECK_DEADLOCK FALSE
