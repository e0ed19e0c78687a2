\* PssReceive with and without a timeout, which races everything else.
CONSTANTS
  Callers = {"receive"}
  Capacity = 2
  MaxFrames = 4
SPECIFICATION ReceiveFairSpec
CHECK_DEADLOCK FALSE
INVARIANTS
  NilNeedsCtx
PROPERTIES
  NothingLeaks
  ReceiveReturns
