\* One consumer that may stop at any time, two goroutines that may cancel, a
\* buffer that fills up.
CONSTANTS
  Callers = {c1, c2}
  Capacity = 1
  MaxFrames = 3
SPECIFICATION FairSpec
CHECK_DEADLOCK FALSE
INVARIANTS
  InOrder
  EndExplained
PROPERTIES
  CancelEnds
  NodeEndDelivers
