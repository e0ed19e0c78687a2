\* One tool at a time, commands in two shells; two names and two contents.
\* Three commands: enough to save, to save again and to overlap.
SPECIFICATION Spec
SYMMETRY ToolsSymmetry
CHECK_DEADLOCK FALSE
CONSTANTS
  Shells = {p1, p2}
  MaxCommands = 3
  Names = {1, 2}
  Contents = {a, b}
  None = None
  RelayFiles <- TwoBuckets
  Slots = 2
INVARIANTS
  NothingDangles
  FeedFollowsFile
  GranteesMatch
  RelayCounts
  AcknowledgedKept
