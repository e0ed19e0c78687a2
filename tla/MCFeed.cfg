\* Two writers with lost and late requests, a node that may fail or lag,
\* indexes the callers choose, and a reader that checks the feed meanwhile.
CONSTANTS
  Writers = {w1, w2}
  MaxIndex = 2
  MaxCalls = 3
  Statuses = {"500", "503"}
  Lagging = TRUE
  Explicit = TRUE
  Checking = TRUE
SPECIFICATION Spec
SYMMETRY WriterSymmetry
CHECK_DEADLOCK FALSE
INVARIANTS
  OverwriteExplained
  NoHoles
  OwnUpdatesAscend
  RetrievableMeansAll
