\* Two callers, one after the other or at once, with a price that may move; the
\* batch has two blocks left and a remainder.
CONSTANTS
  Callers = {a, b}
  Kinds = {"extend", "size", "duration"}
  BlockTime = 2
  Prices = {3, 5}
  Depths = {18, 19}
  Durations = {0, 5}
  FirstDepth = 17
  FirstBalance = 14
  MaxCalls = 2
  MaxBlocks = 1
SPECIFICATION Spec
SYMMETRY CallerSymmetry
CHECK_DEADLOCK FALSE
INVARIANTS
  ExtendedAsPromised
  NeverShorter
  DilutionFunded
  QuoteHolds
