\* A manifest is saved, extended and saved again.
CONSTANTS
  x = x
  y = y
  Bytes = {x, y}
  Paths <- MCPaths
  MaxPrefixLength = 2
  MaxAdds = 3
  MaxRemoves = 0
  MaxSaves = 2
SPECIFICATION Spec
CHECK_DEADLOCK FALSE
INVARIANT
  AddInvalidates
