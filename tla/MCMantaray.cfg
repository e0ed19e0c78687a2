\* Three paths of the seven, one removal and two saves, in any order: nodes
\* split in every position and chains grow to three nodes.
CONSTANTS
  x = x
  y = y
  Bytes = {x, y}
  Paths <- MCPaths
  MaxPrefixLength = 2
  MaxAdds = 3
  MaxRemoves = 1
  MaxSaves = 2
SPECIFICATION Spec
CHECK_DEADLOCK FALSE
INVARIANTS
  PatriciaTrie
  FilesFound
  SavedServes
  ChildrenFirst
