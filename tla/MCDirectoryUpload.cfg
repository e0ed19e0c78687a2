\* Any directory over three paths, or up to three entries in any order; the
\* user changes two files while the upload runs, and any call may fail.
SPECIFICATION UploadSpec
CHECK_DEADLOCK FALSE
CONSTANTS
  x = x
  y = y
  whole = whole
  first = first
  second = second
  Bytes = {x, y}
  Paths <- MCPaths
  MaxPrefixLength = 2
  MaxAdds = 3
  MaxRemoves = 0
  MaxSaves = 1
  Order <- MCOrder
  Contents <- MCContents
  None = None
  MaxEdits = 2
INVARIANTS
  FilesServed
  FilesBeforeManifest
PROPERTIES
  UploadEnds
