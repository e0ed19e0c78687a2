\* Binary fan-out, two-byte leaves: nine bytes need five leaves and four
\* levels, with carrier parents at two of them.  Up to two OnChunk errors, at
\* any chunk, with the caller going on after them.  A panicked process stops,
\* so deadlock is not an error here.
CONSTANTS
  ChunkSize = 2
  MaxBranches = 2
  MaxBytes = 9
  MaxFaults = 2
SPECIFICATION FairSpec
CHECK_DEADLOCK FALSE
INVARIANTS
  ReferencesEmitted
  RootCoversInput
PROPERTIES
  CallsReturn
  ImplementsFileHash
