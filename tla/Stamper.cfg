\* Three goroutines, two buckets of two slots: one can be filled, refused and
\* raced on while the other is in use.
CONSTANTS
  Threads = {t1, t2, t3}
  Buckets = {b1, b2}
  BucketBits = 1
  Word = 8
  Depth = 2
  MaxCalls = 5
SPECIFICATION Spec
CHECK_DEADLOCK FALSE
INVARIANTS
  UniqueIndex
  FullMeansSpent
