\* A node that refuses and loses calls, shows the feed and the chain late,
\* another run with the same signer, and every kind of environment.
SPECIFICATION CheckSpec
CHECK_DEADLOCK FALSE
CONSTANTS
  Polls = 2
  Tries = 2
  Others = 1
INVARIANTS
  SkipsExplained
  MoneySpent
  FeedAgrees
PROPERTIES
  Terminates
