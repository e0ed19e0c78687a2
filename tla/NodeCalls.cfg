\* Two callers, together two calls of any methods, a node that refuses, loses
\* answers, serves requests late and changes on its own.
SPECIFICATION Spec
CHECK_DEADLOCK FALSE
CONSTANTS
  Callers = {p1, p2}
  MaxCalls = 2
  MaxInfo = 2
  Refs = {a}
  PriceRange = 2
  RowBytes = 3
  BodyBytes = 14
  MaxRows = 5
INVARIANTS
  AnswersTrue
  PaidOnce
  PinsChecked
