SPECIFICATION Spec
CONSTANTS
  Count = 3
  HasHTTP = TRUE
INVARIANTS
  TypeOK
  ExitsNonZero
  ClosedUnderNobody
PROPERTY
  AllGoDown
\* The process ends.
CHECK_DEADLOCK FALSE
