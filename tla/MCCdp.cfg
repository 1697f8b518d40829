SPECIFICATION Spec
CONSTANTS
  Conns = {"c1", "c2"}
  Words <- WordsDef
  Plans <- PlansDef
  MaxRequests = 2
INVARIANTS
  AttachedExact
  LinesReported
PROPERTIES
  Answered
CHECK_DEADLOCK FALSE
