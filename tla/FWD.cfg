SPECIFICATION Spec
CONSTANTS
  Nodes <- LineNodes
  Origin = "o"
  Tables <- LineTables
  TTL_MAX = 4
  INFINITY = 4
  MaxInputs = 2
INVARIANTS TypeOK PathIsRoute HandlersLeft
PROPERTIES TraceEnds SendsArrive
CHECK_DEADLOCK FALSE
