SPECIFICATION Spec
CONSTANTS
  Flows <- OneFlow
  MaxConns = 1
  MaxSent = 3
  MaxEchos = 2
  Window = 1
  ReadBuffer = 2
INVARIANTS NoMessageSkipped
CHECK_DEADLOCK FALSE
