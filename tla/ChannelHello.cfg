SPECIFICATION Spec
CONSTANTS
  Flows <- OneFlow
  MaxConns = 2
  MaxSent = 3
  MaxEchos = 0
  Window = 1
  ReadBuffer = 1
INVARIANTS EveryConnectionGreeted
CHECK_DEADLOCK FALSE
