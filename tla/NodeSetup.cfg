SPECIFICATION FairSpec
CONSTANTS
  Nodes <- TwoNodes
  PodCIDRs <- RangesOf
  Settings = {"s1"}
  MaxFaults = 1
  MaxReboots = 1
  MaxMoves = 1
INVARIANTS TypeOK RunningIsSetUp
PROPERTIES NodesComeUp
CHECK_DEADLOCK FALSE
