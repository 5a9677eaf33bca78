SPECIFICATION Spec
CONSTANTS
  Nodes <- OneNode
  PodCIDRs <- RangesOf
  Settings = {"s1"}
  MaxFaults = 0
  MaxReboots = 0
  MaxMoves = 0
INVARIANTS ClusterTrafficKeepsSource
CHECK_DEADLOCK FALSE
