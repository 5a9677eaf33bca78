SPECIFICATION FairSpec
CONSTANTS
  Nodes = {n1}
  IPs = {"ip1", "ip2"}
  CIDRs = {"c1"}
  NodeInputs <- AllInputs
  Settings = {"s1", "s2"}
  MinTunnelID = 100
  MaxTunnelID = 101
  MaxNodeChanges = 3
  MaxCrashes = 1
  MaxFaults = 0
  WatchMayBreak = FALSE
  Heartbeats = TRUE
PROPERTIES NodesGetConfigured TunnelIDsAllocated OrphansRemoved
CHECK_DEADLOCK FALSE
