SPECIFICATION Spec
CONSTANTS
  Nodes = {n1, n2}
  IPs = {"ip1", "ip2"}
  CIDRs = {"c1"}
  NodeInputs <- OneInput
  Settings = {"s1"}
  MinTunnelID = 100
  MaxTunnelID = 100
  MaxNodeChanges = 2
  MaxCrashes = 0
  MaxFaults = 0
  WatchMayBreak = FALSE
  Heartbeats = FALSE
INVARIANTS TunnelIDsValid
CHECK_DEADLOCK FALSE
