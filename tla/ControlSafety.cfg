SPECIFICATION Spec
CONSTANTS
  Nodes = {n1, n2}
  IPs = {"ip1", "ip2"}
  CIDRs = {"c1"}
  NodeInputs <- TwoInputs
  Settings = {"s1"}
  MinTunnelID = 100
  MaxTunnelID = 101
  MaxNodeChanges = 3
  MaxCrashes = 1
  MaxFaults = 1
  WatchMayBreak = TRUE
  Heartbeats = FALSE
SYMMETRY NodeSymmetry
INVARIANTS TypeOK TunnelIDsUnique TunnelIDsValid CopiesCoherent
PROPERTIES TunnelIDStable NoLostUpdate ImplementsRegistry
CHECK_DEADLOCK FALSE
