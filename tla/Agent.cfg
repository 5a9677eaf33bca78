SPECIFICATION FairSpec
CONSTANTS
  Nodes = {"self", "n1", "n2"}
  Self = "self"
  PodCIDR <- Mine
  ClusterCIDR <- Cluster
  CIDRs <- Ranges
  GatewayIP = "gw"
  OverlayIPs = {"x", "y", "z"}
  TunnelIDs = {100}
  ConfigInputs <- Shared
  Outside = "o"
  MaxChanges = 3
  MaxFailures = 1
  MaxBacklog = 1
INVARIANTS TypeOK  TunnelsMatchConfigs LocalStaysLocal
PROPERTIES  RemoteReachable LocalReachable
CHECK_DEADLOCK FALSE
