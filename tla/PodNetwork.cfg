SPECIFICATION PodFairSpec
CONSTANTS
  Sandboxes = {1, 2}
  Assignments <- OneOrTwoPods
  IPs = {a1}
  MaxFaults = 1
  MaxRepeats = 1
  MaxBacklog = 0
INVARIANTS PodTypeOK RunningIsWired ReleasedIsClean FlowsMatchPods
PROPERTIES LeasesReturned PodReachable
CHECK_DEADLOCK FALSE
