SPECIFICATION Spec
CONSTANTS
  Sandboxes = {1, 2}
  Assignments <- SamePod
  IPs = {a1, a2}
  MaxFaults = 0
  MaxRepeats = 0
INVARIANTS ReleasedHasNoPort
CHECK_DEADLOCK FALSE
