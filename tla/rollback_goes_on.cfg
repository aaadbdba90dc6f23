SPECIFICATION Spec
CONSTANTS
  None = None
  api = api
  Services = {api, w1, w2}
  MaxFaults <- TwoFaults
  MaxOps = 1
  MaxWrites = 2
INVARIANTS
  OnePointInTime
CHECK_DEADLOCK FALSE
