SPECIFICATION Spec
CONSTANTS
  None = None
  api = api
  Services = {api, w1, w2}
  MaxFaults <- OneFault
  MaxOps = 3
  MaxWrites = 2
INVARIANTS
  OnePointInTime
  FailedInstallIsUndone
CHECK_DEADLOCK FALSE
