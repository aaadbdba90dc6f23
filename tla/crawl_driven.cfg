SPECIFICATION Spec
CONSTANTS
  None = None
  Jobs = {j1}
  Pages = {p1}
  CallbackJobs = {j1}
  Middleware = TRUE
  Slots = {s1, s2}
  Commands = {c1, c2, c3}
  Kinds = {"create", "retry", "reconcile"}
  MaxAttempts = 3
  Budget <- WorkerTrouble
INVARIANTS
  OpenJobIsDriven
  CreateFailsOnRecord
  ToldWhatIsStored
SYMMETRY Symmetry
CHECK_DEADLOCK FALSE
