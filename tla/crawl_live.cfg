SPECIFICATION FairSpec
CONSTANTS
  None = None
  Jobs = {j1}
  Pages = {p1}
  CallbackJobs = {j1}
  Middleware = TRUE
  Slots = {s1}
  Commands = {c1, c2}
  Kinds = {"create", "cancel", "reconcile"}
  MaxAttempts = 2
  Budget <- LastAttempt
PROPERTIES
  Settles
  Announced
  ReconcileRecovers
CHECK_DEADLOCK FALSE
