SPECIFICATION Spec
CONSTANTS
  None = None
  Jobs = {j1}
  Pages = {p1}
  CallbackJobs = {j1}
  Middleware = TRUE
  Slots = {s1, s2}
  Commands = {c1, c2, c3}
  Kinds = {"create", "cancel", "reconcile"}
  MaxAttempts = 2
  Budget <- Zombies
INVARIANTS
  AnnouncedOnlyIfCompleted
  AnnouncedInOrder
PROPERTIES
  CompletedIsFinal
  ImplementsLifecycle
SYMMETRY Symmetry
CHECK_DEADLOCK FALSE
