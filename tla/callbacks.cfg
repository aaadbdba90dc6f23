SPECIFICATION FairSpec
CONSTANTS
  None = None
  Plan <- OwnCallback
  Announcers = {a1, a2, a3}
  Slots = {s1, s2}
  MaxAttempts = 2
  MaxFaults = 2
INVARIANTS
  TypeOK
  PostsBounded
  SuccessRevivesAll
PROPERTIES
  ImplementsDelivery
  Settles
CHECK_DEADLOCK FALSE
