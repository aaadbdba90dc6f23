SPECIFICATION FairSpec
CONSTANTS
  None = None
  Requests = {r1, r2, r3}
  Keys = {k1, k2}
  Payloads = {p1, p2}
  Codes <- AcceptedOrConflict
  MaxFaults = 2
INVARIANTS
  TypeOK
  EffectAtMostOnce
PROPERTIES
  ImplementsLedger
  AnswerIsDurable
  Answered
CHECK_DEADLOCK FALSE
