SPECIFICATION Spec
CONSTANTS
  None = None
  Requests = {r1, r2, r3}
  Keys = {k1, k2}
  Payloads = {p1, p2}
  Limit = 1
  MaxMinute = 1
  MaxFaults = 2
INVARIANTS
  TypeOK
  OneJobPerKey
  AnswerNamesTheJob
  RateLimited
PROPERTY AcceptedIsEnqueued
SYMMETRY Symmetry
CHECK_DEADLOCK FALSE
