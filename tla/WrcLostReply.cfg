\* The tail of the reply list is left behind.
CONSTANTS
  Caller = {c1, c2}
  Addr = {a1, a2}
  None = None
  MaxId = 3
  Timeouts = FALSE
SPECIFICATION Spec
CHECK_DEADLOCK FALSE
INVARIANT AnswerFindsSender
