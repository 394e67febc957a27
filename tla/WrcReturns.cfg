\* Waits may end at any time; the worker may never answer.
CONSTANTS
  Caller = {c1, c2}
  Addr = {a1, a2}
  None = None
  MaxId = 3
  Timeouts = TRUE
SPECIFICATION FairSpec
CHECK_DEADLOCK FALSE
PROPERTY CallReturns
