\* Three callers whose waits last until they are answered.
CONSTANTS
  Caller = {c1, c2, c3}
  Addr = {a1, a2, a3}
  None = None
  MaxId = 4
  Timeouts = FALSE
SPECIFICATION Spec
SYMMETRY Symmetry
CHECK_DEADLOCK FALSE
INVARIANTS HandlerAlive OwnAnswer NoLostWakeup
