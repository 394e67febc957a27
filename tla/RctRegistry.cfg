\* Two creating threads, four resources.
CONSTANTS
  Slot = {s1, s2, s3, s4}
  Thread = {t1, t2}
  None = None
  InitRefs = 10
  QueueLimit = 1
  MaxWorkers = 1
SPECIFICATION Spec
SYMMETRY Symmetry
CONSTRAINT OneHeld
CHECK_DEADLOCK FALSE
INVARIANTS RefsExact NoDangling CreationsApart
PROPERTY CloseCascades
