CONSTANTS
  Slot = {s1, s2}
  Thread = {t1, t2}
  None = None
  InitRefs = 10
  QueueLimit = 2
  MaxWorkers = 1
SPECIFICATION FairSpec
CHECK_DEADLOCK FALSE
PROPERTIES CloseHonoured DeadWorkersDrained
