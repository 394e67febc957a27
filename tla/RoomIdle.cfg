\* One room address, used again while an old timer runs; fair timers and events.
CONSTANTS
  Session = {s1, s2}
  User = {u1, u2}
  Uuid = {x1}
  Room = {r1}
  Member = {m1, m2}
  None = None
  MaxTimers = 2
SPECIFICATION FairSpec
CHECK_DEADLOCK FALSE
PROPERTIES ClosingEmpties AbandonedCloses
