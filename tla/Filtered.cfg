\* Three media of two users, one of which may be unreadable.
CONSTANTS
  Media = {m1, m2, m3}
  User = {u1, u2}
  MaxTime = 3
SPECIFICATION Spec
CHECK_DEADLOCK FALSE
INVARIANT Filtered
