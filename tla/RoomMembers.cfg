\* Two sessions, of the same user or of two, and two rooms of one uuid.
CONSTANTS
  Session = {s1, s2}
  User = {u1, u2}
  Uuid = {x1}
  Room = {r1, r2}
  Member = {m1, m2}
  None = None
  MaxTimers = 1
SPECIFICATION Spec
SYMMETRY Symmetry
CONSTRAINTS OnePinned OneAsked
CHECK_DEADLOCK FALSE
INVARIANTS MembersAgree NoDangling OncePerUser
