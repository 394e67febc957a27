\* One member sends to another, whose transport is replaced once; or two users and two
\* sessions of rooms, of which an earlier run of the server may have left the first.
CONSTANTS
  None = None
  MaxTroubles = 1
  Member = {m1, m2}
  Sender = {m1}
  Recv = {v1, v2}
  Send = {s1}
  Producer = {p1}
  Consumer = {c1, c2}
  Ask <- OneWay
  User = {u1, u2}
  Uuid = {r1, r2}
  MaxHistory = 1
  Webinars = {2}
  MaxSess = 2
  MaxEnters = 3
  MaxQueue = 1
SPECIFICATION EitherSpec
SYMMETRY Symmetry
CHECK_DEADLOCK FALSE
INVARIANTS  LeaversClosed OwnLog HistoryIsRecent
PROPERTY NothingForgotten
