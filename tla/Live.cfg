\* Three tasks, a whiteboard of two users, three messages of which
\* some fill the buffer, five units of time for a certificate of three, three
\* changes of a gauge.
CONSTANTS
  None = None
  MaxTask = 3
  MaxDelays = 1
  User = {u1, u2}
  Element = {e1}
  MaxVersion = 2
  MaxJoins = 2
  Header = 2
  Sizes = {0, 1, 3, 5}
  Pipe = 4
  ReadSize = 3
  MaxSize = 6
  MaxSends = 3
  Validity = 3
  MaxTime = 5
  MaxKeys = 4
  MaxOrders = 4
  MaxFailures = 3
  Level = {0, 1, 2}
  MaxSets = 3
  MaxRuns = 2
  MaxFaults = 1
  MaxCrashes = 1
SPECIFICATION LiveSpec
CHECK_DEADLOCK FALSE
INVARIANTS KeysFit ChallengeServed NoFalseLevel
PROPERTIES
  IsQueue RoomGoes IsChannel CertificateArrives
