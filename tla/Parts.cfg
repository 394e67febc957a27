\* One recording session of one producer; two descriptors for three connections;
\* three media of two users; two codecs of each side.
CONSTANTS
  None = None
  Producer = {p1}
  Export = {e1, e2}
  MaxSessions = 1
  MaxTroubles = 1
  MaxProcesses = 1
  Backlog = 1
  Conn = {c1, c2, c3}
  Fd = {f1, f2}
  Ticket = {t1, t2}
  User = {u1, u2}
  Media = {m1, m2, m3}
  MaxTime = 3
  Format = {"pcma", "vp8", "h264", "odd"}
  Known = {"pcma", "vp8", "h264"}
  Video = {"vp8", "h264"}
  Rtx = "rtx"
  Fixed <- FixedPcma
  Pool <- PoolOfThree
  Types = {0, 50, 51, 100}
  MaxCodecs = 2
  Iop <- TriedIop
  Levels <- TriedLevels
  Odd = Odd
  Element = {x1}
  MaxVersion = 2
  MaxJoins = 3
  MaxFaults = 1
  MaxCrashes = 1
SPECIFICATION PartsSpec
SYMMETRY Symmetry
CHECK_DEADLOCK FALSE
INVARIANTS
  OpenIsLinked ProcessesOwned SessionsAgree StepsAreTheRecording EverybodySeen
  CanConsumeIsConsumed ConsumerPlaysProducer AnswerUnderstood RefsExact Informed
PROPERTY IsBoard
