\* One recording session of one producer, exported twice at most.
CONSTANTS
  Producer = {p1}
  Export = {e1, e2}
  None = None
  MaxSessions = 1
  MaxTroubles = 0
  MaxProcesses = 1
  Backlog = 1
SPECIFICATION FairSpecAll
CHECK_DEADLOCK FALSE
PROPERTIES ClosedRoomQuiet RecordedIsProcessed
