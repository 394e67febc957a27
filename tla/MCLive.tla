------------------------------- MODULE MCLive -------------------------------
(***************************************************************************)
(* Progress, refinement and history of five components that do not meet,   *)
(* in one run: part says which of them moves: the task worker, a           *)
(* whiteboard, the channel to a worker process, the synchronisation of the *)
(* certificate, or a gauge.  The others stay where they start.             *)
(***************************************************************************)
EXTENDS Acme, Sequences

CONSTANTS
  MaxTask, MaxDelays,                                                      \* TaskWorker
  User, Element, MaxVersion, MaxJoins,                                     \* Whiteboard
  Header, Sizes, Pipe, ReadSize, MaxSize, MaxSends,                        \* WorkerChannel
  Level, MaxSets, MaxRuns,                                                 \* Gauges
  MaxFaults, MaxCrashes                          \* TaskWorker, Whiteboard and Gauges

VARIABLES
  part,
  status, saved, queued, worker, shutdown, faults, crashes, delays, skipped,
  board, elements, doc, task, user, inbox, shows, told, counts,
  sent, writeBuf, armed, writing, pipe, readBuf, readLen, received, closed,
  rows, queue, setting, round, notes, ids, runs, falls, counted, origin, stray

worked == <<status, saved, queued, worker, shutdown, faults, crashes, delays, skipped>>
boards == <<board, elements, doc, task, user, inbox, shows, told, counts>>
channel == <<sent, writeBuf, armed, writing, pipe, readBuf, readLen, received, closed>>
gauges == <<rows, queue, setting, round, notes, ids, runs, falls, counted, origin, stray>>
all == <<part, worked, boards, channel, vars, gauges>>

T == INSTANCE TaskWorker
W == INSTANCE Whiteboard WITH room <- board
C == INSTANCE WorkerChannel
G == INSTANCE Gauges WITH told <- notes

ASSUME LiveAssumption ==
  /\ T!TaskBounds /\ W!BoardBounds
  /\ C!ChannelSizes /\ AcmeAssumption /\ G!GaugeBounds
-----------------------------------------------------------------------------
LiveInit ==
  /\ part \in {"tasks", "board", "channel", "certificates", "gauge"}
  /\ T!Init /\ W!Init /\ C!Init /\ Init /\ G!Init

LiveNext ==
  \/ /\ part = "tasks" /\ T!Next
     /\ UNCHANGED <<part, boards, channel, vars, gauges>>
  \/ /\ part = "board" /\ W!Next
     /\ UNCHANGED <<part, worked, channel, vars, gauges>>
  \/ /\ part = "channel" /\ C!Next
     /\ UNCHANGED <<part, worked, boards, vars, gauges>>
  \/ /\ part = "certificates" /\ Next
     /\ UNCHANGED <<part, worked, boards, channel, gauges>>
  \/ /\ part = "gauge" /\ G!Next
     /\ UNCHANGED <<part, worked, boards, channel, vars>>

\* The fairness of each component, while it is the one that moves.
LiveFairness ==
  /\ WF_worked(part = "tasks" /\ T!Work) /\ WF_worked(part = "tasks" /\ T!Timer)
  /\ WF_worked(part = "tasks" /\ T!Exit) /\ WF_worked(part = "tasks" /\ T!Restart)
  /\ WF_boards(part = "board" /\ W!Task)
  /\ \A u \in User : WF_boards(part = "board" /\ W!Session(u))
  /\ WF_channel(part = "channel" /\ C!StartWrite) /\ WF_channel(part = "channel" /\ C!Write)
  /\ WF_channel(part = "channel" /\ C!Read)
  /\ WF_vars(part = "certificates" /\ Steps)
  /\ WF_vars(part = "certificates" /\ Sync)
  /\ WF_vars(part = "certificates" /\ Restart)
  /\ WF_vars(part = "certificates" /\ Validate)

LiveSpec == LiveInit /\ [][LiveNext]_all /\ LiveFairness
-----------------------------------------------------------------------------
\* Of TaskWorker: it is the queue of TaskQueue.
IsQueue == T!IsQueue

\* Of Whiteboard: a room that everybody has left goes.
RoomGoes == W!RoomGoes

\* Of WorkerChannel: it is the channel of Channel.
IsChannel == C!IsChannel

\* Of Gauges: the rows tell of levels that were counted, in their order.
NoFalseLevel == G!NoFalseLevel

\* Of Acme, whose KeysFit and ChallengeServed are checked as they are: a server that
\* needs a certificate gets one.
CertificateArrives == (part = "certificates" /\ Needs) ~> (~Needs \/ ~Room)
=============================================================================
