------------------------------ MODULE MCParts ------------------------------
(***************************************************************************)
(* The safety of six components that do not meet, in one run: a behaviour  *)
(* is one of the recorder of a room, of the websocket sessions, of a       *)
(* whiteboard, of post-processing, of codec negotiation or of the H.264    *)
(* profiles, as part says from its start on.  The variables of the other   *)
(* components are None; those of the whiteboard, whose properties are      *)
(* checked as they are, and of the sessions stay where they start.         *)
(***************************************************************************)
EXTENDS Whiteboard, TLC

CONSTANTS
  None,
  Producer, Export, MaxSessions, MaxTroubles, MaxProcesses, Backlog,   \* RoomRecording
  Media, MaxTime,                                                      \* Postproc
  Format, Known, Video, Rtx, Fixed, Pool, Types, MaxCodecs,            \* Negotiation
  Iop, Levels, Odd,                                                    \* H264
  Conn, Fd, Ticket                                                     \* WsSessions

\* Values of Fixed and Pool.
FixedPcma == [f \in Known |-> IF f = "pcma" THEN 8 ELSE 0]
PoolOfThree == <<100, 101, 102>>

\* Values of Iop and Levels: those that the patterns tell apart.
TriedIop == {{}, {4}, {3, 2}, {6}, {7}, {7, 6}, {7, 6, 5}, {7, 6, 5, 4}}
TriedLevels == {10, 11, 12, 14, 31}

Symmetry == Permutations(Export)

VARIABLES
  part,
  studio, producer, export, slots, process, thread, stopping, closing, events, tasks, crashed,
  troubles,
  file, media, flawed, hopeless, points, mlist, ptime, steps, pc,
  config, caps, params, mapping, consumable, device, got, at,
  local, remote, asymmetry, equal, answer,
  ticket, issued, conn, byWsid, byUuid, sender, misled

recorder == <<studio, producer, export, slots, process, thread, stopping, closing, events,
              tasks, crashed, troubles>>
postproc == <<file, media, flawed, hopeless, points, mlist, ptime, steps, pc>>
codecs == <<config, caps, params, mapping, consumable, device, got, at>>
profiles == <<local, remote, asymmetry, equal, answer>>
sessions == <<ticket, issued, conn, byWsid, byUuid, sender, misled>>
all == <<part, recorder, vars, postproc, codecs, profiles, sessions>>

R == INSTANCE RoomRecording WITH room <- studio
P == INSTANCE Postproc
N == INSTANCE Negotiation WITH pc <- at
H == INSTANCE H264
S == INSTANCE WsSessions

ASSUME PartsAssumption ==
  R!RecordingAssumption /\ P!PostprocBounds /\ N!NegotiationAssumption /\ H!H264Assumption
  /\ S!SessionsAssumption /\ BoardBounds

-----------------------------------------------------------------------------
NoRecorder ==
  /\ studio = None /\ producer = None /\ export = None /\ slots = None /\ process = None
  /\ thread = None /\ stopping = None /\ closing = None /\ events = None /\ tasks = None
  /\ crashed = None /\ troubles = None
NoPostproc ==
  /\ file = None /\ media = None /\ flawed = None /\ hopeless = None /\ points = None
  /\ mlist = None /\ ptime = None /\ steps = None /\ pc = None
NoCodecs ==
  /\ config = None /\ caps = None /\ params = None /\ mapping = None /\ consumable = None
  /\ device = None /\ got = None /\ at = None
NoProfiles ==
  local = None /\ remote = None /\ asymmetry = None /\ equal = None /\ answer = None

NoSessions == S!Init   \* no connections
NoBoard == Init        \* a board where nothing happens

PartsInit ==
  \/ /\ part = "recorder" /\ R!Init
     /\ NoSessions /\ NoPostproc /\ NoCodecs /\ NoProfiles /\ NoBoard
  \/ /\ part = "sessions" /\ S!Init
     /\ NoRecorder /\ NoPostproc /\ NoCodecs /\ NoProfiles /\ NoBoard
  \/ /\ part = "postproc" /\ P!Init
     /\ NoRecorder /\ NoSessions /\ NoCodecs /\ NoProfiles /\ NoBoard
  \/ /\ part = "codecs" /\ N!Init
     /\ NoRecorder /\ NoSessions /\ NoPostproc /\ NoProfiles /\ NoBoard
  \/ /\ part = "profiles" /\ H!Init
     /\ NoRecorder /\ NoSessions /\ NoPostproc /\ NoCodecs /\ NoBoard
  \/ /\ part = "board" /\ Init
     /\ NoRecorder /\ NoSessions /\ NoPostproc /\ NoCodecs /\ NoProfiles

PartsNext ==
  \/ /\ part = "recorder" /\ R!Next
     /\ UNCHANGED <<part, vars, postproc, codecs, profiles, sessions>>
  \/ /\ part = "sessions" /\ S!Next
     /\ UNCHANGED <<part, vars, recorder, postproc, codecs, profiles>>
  \/ /\ part = "postproc" /\ P!Next
     /\ UNCHANGED <<part, recorder, vars, codecs, profiles, sessions>>
  \/ /\ part = "codecs" /\ N!Next
     /\ UNCHANGED <<part, recorder, vars, postproc, profiles, sessions>>
  \/ /\ part = "profiles" /\ H!Next
     /\ UNCHANGED <<part, recorder, vars, postproc, codecs, sessions>>
  \/ /\ part = "board" /\ Next
     /\ UNCHANGED <<part, recorder, sessions, postproc, codecs, profiles>>

PartsSpec == PartsInit /\ [][PartsNext]_all
-----------------------------------------------------------------------------
\* Of RoomRecording: an open export is the one its producer knows of; slots and
\* processes belong to exports that are there, and a room has one task at most.
OpenIsLinked == part = "recorder" => R!OpenIsLinked
ProcessesOwned == part = "recorder" => R!SlotsBelong /\ R!ProcessesOwned /\ R!OneTask

\* Of Postproc: the steps show what was recorded, with everybody in them.
StepsAreTheRecording == part = "postproc" => P!StepsAreTheRecording
EverybodySeen == part = "postproc" => P!EverybodySeen

\* Of Negotiation: types are apart, who can consume does, and plays what is sent.
CanConsumeIsConsumed == part = "codecs" => N!TypesApart /\ N!CanConsumeIsConsumed
ConsumerPlaysProducer == part = "codecs" => N!ConsumerPlaysProducer

\* Of WsSessions: the maps agree with the connections, a ticket opens one session.
SessionsAgree == S!SessionsAgree

\* Of H264: the answer says what was agreed.
AnswerUnderstood == part = "profiles" => H!AnswerUnderstood
=============================================================================
