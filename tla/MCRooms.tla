------------------------------ MODULE MCRooms ------------------------------
(***************************************************************************)
(* Two sides of rooms that do not meet, in one run: the media of a room's  *)
(* members (RoomStreams), or what the database keeps of rooms              *)
(* (RoomHistory), as part says from the start on.  The variables of the    *)
(* other side stay where they start, those of RoomHistory at None.         *)
(***************************************************************************)
EXTENDS RoomStreams

CONSTANTS User, Uuid, MaxHistory, Webinars, MaxSess, MaxEnters, MaxQueue

\* Who may send does; everybody else receives.
OneWay == [m \in Member |-> IF m \in Sender THEN {{"send"}} ELSE {{"recv"}}]

Symmetry == Permutations(Uuid)

VARIABLES
  part,
  sess, found, queue, event, doc, archive, rooms, asked, enters, troubles, entered,
  touched, beside

history == <<sess, found, queue, event, doc, archive, rooms, asked, enters, troubles, entered,
             touched, beside>>

H == INSTANCE RoomHistory WITH hand <- event, request <- asked

ASSUME RoomsAssumption == H!HistoryAssumption
-----------------------------------------------------------------------------
NoHistory ==
  /\ sess = None /\ found = None /\ queue = None /\ event = None /\ doc = None
  /\ archive = None /\ rooms = None /\ asked = None /\ enters = None /\ troubles = None
  /\ entered = None /\ touched = None /\ beside = None

EitherInit ==
  /\ Init
  /\ \/ part = "media" /\ NoHistory
     \/ part = "history" /\ H!Init

EitherNext ==
  \/ part = "media" /\ Next /\ UNCHANGED <<part, history>>
  \/ part = "history" /\ H!Next /\ UNCHANGED <<part, vars>>

EitherSpec == EitherInit /\ [][EitherNext]_<<part, vars, history>>
-----------------------------------------------------------------------------
\* Of RoomHistory: what is logged stays, in the log of its own session, and users
\* see the rooms they were last in.
NothingForgotten == [][part = "history" => H!NothingLost]_<<part, history>>
OwnLog == part = "history" => H!OwnLog
HistoryIsRecent == part = "history" => H!HistoryIsRecent
=============================================================================
