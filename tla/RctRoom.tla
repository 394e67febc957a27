------------------------------- MODULE RctRoom -------------------------------
(***************************************************************************)
(* Rooms and their members (rct_room.c).  A session creates or joins a     *)
(* room by the room's uuid; a member leaves with its session, when its     *)
(* user joins again, or when the room closes.  A room that loses its last  *)
(* member arms an idle timer, whose task closes the room's router; the     *)
(* router closes the room from the event thread.                           *)
(*                                                                         *)
(* A step is one critical section of state.mtx.  room_create is several:   *)
(* it looks the uuid up, gives the mutex up, and then joins the room it    *)
(* found or creates a router and a room of its own.                        *)
(***************************************************************************)
EXTENDS Integers, FiniteSets

CONSTANTS
  Session,    \* websocket sessions, each served by one thread at a time
  User,       \* their users
  Uuid,       \* room uuids that sessions ask for
  Room,       \* addresses (ids) of rooms; a room and its router share one here
  Member,     \* addresses (ids) of members
  None,       \* the null pointer
  MaxTimers   \* bound: an address with so many timers is not allocated again

ASSUME NoneAssumption == None \notin Room \union Member \union User \union Uuid
ASSUME MaxTimersAssumption == MaxTimers \in Nat \ {0}
ASSUME FiniteAssumption == IsFiniteSet(Member) /\ IsFiniteSet(Room)

VARIABLES
  session,    \* user, member, and where its handler of room_create is
  room,       \* what is allocated at a room's address
  member,     \* what is allocated at a member's address
  byUuid,     \* state.map_uuid2ptr, for rooms
  timers,     \* idle tasks scheduled for a room id
  deciding,   \* rooms an idle task has found empty and is about to close
  asked       \* routers whose ROUTER_CLOSED event is on its way

vars == <<session, room, member, byUuid, timers, deciding, asked>>

Offline == [pc |-> "off", user |-> None, member |-> None, uuid |-> None,
            target |-> None, guard |-> None]
FreeRoom == [state |-> "free", uuid |-> None, members |-> {}, closed |-> FALSE,
             pending |-> FALSE, armed |-> FALSE, leaked |-> FALSE, waiting |-> FALSE]
FreeMember == [room |-> None, session |-> None, closed |-> FALSE, pinned |-> FALSE]

\* A room is opened on a router that is there already.
OpenRoom(u) == [FreeRoom EXCEPT !.state = "room", !.uuid = u]

Registered(m) == member[m].room # None
IsRoom(r) == room[r].state = "room"

Init ==
  /\ session = [s \in Session |-> Offline]
  /\ room = [r \in Room |-> FreeRoom]
  /\ member = [m \in Member |-> FreeMember]
  /\ byUuid = [u \in Uuid |-> None]
  /\ timers = [r \in Room |-> 0]
  /\ deciding = {}
  /\ asked = {}
-----------------------------------------------------------------------------
(* Closing members.  R, M, S and B stand for room, member, session and     *)
(* byUuid in the middle of a critical section.                             *)

\* The room loses its last member and has no idle task yet.
NeedsTimer(R, r, C) ==
  /\ R[r].members # {}
  /\ R[r].members \subseteq C
  /\ ~R[r].armed

\* Rooms once the members of C are closed.
WithoutMembers(R, C) ==
  [r \in Room |-> [R[r] EXCEPT
     !.members = @ \ C,
     !.armed = @ \/ NeedsTimer(R, r, C),
     !.waiting = @ \/ NeedsTimer(R, r, C)]]

TimersAfter(R, C) ==
  [r \in Room |-> timers[r] + IF NeedsTimer(R, r, C) THEN 1 ELSE 0]

ClosedMembers(M, C) == [m \in Member |-> [M[m] EXCEPT !.closed = @ \/ m \in C]]

\* Mutant: a session keeps the member that was closed.
UnboundNever(S, C) == S

\* A closed member's session forgets it.
Unbound(S, C) ==
  [s \in Session |-> [S[s] EXCEPT !.member = IF @ \in C THEN None ELSE @]]

\* Mutant: the uuid of a disposed room stays in the map.
CommitKeepsUuid(R, M, S, B) ==
  LET gone == {m \in Member : M[m].closed /\ ~M[m].pinned}
      dead == {r \in Room : /\ R[r].closed
                            /\ ~R[r].leaked
                            /\ \A m \in Member \ gone : M[m].room # r
                            /\ \A s \in Session : S[s].guard # r}
  IN /\ member' = [m \in Member |-> IF m \in gone THEN FreeMember ELSE M[m]]
     /\ room' = [r \in Room |-> IF r \in dead THEN FreeRoom ELSE R[r]]
     /\ byUuid' = B
     /\ session' = S

\* End of a critical section: what is closed and not referenced is disposed,
\* members first, as they reference their room.  A disposed room takes its
\* uuid out of the map, whichever room the map has there.
Commit(R, M, S, B) ==
  LET gone == {m \in Member : M[m].closed /\ ~M[m].pinned}
      dead == {r \in Room : /\ R[r].closed
                            /\ ~R[r].leaked
                            /\ \A m \in Member \ gone : M[m].room # r
                            /\ \A s \in Session : S[s].guard # r}
  IN /\ member' = [m \in Member |-> IF m \in gone THEN FreeMember ELSE M[m]]
     /\ room' = [r \in Room |-> IF r \in dead THEN FreeRoom ELSE R[r]]
     /\ byUuid' = [u \in Uuid |-> IF \E r \in dead : R[r].uuid = u THEN None ELSE B[u]]
     /\ session' = S

\* Close the members of C, and nothing else but what S already says.
CloseMembers(S, C) ==
  /\ Commit(WithoutMembers(room, C), ClosedMembers(member, C), Unbound(S, C), byUuid)
  /\ timers' = TimersAfter(room, C)

At(s, pc) == session[s].pc = pc
Goto(s, pc) == [session EXCEPT ![s].pc = pc]
-----------------------------------------------------------------------------
(* Sessions.                                                               *)

Connect(s, u) ==
  /\ At(s, "off")
  /\ session' = [session EXCEPT ![s].pc = "idle", ![s].user = u]
  /\ UNCHANGED <<room, member, byUuid, timers, deciding, asked>>

\* room_leave.
Leave(s) ==
  /\ At(s, "idle")
  /\ session[s].member # None
  /\ CloseMembers(session, {session[s].member})
  /\ UNCHANGED <<deciding, asked>>

\* The connection is closed; room_create has set the listener that leaves.
Disconnect(s) ==
  /\ At(s, "idle")
  /\ CloseMembers([session EXCEPT ![s] = [Offline EXCEPT !.member = session[s].member]],
                  {session[s].member} \ {None})
  /\ UNCHANGED <<deciding, asked>>

\* A request keeps a reference on a member while it waits for the worker.
Pin(m) ==
  /\ Registered(m)
  /\ ~member[m].pinned
  /\ member' = [member EXCEPT ![m].pinned = TRUE]
  /\ UNCHANGED <<session, room, byUuid, timers, deciding, asked>>

Unpin(m) ==
  /\ member[m].pinned
  /\ Commit(room, [member EXCEPT ![m].pinned = FALSE], session, byUuid)
  /\ UNCHANGED <<timers, deciding, asked>>
-----------------------------------------------------------------------------
(* room_create.                                                            *)

\* The uuid is looked up, and the reference that this takes guards the room.
Lookup(s, u) ==
  /\ At(s, "idle")
  /\ session' = [session EXCEPT ![s].pc = IF byUuid[u] = None THEN "creating" ELSE "found",
                                ![s].uuid = u,
                                ![s].guard = byUuid[u]]
  /\ UNCHANGED <<room, member, byUuid, timers, deciding, asked>>

\* Without the lock: a room that is not about to close will be joined.  The guard
\* on one that is about to close, or that a request without a member's name asks
\* for, is never given back.
Decide(s) ==
  /\ At(s, "found")
  /\ LET r == session[s].guard IN
     \/ /\ ~room[r].pending
        /\ session' = Goto(s, "joining")
        /\ UNCHANGED room
     \/ /\ ~room[r].pending
        /\ room' = [room EXCEPT ![r].leaked = TRUE]
        /\ session' = [session EXCEPT ![s].pc = "idle", ![s].uuid = None, ![s].guard = None]
     \/ /\ room[r].pending
        /\ room' = [room EXCEPT ![r].leaked = TRUE]
        /\ session' = [session EXCEPT ![s].pc = "creating", ![s].guard = None]
  /\ UNCHANGED <<member, byUuid, timers, deciding, asked>>

\* Mutant: only the session's own member is closed.
OustedOwn(s, r, R) == {m \in Member : Registered(m) /\ session[s].member = m}

\* Members that a join closes: the session's, and the user's in this room.
Ousted(s, r, R) ==
  {m \in Member :
     \/ session[s].member = m
     \/ m \in R[r].members /\ session[member[m].session].user = session[s].user}

\* With a member uuid from the database the user's member of another room of the
\* same uuid goes too.
Namesakes(s, r, R) ==
  IF session[s].member # None THEN {}
  ELSE {m \in Member : /\ Registered(m)
                       /\ ~member[m].closed
                       /\ session[member[m].session].user = session[s].user
                       /\ R[member[m].room].uuid = R[r].uuid}

\* _rct_room_join_lk in the middle of a critical section: m becomes the member
\* of s in r.
Join(s, r, m, R, S, B) ==
  /\ ~Registered(m)
  /\ \E N \in {{}} \union {{n} : n \in Namesakes(s, r, R)} :
       LET C == Ousted(s, r, R) \union N
           left == WithoutMembers(R, C)
           new == [room |-> r, session |-> s, closed |-> FALSE, pinned |-> FALSE]
       IN /\ Commit([left EXCEPT ![r].members = @ \union {m}, ![r].waiting = FALSE],
                    [ClosedMembers(member, C) EXCEPT ![m] = new],
                    [Unbound(S, C) EXCEPT ![s].member = m], B)
          /\ timers' = TimersAfter(R, C)

\* _room_join looks the uuid up once more, and joins what it finds.
JoinRoom(s) ==
  /\ At(s, "joining")
  /\ \/ /\ byUuid[session[s].uuid] = None
        /\ session' = Goto(s, "joined")
        /\ UNCHANGED <<room, member, byUuid, timers>>
     \/ /\ byUuid[session[s].uuid] # None
        /\ \E m \in Member : Join(s, byUuid[session[s].uuid], m, room, Goto(s, "joined"), byUuid)
  /\ UNCHANGED <<deciding, asked>>

DropGuard(s) ==
  /\ At(s, "joined")
  /\ Commit(room, member, [session EXCEPT ![s].pc = "idle", ![s].uuid = None,
                                          ![s].guard = None], byUuid)
  /\ UNCHANGED <<timers, deciding, asked>>

Back(s) == [session EXCEPT ![s].pc = "idle", ![s].uuid = None, ![s].target = None]

\* Bad input, no license or no router.
CreateFails(s) ==
  /\ At(s, "creating")
  /\ session' = Back(s)
  /\ UNCHANGED <<room, member, byUuid, timers, deciding, asked>>

MakeRouter(s, r) ==
  /\ At(s, "creating")
  /\ room[r].state = "free"
  /\ timers[r] < MaxTimers
  /\ \A t \in Session : session[t].target # r
  /\ room' = [room EXCEPT ![r].state = "router"]
  /\ session' = [session EXCEPT ![s].pc = "opening", ![s].target = r]
  /\ UNCHANGED <<member, byUuid, timers, deciding, asked>>

\* _rct_room_create: the room is registered and its first member joins.
CreateRoom(s) ==
  /\ At(s, "opening")
  /\ LET r == session[s].target
         u == session[s].uuid
     IN \/ /\ room[r].state = "free"
           /\ session' = Back(s)
           /\ UNCHANGED <<room, member, byUuid, timers>>
        \/ /\ room[r].state = "router"
           /\ \E m \in Member :
                Join(s, r, m, [room EXCEPT ![r] = OpenRoom(u)], Goto(s, "observing"),
                     [byUuid EXCEPT ![u] = r])
  /\ UNCHANGED <<deciding, asked>>

\* rct_router_close up to the command to the worker: a room that is there will
\* be closed.  The event is posted whatever comes of the command.
AskClose(r) ==
  /\ room' = [room EXCEPT ![r].pending = @ \/ IsRoom(r)]
  /\ asked' = IF room[r].state = "free" THEN asked ELSE asked \union {r}

\* The observers are attached and room_create ends; when one of them fails, or
\* the router is gone, the router is closed.
EndCreate(s) ==
  /\ At(s, "observing")
  /\ session' = Back(s)
  /\ \/ IsRoom(session[s].target) /\ UNCHANGED <<room, asked>>
     \/ AskClose(session[s].target)
  /\ UNCHANGED <<member, byUuid, timers, deciding>>
-----------------------------------------------------------------------------
(* Closing rooms.                                                          *)

\* Mutant: the task of a room that is not empty leaves close_pending_task set.
IdleTaskOnce(r) ==
  /\ timers[r] > 0
  /\ timers' = [timers EXCEPT ![r] = @ - 1]
  /\ deciding' = IF IsRoom(r) /\ room[r].members = {} THEN deciding \union {r} ELSE deciding
  /\ UNCHANGED <<session, room, member, byUuid, asked>>

\* _room_close_if_no_members_task, up to the unlock.  The timer names the room by
\* its id, and may find a later room there.
IdleTask(r) ==
  /\ timers[r] > 0
  /\ timers' = [timers EXCEPT ![r] = @ - 1]
  /\ \/ ~IsRoom(r) /\ UNCHANGED <<room, deciding>>
     \/ /\ IsRoom(r) /\ room[r].members = {}
        /\ deciding' = deciding \union {r}
        /\ UNCHANGED room
     \/ /\ IsRoom(r) /\ room[r].members # {}
        /\ room' = [room EXCEPT ![r].armed = FALSE]
        /\ UNCHANGED deciding
  /\ UNCHANGED <<session, member, byUuid, asked>>

\* The rest of the task, without the lock it decided under.
IdleClose(r) ==
  /\ r \in deciding
  /\ deciding' = deciding \ {r}
  /\ AskClose(r)
  /\ UNCHANGED <<session, member, byUuid, timers>>

\* Mutant: a room closes without its members.
RouterClosedAlone(r) ==
  /\ r \in asked
  /\ asked' = asked \ {r}
  /\ \/ /\ room[r].state = "router"
        /\ room' = [room EXCEPT ![r] = FreeRoom]
        /\ UNCHANGED <<session, member, byUuid, timers>>
     \/ /\ IsRoom(r) /\ ~room[r].closed
        /\ Commit([room EXCEPT ![r].closed = TRUE, ![r].pending = TRUE], member, session, byUuid)
        /\ UNCHANGED timers
     \/ /\ room[r].state = "free" \/ room[r].closed
        /\ UNCHANGED <<session, room, member, byUuid, timers>>
  /\ UNCHANGED deciding

\* The event thread closes a router: its room closes with all members.
RouterClosed(r) ==
  /\ r \in asked
  /\ asked' = asked \ {r}
  /\ \/ /\ room[r].state = "router"
        /\ room' = [room EXCEPT ![r] = FreeRoom]
        /\ UNCHANGED <<session, member, byUuid, timers>>
     \/ /\ IsRoom(r) /\ ~room[r].closed
        /\ LET C == room[r].members
               R == [room EXCEPT ![r].closed = TRUE, ![r].pending = TRUE]
           IN /\ Commit(WithoutMembers(R, C), ClosedMembers(member, C),
                        Unbound(session, C), byUuid)
              /\ timers' = TimersAfter(R, C)
     \/ /\ room[r].state = "free" \/ room[r].closed
        /\ UNCHANGED <<session, room, member, byUuid, timers>>
  /\ UNCHANGED deciding

\* A worker exits: _rct_on_worker_shutdown queues a close for its routers.
WorkerExit ==
  /\ asked' = asked \union {r \in Room : room[r].state # "free"}
  /\ asked' # asked
  /\ UNCHANGED <<session, room, member, byUuid, timers, deciding>>
-----------------------------------------------------------------------------
Next ==
  \/ \E s \in Session, u \in User : Connect(s, u)
  \/ \E s \in Session : Leave(s)
  \/ \E s \in Session : Disconnect(s)
  \/ \E m \in Member : Pin(m)
  \/ \E m \in Member : Unpin(m)
  \/ \E s \in Session, u \in Uuid : Lookup(s, u)
  \/ \E s \in Session : Decide(s)
  \/ \E s \in Session : JoinRoom(s)
  \/ \E s \in Session : DropGuard(s)
  \/ \E s \in Session : CreateFails(s)
  \/ \E s \in Session, r \in Room : MakeRouter(s, r)
  \/ \E s \in Session : CreateRoom(s)
  \/ \E s \in Session : EndCreate(s)
  \/ \E r \in Room : IdleTask(r)
  \/ \E r \in Room : IdleClose(r)
  \/ \E r \in Room : RouterClosed(r)
  \/ WorkerExit

Spec == Init /\ [][Next]_vars

\* Timers run out, their tasks go on, and the event thread works its queue off.
FairSpec ==
  /\ Spec
  /\ \A r \in Room : WF_vars(IdleTask(r)) /\ WF_vars(IdleClose(r)) /\ WF_vars(RouterClosed(r))
-----------------------------------------------------------------------------
(* Properties.                                                             *)

Open(r) == IsRoom(r) /\ ~room[r].closed

TypeOK ==
  /\ session \in [Session ->
       [pc : {"off", "idle", "found", "joining", "joined", "creating", "opening", "observing"},
        user : User \union {None}, member : Member \union {None},
        uuid : Uuid \union {None}, target : Room \union {None},
        guard : Room \union {None}]]
  /\ room \in [Room ->
       [state : {"free", "router", "room"}, uuid : Uuid \union {None},
        members : SUBSET Member, closed : BOOLEAN, pending : BOOLEAN,
        armed : BOOLEAN, leaked : BOOLEAN, waiting : BOOLEAN]]
  /\ member \in [Member ->
       [room : Room \union {None}, session : Session \union {None},
        closed : BOOLEAN, pinned : BOOLEAN]]
  /\ byUuid \in [Uuid -> Room \union {None}]
  /\ timers \in [Room -> 0..MaxTimers]
  /\ deciding \subseteq Room
  /\ asked \subseteq Room

\* The views of who is where agree through joins, replacements and closings: a
\* room lists the open members that were joined to it, an open member's session
\* knows it, and a session knows no other (_rct_room_join_lk, _member_close_lk).
MembersAgree ==
  /\ \A m \in Member :
       Registered(m) /\ ~member[m].closed =>
         /\ m \in room[member[m].room].members
         /\ session[member[m].session].member = m
  /\ \A r \in Room : \A m \in room[r].members : ~member[m].closed /\ member[m].room = r
  /\ \A s \in Session :
       session[s].member # None =>
         /\ member[session[s].member].session = s
         /\ ~member[session[s].member].closed

\* Memory in use is not freed: the room of a registered member and the room
\* a thread guards are registered, and the map names registered rooms only.
NoDangling ==
  /\ \A m \in Member : Registered(m) => IsRoom(member[m].room)
  /\ \A s \in Session : session[s].guard # None => IsRoom(session[s].guard)
  /\ \A u \in Uuid : byUuid[u] # None => IsRoom(byUuid[u]) /\ room[byUuid[u]].uuid = u

\* A user is in a room once, whatever number of sessions they join it from.
OncePerUser ==
  \A r \in Room : \A m, n \in room[r].members :
    session[member[m].session].user = session[member[n].session].user => m = n

\* An open room without members is watched: a timer is running, its task is
\* about to close the room, or the router's close event is on its way.  It is the
\* safety behind AbandonedCloses, and proved in RctRoom_proof.
EmptyWatched ==
  \A r \in Room : Open(r) /\ room[r].members = {} =>
    timers[r] > 0 \/ r \in deciding \/ r \in asked

\* Closing a room ends the membership of all who are in it at that moment.
ClosingEmpties ==
  [][\A r \in Room : Open(r) /\ ~Open(r)' =>
       \A m \in room[r].members : member'[m] = FreeMember \/ member'[m].closed]_vars

\* An abandoned room does not stay: it is closed or joined again.
AbandonedCloses ==
  \A r \in Room : Open(r) /\ room[r].members = {} ~> ~(Open(r) /\ room[r].members = {})

\* What one may expect, and does not hold.

\* An active room is the one its uuid leads to ("Existing room uuid",
\* _room_create): nobody who knows the uuid opens another beside it.  Two that create
\* it at a time do.
RoomFoundByUuid ==
  \A r \in Room : Open(r) /\ ~room[r].pending => byUuid[room[r].uuid] = r

\* Who joins a room by uuid is a member of a room that is active ("An active
\* room was found, try to join it").  The room may close before the join.
JoinedActive ==
  \A m \in Member : Registered(m) /\ ~member[m].closed => Open(member[m].room)

\* An idle task closes a room only when the room has been empty since the task
\* was scheduled ("Number of seconds an empty room will wait members").  Nothing
\* cancels a task when its room is joined.
IdleWaitsInFull ==
  [][\A r \in Room : r \in deciding' \ deciding => room[r].waiting /\ timers[r] = 1]_vars

\* An idle task closes a room that is empty.  It may be joined after the task has
\* released the lock.
IdleClosesEmpty ==
  [][\A r \in Room : r \in deciding \ deciding' /\ Open(r) => room[r].members = {}]_vars
=============================================================================
