---------------------------- MODULE RoomHistory ----------------------------
(***************************************************************************)
(* What the database remembers of rooms (rct_room.c, grh_ws_user.c): the   *)
(* document of a room's uuid, with the log of its last session; a copy of  *)
(* it for each earlier session; and the list of rooms each user has been   *)
(* in.  The event thread writes the logs and the lists, one event at a     *)
(* time in the order they were posted; requests write to them meanwhile.   *)
(*                                                                         *)
(* A session is what one rct_room_t lives through, numbered in the order   *)
(* of creation: its number stands for its cid.  A database call is a step. *)
(***************************************************************************)
EXTENDS Integers, Sequences, SequencesExt, FiniteSets

CONSTANTS
  User, Uuid,
  MaxHistory,    \* g_env.room.max_history_rooms
  Webinars,      \* the sessions, by number, of rooms created as webinars
  MaxSess, MaxEnters, MaxTroubles,   \* bounds; requests and restarts are the troubles
  MaxQueue       \* bound: rooms and members move only while so few events wait

HistoryAssumption ==
  /\ MaxHistory \in Nat \ {0}
  /\ MaxSess \in Nat \ {0} /\ {MaxEnters, MaxTroubles, MaxQueue} \subseteq Nat

VARIABLES
  sess,       \* the sessions so far: uuid, owner, members, and what became of them
  found,      \* the session that the registry has for a uuid, or 0
  queue,      \* events posted to the event thread
  hand,       \* the event it is at, and the list of rooms it has read for it
  doc,        \* documents of "rooms" by uuid: whose log they hold, 0 for no document
  archive,    \* logs of the documents of "rooms" by cid, empty for no document
  rooms,      \* users.rooms: sessions, the latest first
  request,    \* a user's request under way
  enters, troubles,
  entered,    \* history: sessions whose joining was recorded for a user, latest first
  touched,    \* history: users whose list was written by a request
  beside      \* history: pairs of sessions of one uuid, the later created beside the earlier

vars == <<sess, found, queue, hand, doc, archive, rooms, request, enters, troubles,
          entered, touched, beside>>

Sess == 1..Len(sess)
Registered(s) == sess[s].state # "gone"
Idle == [k |-> "none"]
NoDoc == [of |-> 0, log |-> {}]

Entry(k, s, u) == [k |-> k, s |-> s, user |-> u]

\* Nothing has been stored, or an earlier run of the server left the document of a
\* session of u, and a copy of it when it stopped between the copy and the document
\* that was to follow.
Init ==
  /\ \/ sess = <<>>
     \/ \E r \in Uuid, u \in User :
          sess = <<[uuid |-> r, owner |-> u, webinar |-> FALSE, members |-> {},
                    state |-> "gone"]>>
  /\ LET log == {Entry("created", 1, 0), Entry("closed", 1, 0)}
     IN /\ doc = [r \in Uuid |-> IF \E s \in Sess : sess[s].uuid = r
                                 THEN [of |-> 1, log |-> log] ELSE NoDoc]
        /\ \E copied \in SUBSET Sess :
             archive = [s \in 1..MaxSess |-> IF s \in copied THEN log ELSE {}]
        /\ rooms = [u \in User |-> IF \E s \in Sess : sess[s].owner = u THEN <<1>> ELSE <<>>]
  /\ queue = <<>> /\ hand = Idle
  /\ found = [r \in Uuid |-> 0]
  /\ request = [u \in User |-> Idle]
  /\ enters = 0 /\ troubles = 0
  /\ entered = rooms
  /\ touched = {} /\ beside = {}
-----------------------------------------------------------------------------
(* Rooms and members: what they post.                                      *)

Joiner(u) == [id |-> enters + 1, user |-> u]
Created(s) == [k |-> "created", s |-> s]
Joined(s, m) == [k |-> "joined", s |-> s, m |-> m]
Left(s, m) == [k |-> "left", s |-> s, m |-> m]
Closed(s) == [k |-> "closed", s |-> s]
RouterClosed(s) == [k |-> "router", s |-> s]

Room == Len(queue) < MaxQueue

UnchangedStored == UNCHANGED <<hand, doc, archive, rooms, request, troubles,
                               entered, touched>>

\* A room is created, beside one that was not there, or was about to close, when its
\* uuid was looked up.
Open(u, r) ==
  LET s == Len(sess) + 1 IN
  /\ Room /\ s <= MaxSess /\ enters < MaxEnters
  /\ sess' = Append(sess, [uuid |-> r, owner |-> u, webinar |-> s \in Webinars,
                           members |-> {Joiner(u)}, state |-> "open"])
  /\ found' = [found EXCEPT ![r] = s]
  /\ queue' = queue \o <<Created(s), Joined(s, Joiner(u))>>
  /\ enters' = enters + 1
  /\ beside' = beside \union {<<t, s>> : t \in {t \in Sess : sess[t].uuid = r /\ Registered(t)}}
  /\ UnchangedStored

\* A user joins the room found, and leaves it first where it is in it already.
Enter(u, r) ==
  /\ Room /\ found[r] # 0 /\ enters < MaxEnters
  /\ LET s == found[r]
         old == {m \in sess[s].members : m.user = u}
     IN /\ sess' = [sess EXCEPT ![s].members = (@ \ old) \union {Joiner(u)}]
        /\ queue' = queue \o [i \in 1..Cardinality(old) |-> Left(s, CHOOSE m \in old : TRUE)]
                          \o <<Joined(s, Joiner(u))>>
  /\ enters' = enters + 1
  /\ UNCHANGED <<found, beside>> /\ UnchangedStored

Leave(s, m) ==
  /\ Room /\ m \in sess[s].members
  /\ sess' = [sess EXCEPT ![s].members = @ \ {m}]
  /\ queue' = Append(queue, Left(s, m))
  /\ UNCHANGED <<found, enters, beside>> /\ UnchangedStored

AskClose(s) ==
  /\ Room /\ sess[s].state = "open"
  /\ sess' = [sess EXCEPT ![s].state = "pending"]
  /\ queue' = Append(queue, RouterClosed(s))
  /\ UNCHANGED <<found, enters, beside>> /\ UnchangedStored

\* The last reference to a closed room goes: its uuid leads nowhere, whichever room
\* the registry had there.
Dispose(s) ==
  /\ sess[s].state = "closed" /\ sess[s].members = {}
  /\ sess' = [sess EXCEPT ![s].state = "gone"]
  /\ found' = [found EXCEPT ![sess[s].uuid] = 0]
  /\ UNCHANGED <<queue, enters, beside>> /\ UnchangedStored

\* Only the database outlives the server.
Restart ==
  /\ troubles < MaxTroubles
  /\ troubles' = troubles + 1
  /\ sess' = [s \in Sess |-> [sess[s] EXCEPT !.state = "gone", !.members = {}]]
  /\ found' = [r \in Uuid |-> 0]
  /\ queue' = <<>> /\ hand' = Idle
  /\ request' = [u \in User |-> Idle]
  /\ UNCHANGED <<doc, archive, rooms, enters, entered, touched, beside>>
-----------------------------------------------------------------------------
(* The event thread.                                                       *)

UnchangedRooms == UNCHANGED <<sess, found, request, enters, troubles, touched, beside>>
Next1(k) == hand = Idle /\ queue # <<>> /\ Head(queue).k = k
Done == queue' = Tail(queue) /\ hand' = Idle

\* The entry goes to the document of the session's uuid, if there is one.
Logged(e) ==
  LET r == sess[e.s].uuid IN
  IF doc[r].of = 0 THEN doc ELSE [doc EXCEPT ![r].log = @ \union {e}]


\* Mutant: every document passes for legacy data, of which no copy is made.
BackupLegacy(s) == hand' = Created(s) /\ UNCHANGED <<queue, archive>>


Copied(d) == d.of \in {s \in DOMAIN archive : archive[s] # {}}

\* _room_backup_previous: a copy under the cid of the session it is of.  The index
\* refuses a second one, and then the event is given up.
Backup(s) ==
  LET d == doc[sess[s].uuid] IN
  \/ /\ Copied(d)
     /\ Done
     /\ UNCHANGED archive
  \/ /\ ~Copied(d)
     /\ archive' = IF d.of = 0 THEN archive ELSE [archive EXCEPT ![d.of] = d.log]
     /\ hand' = Created(s)
     /\ UNCHANGED queue

OnCreated ==
  /\ Next1("created")
  /\ LET s == Head(queue).s IN
     \/ ~Registered(s) /\ Done /\ UNCHANGED archive
     \/ Registered(s) /\ Backup(s)
  /\ UNCHANGED <<doc, rooms, entered>> /\ UnchangedRooms

\* Mutant: the log of the session before is kept.
NewLogMerged(s) == [of |-> s, log |-> doc[sess[s].uuid].log \union {Entry("created", s, 0)}]

NewLog(s) == [of |-> s, log |-> {Entry("created", s, 0)}]

\* The room is looked up again, and the document starts anew.
Upsert ==
  /\ hand.k = "created"
  /\ doc' = IF Registered(hand.s) THEN [doc EXCEPT ![sess[hand.s].uuid] = NewLog(hand.s)] ELSE doc
  /\ Done
  /\ UNCHANGED <<archive, rooms, entered>> /\ UnchangedRooms

\* The event that the router has been closed closes its room and what is in it.
OnRouterClosed ==
  /\ Next1("router")
  /\ LET s == Head(queue).s
         leavers == SetToSeq(sess[s].members)
     IN \/ /\ sess[s].state = "pending"
           /\ sess' = [sess EXCEPT ![s].state = "closed", ![s].members = {}]
           /\ queue' = Tail(queue) \o <<Closed(s)>>
                       \o [i \in DOMAIN leavers |-> Left(s, leavers[i])]
        \/ /\ sess[s].state # "pending"
           /\ queue' = Tail(queue)
           /\ UNCHANGED sess
  /\ UNCHANGED <<found, enters, beside>> /\ UnchangedStored

OnClosed ==
  /\ Next1("closed")
  /\ doc' = Logged(Entry("closed", Head(queue).s, 0))
  /\ Done
  /\ UNCHANGED <<archive, rooms, entered>> /\ UnchangedRooms

\* The flags and the owner are those of the room that the uuid leads to by now.
OnLeft ==
  /\ Next1("left")
  /\ LET s == Head(queue).s
         u == Head(queue).m.user
         t == found[sess[s].uuid]
     IN doc' = IF t # 0 /\ sess[t].webinar /\ sess[t].owner # u THEN doc
               ELSE Logged(Entry("left", s, u))
  /\ Done
  /\ UNCHANGED <<archive, rooms, entered>> /\ UnchangedRooms

\* The member is looked up: one that has left may be there still, while a request
\* refers to it.
MayBeThere(s, m) == Registered(s)
MustBeThere(s, m) == m \in sess[s].members

\* The listener of rct_room.c.
OnJoined ==
  /\ Next1("joined")
  /\ LET s == Head(queue).s
         m == Head(queue).m
     IN \/ /\ MayBeThere(s, m)
           /\ doc' = IF sess[s].webinar /\ sess[s].owner # m.user THEN doc
                     ELSE Logged(Entry("joined", s, m.user))
        \/ /\ ~MustBeThere(s, m)
           /\ UNCHANGED doc
     /\ hand' = [k |-> "joined", s |-> s, m |-> m]
  /\ UNCHANGED <<queue, archive, rooms, entered>> /\ UnchangedRooms

\* The listener of grh_ws_user.c: it looks the member up, and reads its list.
ReadRooms ==
  /\ hand.k = "joined"
  /\ \/ /\ MayBeThere(hand.s, hand.m)
        /\ hand' = [k |-> "rooms", s |-> hand.s, m |-> hand.m, list |-> rooms[hand.m.user]]
        /\ UNCHANGED queue
     \/ /\ ~MustBeThere(hand.s, hand.m)
        /\ Done
  /\ UNCHANGED <<doc, archive, rooms, entered>> /\ UnchangedRooms

OfRoom(s) == {t \in Sess : sess[t].uuid = sess[s].uuid}
NotOfRoom(list, s) == RemoveFirstMatch(list, LAMBDA t : t \in OfRoom(s))
Shortened(list) == SubSeq(list, 1, IF Len(list) < MaxHistory THEN Len(list) ELSE MaxHistory)

\* Mutant: the list is shortened before the room is looked for.
RecentShort(list, s) == <<s>> \o NotOfRoom(Shortened(list), s)

\* The room goes first, and leaves its place behind, or the list is cut.
Recent(list, s) ==
  IF ToSet(Shortened(list)) \cap OfRoom(s) # {} THEN <<s>> \o NotOfRoom(list, s)
  ELSE <<s>> \o Shortened(list)

WriteRooms ==
  /\ hand.k = "rooms"
  /\ rooms' = [rooms EXCEPT ![hand.m.user] = Recent(hand.list, hand.s)]
  /\ entered' = [entered EXCEPT ![hand.m.user] = <<hand.s>> \o @]
  /\ Done
  /\ UNCHANGED <<doc, archive>> /\ UnchangedRooms
-----------------------------------------------------------------------------
(* Requests.                                                               *)

UnchangedByRequest ==
  UNCHANGED <<sess, found, queue, hand, archive, enters, entered, beside>>

Begin(u, q) ==
  /\ request[u] = Idle /\ troubles < MaxTroubles
  /\ troubles' = troubles + 1
  /\ request' = [request EXCEPT ![u] = q]

UserIn(u, s) == \E m \in sess[s].members : m.user = u

\* room_message: a member tells the room.
Message(u, s) ==
  /\ UserIn(u, s) /\ request[u] = Idle /\ troubles < MaxTroubles
  /\ troubles' = troubles + 1
  /\ doc' = Logged(Entry("message", s, 0))
  /\ UNCHANGED <<rooms, request, touched>> /\ UnchangedByRequest

\* room_info_set: the owner renames the room, for the members it has now.
Rename(u, s) ==
  /\ UserIn(u, s) /\ sess[s].owner = u
  /\ Begin(u, [k |-> "rename", s |-> s, whom |-> sess[s].members])
  /\ UNCHANGED <<doc, rooms, touched>> /\ UnchangedByRequest

WriteRenamed(u) ==
  /\ request[u].k = "rename"
  /\ doc' = Logged(Entry("renamed", request[u].s, 0))
  /\ request' = [request EXCEPT ![u].k = "renaming"]
  /\ UNCHANGED <<rooms, troubles, touched>> /\ UnchangedByRequest

\* The list of the next member that is there is read; the request ends with the last.
NextRenamed(u) ==
  /\ request[u].k = "renaming"
  /\ UNCHANGED <<doc, rooms, troubles>> /\ UnchangedByRequest
  /\ LET q == request[u] IN
     \/ /\ q.whom = {}
        /\ request' = [request EXCEPT ![u] = Idle]
        /\ UNCHANGED touched
     \/ \E m \in q.whom :
          /\ ~MustBeThere(q.s, m)
          /\ request' = [request EXCEPT ![u].whom = @ \ {m}]
          /\ UNCHANGED touched
     \/ \E m \in q.whom :
          /\ MayBeThere(q.s, m)
          /\ request' = [request EXCEPT ![u] =
               [k |-> "named", s |-> q.s, whom |-> q.whom \ {m}, user |-> m.user,
                list |-> rooms[m.user]]]
          /\ touched' = touched \union {m.user}

\* The list goes back with the new name, if the session is in it.
WriteNamed(u) ==
  /\ request[u].k = "named"
  /\ LET q == request[u] IN
     /\ rooms' = IF q.s \in ToSet(q.list) THEN [rooms EXCEPT ![q.user] = q.list] ELSE rooms
     /\ request' = [request EXCEPT ![u] = [k |-> "renaming", s |-> q.s, whom |-> q.whom]]
  /\ UNCHANGED <<doc, troubles, touched>> /\ UnchangedByRequest

\* history_rooms_remove: the list is read, and goes back without the room, of which
\* it has one entry.
RemoveRoom(u, s) ==
  /\ s \in ToSet(rooms[u])
  /\ Begin(u, [k |-> "remove", list |-> NotOfRoom(rooms[u], s)])
  /\ touched' = touched \union {u}
  /\ UNCHANGED <<doc, rooms>> /\ UnchangedByRequest

WriteRemoved(u) ==
  /\ request[u].k = "remove"
  /\ rooms' = [rooms EXCEPT ![u] = request[u].list]
  /\ request' = [request EXCEPT ![u] = Idle]
  /\ UNCHANGED <<doc, troubles, touched>> /\ UnchangedByRequest
-----------------------------------------------------------------------------
Next ==
  \/ \E u \in User, r \in Uuid : Open(u, r)
  \/ \E u \in User, r \in Uuid : Enter(u, r)
  \/ \E s \in Sess : \E m \in sess[s].members : Leave(s, m)
  \/ \E s \in Sess : AskClose(s)
  \/ \E s \in Sess : Dispose(s)
  \/ Restart
  \/ OnCreated \/ Upsert \/ OnRouterClosed \/ OnClosed \/ OnLeft
  \/ OnJoined \/ ReadRooms \/ WriteRooms
  \/ \E u \in User, s \in Sess : Message(u, s) \/ Rename(u, s) \/ RemoveRoom(u, s)
  \/ \E u \in User : WriteRenamed(u) \/ NextRenamed(u) \/ WriteNamed(u)
  \/ \E u \in User : WriteRemoved(u)

Spec == Init /\ [][Next]_vars
-----------------------------------------------------------------------------
(* Properties.                                                             *)

OfEvents == {"created", "joined", "left", "closed"}
Events(log) == {e \in log : e.k \in OfEvents}

\* All that the event thread has logged, wherever it is.
Everything ==
  UNION ({Events(doc[r].log) : r \in Uuid} \union {Events(archive[s]) : s \in DOMAIN archive})

\* What the event thread has logged stays: a document is replaced only once its log
\* is kept under its cid, whatever became of earlier attempts to keep it
\* (_on_room_created).
NothingLost == Everything \subseteq Everything'
NothingForgotten == [][NothingLost]_vars

HasDocument(s) == archive[s] # {} \/ \E r \in Uuid : doc[r].of = s

Own(of, log) ==
  \A e \in Events(log) : e.s = of \/ <<e.s, of>> \in beside \/ ~HasDocument(e.s)

\* A session's log tells of that session: of another one only when that never got a
\* document, or was there still when this one was created (_room_create).
OwnLog ==
  /\ \A r \in Uuid : Own(doc[r].of, doc[r].log)
  /\ \A s \in DOMAIN archive : Own(s, archive[s])

\* Where a list, the latest first, has the last session of each room.
Latest(list) == {n \in DOMAIN list : \A j \in 1..n - 1 : list[j] \notin OfRoom(list[n])}

\* list shows the last sessions of the rooms that a user has entered, the latest
\* first, and leaves out none as long as there is place.
Shows(list, all) ==
  /\ \A i \in DOMAIN list : \E n \in Latest(all) : all[n] = list[i]
  /\ \A n \in Latest(all) : all[n] \in ToSet(list) \/ Len(list) = MaxHistory + 1
  /\ \A n, m \in Latest(all) : \A i \in DOMAIN list :
       n < m /\ all[m] = list[i] => \E j \in 1..i - 1 : list[j] = all[n]

\* No room is in a list twice.
RoomsOnce(list) == \A i, j \in DOMAIN list : list[i] \in OfRoom(list[j]) => i = j

\* A user's list shows the rooms it was last in, one more than the configuration
\* says, as long as no request has written to it (_on_room_member_join); and a list
\* names a room once, whoever wrote it.
HistoryIsRecent ==
  \A u \in User :
    /\ u \notin touched => Shows(rooms[u], entered[u])
    /\ RoomsOnce(rooms[u]) /\ Len(rooms[u]) <= MaxHistory + 1

\* A message that was written stays: it does not hold, as a new room's document may
\* replace, after the copy was made, the document a message has gone to.
MessagesKept == [][\A r \in Uuid : \A e \in doc[r].log :
                     e.k = "message" => e \in doc'[r].log \union archive'[doc[r].of]]_vars
=============================================================================
