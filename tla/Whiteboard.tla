----------------------------- MODULE Whiteboard -----------------------------
(***************************************************************************)
(* Whiteboards (wb/wb.c).  The room of a whiteboard is in memory while it  *)
(* has users, a load task or a save task; each holds a reference.  Its     *)
(* elements are loaded for the first user and saved after the last one.    *)
(* An edit is committed under the lock of the room, and told to the others *)
(* after it; what a browser does with a message is in                      *)
(* front-whiteboard/src/collab.ts.                                         *)
(*                                                                         *)
(* One whiteboard.  Of an element only its version is kept, one number for *)
(* the version and the nonce that orders equal versions; what its fields   *)
(* are, and what users tell of themselves, is left out.                    *)
(***************************************************************************)
EXTENDS Integers, Sequences, FiniteSets, SequencesExt

CONSTANTS
  User, Element,
  MaxVersion,   \* bound: versions of an element
  MaxJoins,     \* bound: sessions
  MaxFaults,    \* bound: loads and saves that fail
  MaxCrashes    \* bound: crashes of the server

BoardBounds ==
  IsFiniteSet(User) /\ {MaxVersion, MaxJoins, MaxFaults, MaxCrashes} \subseteq Nat

VARIABLES
  room,       \* the room in memory: refs, version, loaded; refs = 0: no room
  elements,   \* of the room
  doc,        \* the newest document of the database
  task,       \* the load or save task: where it is and what it has read
  user,       \* sessions
  inbox,      \* messages on their way to a user's browser
  shows,      \* what the browser shows
  told,       \* history: the newest version a browser was ever told of
  counts      \* counters for the bounds

vars == <<room, elements, doc, task, user, inbox, shows, told, counts>>
clients == <<inbox, shows, told>>

Blank == [e \in Element |-> 0]
NoRoom == [refs |-> 0, version |-> 0, loaded |-> FALSE]
NoTask == [pc |-> "none", version |-> 0, copy |-> Blank]
Away == [pc |-> "away", readonly |-> TRUE, ready |-> FALSE, accepted |-> Blank, refused |-> Blank]

Init ==
  /\ room = NoRoom
  /\ elements = Blank /\ doc = Blank
  /\ task = NoTask
  /\ user = [u \in User |-> Away]
  /\ inbox = [u \in User |-> <<>>]
  /\ shows = [u \in User |-> Blank] /\ told = shows
  /\ counts = [joins |-> 0, faults |-> 0, crashes |-> 0]

\* room->users; a session that is opening or leaving holds a reference only.
Listed == {u \in User : user[u].pc \in {"listed", "greeted", "in", "answering"}}
Holders == {u \in User : user[u].pc # "away"}
Goto(u, pc) == user' = [user EXCEPT ![u].pc = pc]

Newer(a, b) == [e \in Element |-> IF b[e] > a[e] THEN b[e] ELSE a[e]]
Message(kind, s) == [kind |-> kind, state |-> s]
SentTo(U, m) == [u \in User |-> IF u \in U THEN Append(inbox[u], m) ELSE inbox[u]]
-----------------------------------------------------------------------------
\* Mutant: the save task is scheduled without a reference.
ClosedUnheld(r, t) ==
  IF r.refs > 1 THEN [room |-> [r EXCEPT !.refs = @ - 1], task |-> t]
  ELSE IF r.loaded THEN [room |-> [r EXCEPT !.refs = 0], task |-> [NoTask EXCEPT !.pc = "save"]]
  ELSE [room |-> NoRoom, task |-> NoTask]

\* _wb_room_close: the last one out has the room saved, or destroys one that is
\* not loaded.
Closed(r, t) ==
  IF r.refs > 1 THEN [room |-> [r EXCEPT !.refs = @ - 1], task |-> t]
  ELSE IF r.loaded THEN [room |-> r, task |-> [NoTask EXCEPT !.pc = "save"]]
  ELSE [room |-> NoRoom, task |-> NoTask]

CloseRoom(r, t) == room' = Closed(r, t).room /\ task' = Closed(r, t).task

\* _on_wss_init with _wb_room_open.  A writer makes a new version of the room.
Join(u, readonly) ==
  /\ user[u].pc = "away"
  /\ counts.joins < MaxJoins
  /\ counts' = [counts EXCEPT !.joins = @ + 1]
  /\ room' = [room EXCEPT !.refs = IF @ = 0 THEN 2 ELSE @ + 1,
                          !.version = IF readonly THEN @ ELSE @ + 1]
  /\ task' = IF room.refs = 0 THEN [NoTask EXCEPT !.pc = "load"] ELSE task
  /\ elements' = IF room.refs = 0 THEN Blank ELSE elements
  /\ user' = [user EXCEPT ![u] = [Away EXCEPT !.pc = "opened", !.readonly = readonly]]
  /\ shows' = [shows EXCEPT ![u] = Blank] /\ told' = [told EXCEPT ![u] = Blank]
  /\ UNCHANGED <<doc, inbox>>

\* _wb_user_create.
EnterList(u) ==
  /\ user[u].pc = "opened"
  /\ Goto(u, "listed")
  /\ UNCHANGED <<room, elements, doc, task, clients, counts>>

\* The state is collected for a user of a loaded room, and sent; the users of a
\* room that is still loading get it from the load task.
Greet(u) ==
  /\ user[u].pc = "listed"
  /\ user' = [user EXCEPT ![u].pc = IF room.loaded THEN "greeted" ELSE "in",
                          ![u].refused = IF room.loaded THEN elements ELSE Blank]
  /\ UNCHANGED <<room, elements, doc, task, clients, counts>>

SendGreeting(u) ==
  /\ user[u].pc = "greeted"
  /\ inbox' = SentTo({u}, Message("sync", user[u].refused))
  /\ user' = [user EXCEPT ![u].pc = "in", ![u].refused = Blank]
  /\ UNCHANGED <<room, elements, doc, task, shows, told, counts>>

\* _wb_room_commit_element, of every element of an edit: the newest wins.
Committed(s, edit) == Newer(s, edit)

\* Versions that somebody was told of; the nonce of a new one is random.
Used(e) ==
  {elements[e], doc[e]} \union
  UNION {{told[w][e], user[w].accepted[e]} \union {m.state[e] : m \in ToSet(inbox[w])} : w \in User}

\* _on_ws_message: a writer's edit of what its browser shows.
Edit(u) ==
  /\ user[u].pc = "in"
  /\ room.loaded /\ ~user[u].readonly /\ user[u].ready
  /\ \E e \in Element :
       \E v \in ((shows[u][e] + 1)..MaxVersion) \ Used(e) :
         LET edit == [Blank EXCEPT ![e] = v]
             wins == v > elements[e]
         IN /\ elements' = Committed(elements, edit)
            /\ shows' = [shows EXCEPT ![u] = Newer(@, edit)]
            /\ told' = [told EXCEPT ![u] = Newer(@, edit)]
            /\ user' = [user EXCEPT ![u].pc = "answering",
                          ![u].accepted = IF wins THEN edit ELSE Blank,
                          ![u].refused = IF wins THEN Blank ELSE [Blank EXCEPT ![e] = elements[e]]]
  /\ UNCHANGED <<room, doc, task, inbox, counts>>

\* Mutant: the others in the room are not told.
AudienceOwn(u) == {u}
Audience(u) == Listed \ {u}

\* What was refused goes back to the user, what was accepted to the others.
Answer(u) ==
  /\ user[u].pc = "answering"
  /\ inbox' = IF user[u].accepted # Blank
              THEN SentTo(Audience(u), Message("edit", user[u].accepted))
              ELSE SentTo({u}, Message("edit", user[u].refused))
  /\ user' = [user EXCEPT ![u].pc = "in", ![u].accepted = Blank, ![u].refused = Blank]
  /\ UNCHANGED <<room, elements, doc, task, shows, told, counts>>

\* A session ends, by itself or because it wrote to a room that is not loaded.
Leave(u) ==
  /\ user[u].pc = "in"
  /\ Goto(u, "leaving")
  /\ inbox' = [inbox EXCEPT ![u] = <<>>]
  /\ UNCHANGED <<room, elements, doc, task, shows, told, counts>>

\* _wb_ws_destroy_userdata has taken the user off the list.
Left(u) ==
  /\ user[u].pc = "leaving"
  /\ CloseRoom(room, task)
  /\ user' = [user EXCEPT ![u] = Away]
  /\ UNCHANGED <<elements, doc, clients, counts>>

\* Collab.onMessage: the state replaces everything, an edit its element.
Receive(u) ==
  /\ inbox[u] # <<>>
  /\ LET m == Head(inbox[u]) IN
     /\ shows' = [shows EXCEPT ![u] = [e \in Element |->
          IF m.kind = "sync" \/ m.state[e] > 0 THEN m.state[e] ELSE @[e]]]
     /\ told' = [told EXCEPT ![u] = Newer(@, m.state)]
     /\ user' = [user EXCEPT ![u].ready = @ \/ m.kind = "sync"]
  /\ inbox' = [inbox EXCEPT ![u] = Tail(@)]
  /\ UNCHANGED <<room, elements, doc, task, counts>>
-----------------------------------------------------------------------------
At(pc) == task.pc = pc
Fault == counts.faults < MaxFaults /\ counts' = [counts EXCEPT !.faults = @ + 1]

\* _wb_room_load: nobody may be there any more.
Load ==
  /\ At("load")
  /\ IF room.refs = 1 THEN CloseRoom(room, task)
     ELSE task' = [task EXCEPT !.pc = "read"] /\ UNCHANGED room
  /\ UNCHANGED <<elements, doc, user, clients, counts>>

Loaded ==
  /\ At("read")
  /\ elements' = doc
  /\ room' = [room EXCEPT !.loaded = TRUE]
  /\ inbox' = SentTo(Listed, Message("sync", doc))
  /\ task' = [task EXCEPT !.pc = "close"]
  /\ UNCHANGED <<doc, user, shows, told, counts>>

LoadFails ==
  /\ At("read")
  /\ Fault
  /\ task' = [task EXCEPT !.pc = "close"]
  /\ UNCHANGED <<room, elements, doc, user, clients>>

\* A task gives its reference back.
CloseTask ==
  /\ At("close")
  /\ CloseRoom(room, NoTask)
  /\ UNCHANGED <<elements, doc, user, clients, counts>>

\* _wb_room_save: not while somebody is there, not if nobody could write.
Save ==
  /\ At("save")
  /\ IF room.refs # 1 THEN CloseRoom(room, NoTask)
     ELSE IF room.version = 0 THEN CloseRoom([room EXCEPT !.loaded = FALSE], NoTask)
     ELSE task' = [task EXCEPT !.pc = "copy", !.version = room.version] /\ UNCHANGED room
  /\ UNCHANGED <<elements, doc, user, clients, counts>>

Copy ==
  /\ At("copy")
  /\ task' = [task EXCEPT !.pc = "put", !.copy = elements]
  /\ UNCHANGED <<room, elements, doc, user, clients, counts>>

Put ==
  /\ At("put")
  /\ doc' = task.copy
  /\ task' = [task EXCEPT !.pc = "saved"]
  /\ UNCHANGED <<room, elements, user, clients, counts>>

SaveFails ==
  /\ At("put")
  /\ Fault
  /\ task' = [task EXCEPT !.pc = "close"]
  /\ UNCHANGED <<room, elements, doc, user, clients>>

\* Mutants: who came meanwhile is not looked for; the room is saved over and over.
RelevantAlways == TRUE
RelevantNever == FALSE
Relevant == room.version = task.version

\* What was saved is still what the room holds, or it is saved once more.
Saved ==
  /\ At("saved")
  /\ CloseRoom(IF Relevant THEN [room EXCEPT !.loaded = FALSE] ELSE room, NoTask)
  /\ UNCHANGED <<elements, doc, user, clients, counts>>

Crash ==
  /\ counts.crashes < MaxCrashes
  /\ counts' = [counts EXCEPT !.crashes = @ + 1]
  /\ room' = NoRoom /\ task' = NoTask
  /\ user' = [u \in User |-> Away]
  /\ inbox' = [u \in User |-> <<>>]
  /\ UNCHANGED <<elements, doc, shows, told>>

Task == Load \/ Loaded \/ LoadFails \/ CloseTask \/ Save \/ Copy \/ Put \/ SaveFails \/ Saved

Session(u) == EnterList(u) \/ Greet(u) \/ SendGreeting(u) \/ Answer(u) \/ Left(u)

Next ==
  \/ Task \/ Crash
  \/ \E u \in User :
       \/ Session(u) \/ Edit(u) \/ Leave(u) \/ Receive(u)
       \/ \E readonly \in BOOLEAN : Join(u, readonly)

Spec == Init /\ [][Next]_vars

\* The threads of the pool and of the sessions go on.
Fairness == WF_vars(Task) /\ \A u \in User : WF_vars(Session(u))
FairSpec == Spec /\ Fairness
-----------------------------------------------------------------------------
TypeOK ==
  /\ room \in [refs : 0..(Cardinality(User) + 1), version : 0..MaxJoins, loaded : BOOLEAN]
  /\ elements \in [Element -> 0..MaxVersion] /\ doc \in [Element -> 0..MaxVersion]
  /\ task.pc \in {"none", "load", "read", "close", "save", "copy", "put", "saved"}
  /\ shows \in [User -> [Element -> 0..MaxVersion]] /\ told \in [User -> [Element -> 0..MaxVersion]]

\* The room has one reference for every session and one for its task: it is not
\* destroyed under any of them and does not outlive them.
RefsExact == room.refs = Cardinality(Holders) + (IF At("none") THEN 0 ELSE 1)

\* Whoever is in a loaded room is told of the newest version of every element,
\* however joining, loading and committing interleave.
Informed ==
  room.loaded =>
    \A u \in {x \in Listed : user[x].pc # "listed"}, e \in Element :
      \/ told[u][e] = elements[e]
      \/ user[u].refused[e] = elements[e]
      \/ \E i \in DOMAIN inbox[u] : inbox[u][i].state[e] = elements[e]
      \/ \E w \in User \ {u} : user[w].pc = "answering" /\ user[w].accepted[e] = elements[e]

B == INSTANCE Board WITH
  board <- IF room.loaded THEN elements ELSE doc,
  stored <- doc,
  crashes <- counts.crashes

\* No element goes back to an older version; what was accepted is there when the
\* room is loaded the next time, unless the server crashes.
IsBoard == B!Spec

\* A room that everybody has left is saved and destroyed.
Abandoned == \A u \in User : user[u].pc = "away"
RoomGoes == Abandoned ~> room = NoRoom \/ ~Abandoned

\* "Selection is deterministic": when nothing is under way, browsers in one room
\* show the same.  It does not hold: a greeting collected before an edit may be sent
\* after it.
Converged ==
  /\ room.loaded
  /\ \A u \in User : user[u].pc \in {"in", "away"} /\ inbox[u] = <<>>
  => \A u, w \in Listed : shows[u] = shows[w]
=============================================================================
