-------------------------- MODULE Whiteboard_proof --------------------------
(***************************************************************************)
(* For any number of users, elements, versions, failures and crashes: the  *)
(* references of a whiteboard's room are exact, whoever is in it is told   *)
(* of the newest elements, and it is the board that Board promises.        *)
(***************************************************************************)
EXTENDS Whiteboard, FiniteSetTheorems, TLAPS

State == [Element -> 0..MaxVersion]
RoomRec == [refs : Nat, version : 0..MaxJoins, loaded : BOOLEAN]
TaskRec ==
  [pc : {"none", "load", "read", "close", "save", "copy", "put", "saved"},
   version : 0..MaxJoins, copy : State]
UserRec ==
  [pc : {"away", "opened", "listed", "greeted", "in", "answering", "leaving"},
   readonly : BOOLEAN, ready : BOOLEAN, accepted : State, refused : State]
CountsRec == [joins : 0..MaxJoins, faults : Nat, crashes : Nat]
MessageRec == [kind : {"sync", "edit"}, state : State]

Types ==
  /\ room \in RoomRec /\ task \in TaskRec
  /\ elements \in State /\ doc \in State
  /\ user \in [User -> UserRec]
  /\ inbox \in [User -> Seq(MessageRec)]
  /\ shows \in [User -> State] /\ told \in [User -> State]
  /\ counts \in CountsRec
  /\ room.version <= counts.joins

\* A room that is gone leaves nothing behind.
Unheld == room.refs = 0 => room = NoRoom

AtMost(a, b) == \A e \in Element : a[e] <= b[e]

\* Nobody in the room has, or is about to get, what is newer than its elements.
Known(u) ==
  /\ AtMost(told[u], elements) /\ AtMost(user[u].accepted, elements)
  /\ AtMost(user[u].refused, elements)
  /\ \A i \in DOMAIN inbox[u] : AtMost(inbox[u][i].state, elements)
NothingNewer == \A u \in Holders : Known(u)

\* Until the document has been read there is nothing to know.
Fresh == task.pc \in {"load", "read"} => ~room.loaded /\ elements = Blank

\* Messages are for those who are there, and an answer is kept only until it is given.
Calm ==
  \A u \in User :
    /\ user[u].pc \in {"away", "leaving"} => inbox[u] = <<>>
    /\ user[u].pc # "answering" => user[u].accepted = Blank
    /\ user[u].pc \notin {"greeted", "answering"} => user[u].refused = Blank
    /\ user[u].accepted # Blank => user[u].refused = Blank

Readers == \A u \in Holders : user[u].readonly

\* What is saved is what the room holds, as far as nobody could write meanwhile.
Saving ==
  /\ task.pc \in {"save", "copy", "put", "saved"} => room.loaded
  /\ room.loaded => AtMost(doc, elements)
  /\ task.pc = "put" => AtMost(doc, task.copy) /\ AtMost(task.copy, elements)
  /\ task.pc \in {"copy", "put", "saved"} => 1 <= task.version /\ task.version <= room.version

Unwritten ==
  /\ room.version = 0 => Readers /\ (room.loaded => elements = doc)
  /\ task.pc \in {"copy", "put", "saved"} /\ Relevant =>
       /\ Readers
       /\ task.pc = "put" => task.copy = elements
       /\ task.pc = "saved" => doc = elements

IInv ==
  /\ Types /\ RefsExact /\ Unheld /\ NothingNewer /\ Fresh /\ Calm /\ Saving /\ Unwritten
  /\ Informed
-----------------------------------------------------------------------------
(* Records, references and messages.                                       *)

LEMMA Constants == ASSUME BoardBounds PROVE
  /\ IsFiniteSet(User) /\ MaxVersion \in Nat /\ MaxJoins \in Nat
  /\ Blank \in State /\ NoRoom \in RoomRec /\ NoTask \in TaskRec /\ Away \in UserRec
BY DEF BoardBounds, Blank, State, NoRoom, RoomRec, NoTask, TaskRec, Away, UserRec

LEMMA Counters ==
  ASSUME BoardBounds, NEW c \in CountsRec
  PROVE  /\ c.joins \in 0..MaxJoins /\ c.joins \in Nat
         /\ [c EXCEPT !.faults = @ + 1] \in CountsRec /\ [c EXCEPT !.faults = @ + 1].joins = c.joins
         /\ [c EXCEPT !.crashes = @ + 1] \in CountsRec /\ [c EXCEPT !.crashes = @ + 1].joins = c.joins
         /\ [c EXCEPT !.joins = @ + 1].joins = c.joins + 1
         /\ c.joins < MaxJoins => [c EXCEPT !.joins = @ + 1] \in CountsRec
<1>1. MaxJoins \in Nat /\ c.joins \in 0..MaxJoins /\ c.faults \in Nat /\ c.crashes \in Nat
  BY Constants DEF CountsRec
<1>2. [c EXCEPT !.faults = @ + 1] \in CountsRec /\ [c EXCEPT !.faults = @ + 1].joins = c.joins
  BY <1>1 DEF CountsRec
<1>3. [c EXCEPT !.crashes = @ + 1] \in CountsRec /\ [c EXCEPT !.crashes = @ + 1].joins = c.joins
  BY <1>1 DEF CountsRec
<1>4. [c EXCEPT !.joins = @ + 1].joins = c.joins + 1
  BY DEF CountsRec
<1>5. ASSUME c.joins < MaxJoins PROVE [c EXCEPT !.joins = @ + 1] \in CountsRec
  <2>1. c.joins + 1 \in 0..MaxJoins
    BY <1>1, <1>5
  <2> QED BY <1>1, <2>1 DEF CountsRec
<1> QED BY <1>1, <1>2, <1>3, <1>4, <1>5

LEMMA Numbers ==
  ASSUME BoardBounds
  PROVE  /\ \A r \in RoomRec : r.refs \in Nat /\ r.version \in Nat
         /\ Types => counts.joins \in Nat /\ room.refs \in Nat /\ room.version \in Nat
<1>1. \A r \in RoomRec : r.refs \in Nat /\ r.version \in Nat
  BY Constants DEF RoomRec
<1>2. Types => counts.joins \in Nat
  BY Counters DEF Types
<1>3. Types => room \in RoomRec
  BY DEF Types
<1> QED BY <1>1, <1>2, <1>3

\* What is left of a room and its task when a reference is given back.
LEMMA ClosedIs ==
  ASSUME BoardBounds, NEW r \in RoomRec, r.refs > 0, NEW t \in TaskRec
  PROVE  /\ Closed(r, t).room \in RoomRec /\ Closed(r, t).task \in TaskRec
         /\ r.refs > 1 => /\ Closed(r, t).room.refs = r.refs - 1
                          /\ Closed(r, t).room.version = r.version
                          /\ Closed(r, t).task = t
         /\ r.refs = 1 /\ r.loaded => /\ Closed(r, t).room = r
                                      /\ Closed(r, t).task.pc = "save"
         /\ r.refs = 1 /\ ~r.loaded => Closed(r, t).room = NoRoom /\ Closed(r, t).task = NoTask
         /\ Closed(r, t).room.loaded = r.loaded
<1>1. CASE r.refs > 1
  <2>1. Closed(r, t) = [room |-> [r EXCEPT !.refs = r.refs - 1], task |-> t]
    BY <1>1 DEF Closed
  <2>2. [r EXCEPT !.refs = r.refs - 1] \in RoomRec
    BY <1>1 DEF RoomRec
  <2> QED BY <1>1, <2>1, <2>2 DEF RoomRec
<1>2. CASE ~(r.refs > 1) /\ r.loaded
  <2>1. Closed(r, t) = [room |-> r, task |-> [NoTask EXCEPT !.pc = "save"]]
    BY <1>2 DEF Closed
  <2>2. [NoTask EXCEPT !.pc = "save"] \in TaskRec /\ [NoTask EXCEPT !.pc = "save"].pc = "save"
    BY Constants DEF TaskRec, NoTask
  <2>3. Closed(r, t).room = r /\ Closed(r, t).task = [NoTask EXCEPT !.pc = "save"]
    BY <2>1
  <2> QED BY <1>2, <2>2, <2>3 DEF RoomRec
<1>3. CASE ~(r.refs > 1) /\ ~r.loaded
  <2>1. Closed(r, t) = [room |-> NoRoom, task |-> NoTask]
    BY <1>3 DEF Closed
  <2>2. Closed(r, t).room = NoRoom /\ Closed(r, t).task = NoTask /\ NoRoom.loaded = FALSE
    BY <2>1 DEF NoRoom
  <2> QED BY <1>3, <2>2, Constants DEF RoomRec
<1> QED BY <1>1, <1>2, <1>3

LEMMA Counted ==
  ASSUME BoardBounds
  PROVE  /\ IsFiniteSet(Holders) /\ Cardinality(Holders) \in Nat
         /\ Cardinality(Holders) <= Cardinality(User)
         /\ Cardinality(Holders) = 0 => Holders = {}
BY Constants, FS_Subset, FS_CardinalityType, FS_EmptySet DEF Holders

LEMMA OneMore ==
  ASSUME BoardBounds, NEW u \in User, u \notin Holders, Holders' = Holders \union {u}
  PROVE  Cardinality(Holders)' = Cardinality(Holders) + 1
BY Counted, FS_AddElement

LEMMA OneLess ==
  ASSUME BoardBounds, NEW u \in Holders, Holders' = Holders \ {u}
  PROVE  Cardinality(Holders)' = Cardinality(Holders) - 1
BY Counted, FS_RemoveElement

LEMMA SentIs ==
  ASSUME inbox \in [User -> Seq(MessageRec)], NEW U \in SUBSET User, NEW m \in MessageRec
  PROVE  /\ SentTo(U, m) \in [User -> Seq(MessageRec)]
         /\ \A w \in User \ U : SentTo(U, m)[w] = inbox[w]
         /\ \A w \in U : SentTo(U, m)[w] = Append(inbox[w], m)
<1>1. \A w \in User : inbox[w] \in Seq(MessageRec) /\ Append(inbox[w], m) \in Seq(MessageRec)
  OBVIOUS
<1>2. SentTo(U, m) \in [User -> Seq(MessageRec)]
  BY <1>1 DEF SentTo
<1>3. \A w \in U : SentTo(U, m)[w] = Append(inbox[w], m)
  BY DEF SentTo
<1>4. \A w \in User \ U : SentTo(U, m)[w] = inbox[w]
  BY DEF SentTo
<1> QED BY <1>2, <1>3, <1>4

LEMMA Appended ==
  ASSUME NEW s \in Seq(MessageRec), NEW m \in MessageRec
  PROVE  /\ DOMAIN Append(s, m) = DOMAIN s \union {Len(s) + 1}
         /\ Append(s, m)[Len(s) + 1] = m
         /\ \A i \in DOMAIN s : Append(s, m)[i] = s[i]
OBVIOUS

LEMMA SentGives ==
  ASSUME inbox \in [User -> Seq(MessageRec)], NEW U \in SUBSET User, NEW m \in MessageRec,
         inbox' = SentTo(U, m)
  PROVE  /\ inbox' \in [User -> Seq(MessageRec)]
         /\ \A w \in User \ U : inbox'[w] = inbox[w]
         /\ \A w \in U : \E i \in DOMAIN inbox'[w] : inbox'[w][i] = m
         /\ \A w \in User : \A i \in DOMAIN inbox[w] : i \in DOMAIN inbox'[w] /\ inbox'[w][i] = inbox[w][i]
         /\ \A w \in User : \A i \in DOMAIN inbox'[w] :
              i \notin DOMAIN inbox[w] => inbox'[w][i] = m
<1>1. /\ inbox' \in [User -> Seq(MessageRec)]
      /\ \A w \in User \ U : inbox'[w] = inbox[w]
      /\ \A w \in U : inbox'[w] = Append(inbox[w], m)
  BY SentIs
<1>2. ASSUME NEW w \in U
      PROVE  /\ DOMAIN inbox'[w] = DOMAIN inbox[w] \union {Len(inbox[w]) + 1}
             /\ inbox'[w][Len(inbox[w]) + 1] = m
             /\ \A i \in DOMAIN inbox[w] : inbox'[w][i] = inbox[w][i]
  <2>1. inbox[w] \in Seq(MessageRec)
    BY <1>2
  <2>2. /\ DOMAIN Append(inbox[w], m) = DOMAIN inbox[w] \union {Len(inbox[w]) + 1}
        /\ Append(inbox[w], m)[Len(inbox[w]) + 1] = m
        /\ \A i \in DOMAIN inbox[w] : Append(inbox[w], m)[i] = inbox[w][i]
    BY <2>1, Appended
  <2>3. inbox'[w] = Append(inbox[w], m)
    BY <1>1
  <2> QED BY <2>2, <2>3
<1>3. \A w \in U : \E i \in DOMAIN inbox'[w] : inbox'[w][i] = m
  BY <1>2
<1>4. \A w \in User : \A i \in DOMAIN inbox[w] : i \in DOMAIN inbox'[w] /\ inbox'[w][i] = inbox[w][i]
  BY <1>1, <1>2
<1>5. \A w \in User : \A i \in DOMAIN inbox'[w] :
        i \notin DOMAIN inbox[w] => inbox'[w][i] = m
  BY <1>1, <1>2
<1> QED BY <1>1, <1>3, <1>4, <1>5
-----------------------------------------------------------------------------
(* References.                                                             *)

TaskRef == IF At("none") THEN 0 ELSE 1

LEMMA Exact ==
  ASSUME BoardBounds, Types, RefsExact
  PROVE  /\ room.refs \in Nat /\ room.refs = Cardinality(Holders) + TaskRef
         /\ task.pc # "none" => room.refs > 0
         /\ \A u \in Holders : room.refs > 0
         /\ room.refs = 0 => Holders = {} /\ At("none")
         /\ room.refs = 1 /\ ~At("none") => Holders = {}
<1>1. IsFiniteSet(Holders) /\ Cardinality(Holders) \in Nat
      /\ (Cardinality(Holders) = 0 => Holders = {})
  BY Counted
<1>2. \A u \in Holders : Cardinality(Holders) # 0
  BY <1>1, FS_EmptySet
<1>3. room.refs \in Nat /\ room.refs = Cardinality(Holders) + TaskRef
  BY DEF Types, RoomRec, RefsExact, TaskRef
<1> QED BY <1>1, <1>2, <1>3 DEF TaskRef, At

\* A reference is given back by the last that a task does ...
TaskCloses(r) ==
  /\ ~At("none") /\ CloseRoom(r, NoTask)
  /\ r \in RoomRec /\ r.refs = room.refs /\ r.version = room.version
  /\ r.loaded => room.loaded
  /\ UNCHANGED <<elements, doc, user, inbox, told>>

\* ... or by a session.
Leaves(u) ==
  /\ user[u].pc = "leaving" /\ CloseRoom(room, task)
  /\ user' = [user EXCEPT ![u] = Away]
  /\ UNCHANGED <<elements, doc, inbox, told>>

LEMMA TaskClosesIs ==
  ASSUME BoardBounds, Types, RefsExact, Unheld, NEW r, TaskCloses(r)
  PROVE  /\ room' \in RoomRec /\ task' \in TaskRec
         /\ RefsExact' /\ Unheld'
         /\ task'.pc \in {"none", "save"}
         /\ task'.pc = "save" => room'.loaded
         /\ room'.loaded = r.loaded
         /\ room'.version <= room.version /\ (room'.refs > 0 => room'.version = room.version)
         /\ Holders' = Holders /\ (room'.refs = 0 => Holders = {} /\ room'.loaded = FALSE)
<1>1. room.refs > 0 /\ room.refs = Cardinality(Holders) + 1 /\ Cardinality(Holders) \in Nat
  BY Exact, Counted DEF TaskCloses, TaskRef
<1>2. r \in RoomRec /\ r.refs = room.refs /\ r.version = room.version
  BY DEF TaskCloses
<1>3. room' = Closed(r, NoTask).room /\ task' = Closed(r, NoTask).task
  BY DEF TaskCloses, CloseRoom
<1>4. Cardinality(Holders)' = Cardinality(Holders) /\ Holders' = Holders
  BY DEF TaskCloses, Holders
<1>5. NoTask.pc = "none" /\ NoRoom.refs = 0 /\ NoRoom.version = 0 /\ NoTask \in TaskRec
  BY Constants DEF NoTask, NoRoom
<1>6. room.version \in Nat
  BY DEF Types, RoomRec
<1>7. CASE r.refs > 1
  <2>1. room'.refs = r.refs - 1 /\ room'.version = r.version /\ task' = NoTask
        /\ room' \in RoomRec /\ room'.loaded = r.loaded
    BY <1>1, <1>2, <1>3, <1>5, <1>7, ClosedIs
  <2>2. RefsExact' /\ Unheld' /\ room'.refs > 0
    BY <1>1, <1>2, <1>4, <1>5, <1>7, <2>1 DEF RefsExact, At, Unheld
  <2> QED BY <1>2, <1>4, <1>5, <1>6, <2>1, <2>2
<1>8. CASE r.refs = 1 /\ r.loaded
  <2>1. room' = r /\ task'.pc = "save" /\ task' \in TaskRec
    BY <1>1, <1>2, <1>3, <1>5, <1>8, ClosedIs
  <2>2. RefsExact'
    BY <1>1, <1>2, <1>4, <1>8, <2>1 DEF RefsExact, At
  <2>3. room'.refs = 1 /\ Unheld'
    BY <1>8, <2>1 DEF Unheld
  <2>4. room'.loaded /\ room'.loaded = r.loaded /\ room'.version = room.version
    BY <1>2, <1>8, <2>1
  <2> QED BY <1>2, <1>4, <1>6, <2>1, <2>2, <2>3, <2>4
<1>9. CASE r.refs = 1 /\ ~r.loaded
  <2>1. room' = NoRoom /\ task' = NoTask /\ room'.loaded = r.loaded
    BY <1>1, <1>2, <1>3, <1>5, <1>9, ClosedIs
  <2>2. Cardinality(Holders) = 0 /\ Holders = {}
    BY <1>1, <1>2, <1>9, Counted
  <2>3. RefsExact' /\ Unheld'
    BY <1>4, <1>5, <2>1, <2>2 DEF RefsExact, At, Unheld
  <2>4. room'.loaded = FALSE /\ room' \in RoomRec
    BY <2>1, Constants DEF NoRoom
  <2> QED BY <1>4, <1>5, <1>6, <2>1, <2>2, <2>3, <2>4
<1>10. r.refs > 1 \/ (r.refs = 1 /\ r.loaded) \/ (r.refs = 1 /\ ~r.loaded)
  BY <1>1, <1>2
<1> QED BY <1>7, <1>8, <1>9, <1>10

LEMMA LeavesIs ==
  ASSUME BoardBounds, Types, RefsExact, Unheld, NEW u \in User, Leaves(u)
  PROVE  /\ room' \in RoomRec /\ task' \in TaskRec
         /\ RefsExact' /\ Unheld' /\ Holders' = Holders \ {u}
         /\ task' = task \/ task'.pc = "none" \/ (task'.pc = "save" /\ room'.loaded)
         /\ room'.loaded = room.loaded
         /\ room'.version <= room.version /\ (room'.refs > 0 => room'.version = room.version)
         /\ task'.pc \notin {"none", "save"} => room'.refs > 0
<1>1. u \in Holders /\ Holders' = Holders \ {u}
  BY DEF Leaves, Holders, Types, Away
<1>2. Cardinality(Holders)' = Cardinality(Holders) - 1 /\ Cardinality(Holders) \in Nat
  BY <1>1, OneLess, Counted
<1>3. room.refs > 0 /\ room.refs = Cardinality(Holders) + TaskRef /\ room \in RoomRec /\ task \in TaskRec
  BY <1>1, Exact DEF Types
<1>4. room' = Closed(room, task).room /\ task' = Closed(room, task).task
  BY DEF Leaves, CloseRoom
<1>5. NoTask.pc = "none" /\ NoRoom.refs = 0 /\ NoRoom.version = 0
  BY DEF NoTask, NoRoom
<1>6. room.version \in Nat /\ room.refs \in Nat /\ TaskRef \in {0, 1} /\ (TaskRef = 0 <=> task.pc = "none")
  BY DEF Types, RoomRec, TaskRef, At
<1>7. CASE room.refs > 1
  <2>1. room'.refs = room.refs - 1 /\ room'.version = room.version /\ task' = task
        /\ room' \in RoomRec /\ room'.loaded = room.loaded
    BY <1>3, <1>4, <1>7, ClosedIs
  <2>2. RefsExact'
    BY <1>2, <1>3, <1>6, <2>1 DEF RefsExact, TaskRef, At
  <2> QED BY <1>1, <1>3, <1>6, <1>7, <2>1, <2>2 DEF Unheld
<1>8. CASE room.refs = 1 /\ room.loaded
  <2>1. room' = room /\ task'.pc = "save" /\ task' \in TaskRec
    BY <1>3, <1>4, <1>8, ClosedIs
  <2>2. TaskRef = 0
    <3>1. Holders # {}
      BY <1>1
    <3>2. At("none")
      BY <1>8, <3>1, Exact
    <3> QED BY <3>2 DEF TaskRef
  <2>3. RefsExact'
    BY <1>2, <1>3, <1>8, <2>1, <2>2 DEF RefsExact, At
  <2>4. room'.refs = 1 /\ Unheld'
    BY <1>8, <2>1 DEF Unheld
  <2>5. room'.loaded /\ room'.loaded = room.loaded /\ room'.version = room.version
    BY <1>8, <2>1
  <2> QED BY <1>1, <1>3, <1>6, <2>1, <2>3, <2>4, <2>5
<1>9. CASE room.refs = 1 /\ ~room.loaded
  <2>1. room' = NoRoom /\ task' = NoTask /\ room'.loaded = room.loaded
    BY <1>3, <1>4, <1>9, ClosedIs
  <2>2. TaskRef = 0
    <3>1. Holders # {}
      BY <1>1
    <3>2. At("none")
      BY <1>9, <3>1, Exact
    <3> QED BY <3>2 DEF TaskRef
  <2>3. RefsExact'
    BY <1>2, <1>3, <1>5, <1>9, <2>1, <2>2 DEF RefsExact, At
  <2> QED BY <1>1, <1>5, <1>6, <2>1, <2>3, Constants DEF Unheld
<1> QED BY <1>3, <1>6, <1>7, <1>8, <1>9
-----------------------------------------------------------------------------
(* Elements, and what the users know of them.                              *)

LEMMA States ==
  ASSUME BoardBounds, NEW a \in State, NEW b \in State
  PROVE  /\ \A e \in Element : a[e] \in Nat /\ a[e] \in 0..MaxVersion /\ Blank[e] = 0
         /\ AtMost(a, a) /\ AtMost(Blank, a)
         /\ AtMost(a, Blank) => a = Blank
         /\ \A c \in State : AtMost(a, b) /\ AtMost(b, c) => AtMost(a, c)
<1>1. MaxVersion \in Nat /\ Blank \in State
  BY Constants
<1>2. \A c \in State : \A e \in Element : c[e] \in Nat /\ c[e] \in 0..MaxVersion
  BY <1>1 DEF State
<1>3. \A e \in Element : Blank[e] = 0
  BY DEF Blank
<1>4. AtMost(a, a) /\ AtMost(Blank, a)
  BY <1>2, <1>3 DEF AtMost
<1>5. ASSUME AtMost(a, Blank) PROVE a = Blank
  <2>1. \A e \in Element : a[e] = 0
    BY <1>2, <1>3, <1>5 DEF AtMost
  <2> QED BY <2>1 DEF State, Blank
<1>6. \A c \in State : AtMost(a, b) /\ AtMost(b, c) => AtMost(a, c)
  BY <1>2 DEF AtMost
<1> QED BY <1>2, <1>3, <1>4, <1>5, <1>6

LEMMA Single ==
  ASSUME BoardBounds, NEW e \in Element, NEW v \in 0..MaxVersion
  PROVE  /\ [Blank EXCEPT ![e] = v] \in State
         /\ [Blank EXCEPT ![e] = v][e] = v
         /\ \A x \in Element \ {e} : [Blank EXCEPT ![e] = v][x] = 0
BY Constants DEF Blank, State

LEMMA NewerIs ==
  ASSUME BoardBounds, NEW a \in State, NEW b \in State
  PROVE  /\ Newer(a, b) \in State
         /\ \A e \in Element : Newer(a, b)[e] = IF b[e] > a[e] THEN b[e] ELSE a[e]
         /\ AtMost(a, Newer(a, b))
         /\ \A c \in State : AtMost(a, c) /\ AtMost(b, c) => AtMost(Newer(a, b), c)
<1>1. \A e \in Element : Newer(a, b)[e] = IF b[e] > a[e] THEN b[e] ELSE a[e]
  BY DEF Newer
<1>2. \A e \in Element : a[e] \in Nat /\ b[e] \in Nat /\ a[e] \in 0..MaxVersion /\ b[e] \in 0..MaxVersion
  BY States
<1>3. Newer(a, b) \in State
  BY <1>2 DEF Newer, State
<1>4. AtMost(a, Newer(a, b))
  BY <1>1, <1>2 DEF AtMost
<1>5. ASSUME NEW c \in State, AtMost(a, c), AtMost(b, c) PROVE AtMost(Newer(a, b), c)
  BY <1>1, <1>2, <1>5 DEF AtMost
<1> QED BY <1>1, <1>3, <1>4, <1>5

\* How a user in the room has, or is about to get, the newest version of e.
Hears(u, e) ==
  \/ told[u][e] = elements[e]
  \/ user[u].refused[e] = elements[e]
  \/ \E i \in DOMAIN inbox[u] : inbox[u][i].state[e] = elements[e]
  \/ \E w \in User \ {u} : user[w].pc = "answering" /\ user[w].accepted[e] = elements[e]

Present == {u \in User : user[u].pc \in {"greeted", "in", "answering"}}

LEMMA InformedIs == Informed <=> (room.loaded => \A u \in Present : \A e \in Element : Hears(u, e))
BY DEF Informed, Listed, Present, Hears

\* Whoever keeps what it has goes on to hear what it heard, unless one that told has gone.
LEMMA HearsStill ==
  ASSUME NEW u \in User, NEW e \in Element, Hears(u, e),
         elements'[e] = elements[e], told'[u] = told[u], user'[u].refused = user[u].refused,
         \A i \in DOMAIN inbox[u] : i \in DOMAIN inbox'[u] /\ inbox'[u][i] = inbox[u][i],
         \A w \in User \ {u} : user[w].pc = "answering" =>
           user'[w].pc = "answering" /\ user'[w].accepted = user[w].accepted
  PROVE  Hears(u, e)'
BY DEF Hears

\* Steps of one user that leave the room and its elements alone.
Aside(u) ==
  /\ UNCHANGED <<room, elements, doc, task>>
  /\ user' \in [User -> UserRec]
  /\ \A w \in User \ {u} : user'[w] = user[w]
  /\ user'[u].pc # "away" /\ user[u].pc # "away" /\ user'[u].readonly = user[u].readonly

LEMMA AsideIs ==
  ASSUME IInv, NEW u \in User, Aside(u)
  PROVE  /\ RefsExact' /\ Unheld' /\ Fresh' /\ Saving' /\ Unwritten'
         /\ Holders' = Holders
<1>1. Holders' = Holders
  BY DEF Holders, Aside
<1>2. Readers => Readers'
  BY <1>1 DEF Readers, Aside, Holders
<1>3. UNCHANGED <<room, elements, doc, task>>
  BY DEF Aside
<1>4. RefsExact' /\ Unheld'
  BY <1>1, <1>3 DEF IInv, RefsExact, Unheld, At
<1>5. Fresh' /\ Saving'
  BY <1>3 DEF IInv, Fresh, Saving, AtMost
<1>6. Unwritten'
  BY <1>2, <1>3 DEF IInv, Unwritten, Relevant
<1> QED BY <1>1, <1>4, <1>5, <1>6

\* What the change of a user's record makes of it.
LEMMA UserIs ==
  ASSUME Types, NEW u \in User, NEW r \in UserRec, user' = [user EXCEPT ![u] = r]
  PROVE  /\ user' \in [User -> UserRec] /\ user'[u] = r
         /\ \A w \in User \ {u} : user'[w] = user[w]
BY DEF Types

LEMMA UserGoes ==
  ASSUME Types, NEW u \in User, NEW pc \in {"opened", "listed", "greeted", "in", "answering", "leaving"},
         Goto(u, pc)
  PROVE  /\ user' \in [User -> UserRec]
         /\ \A w \in User \ {u} : user'[w] = user[w]
         /\ user'[u].pc = pc /\ user'[u].accepted = user[u].accepted
         /\ user'[u].refused = user[u].refused
         /\ user'[u].readonly = user[u].readonly /\ user'[u].ready = user[u].ready
<1> DEFINE r == [user[u] EXCEPT !.pc = pc]
<1>1. user[u] \in UserRec /\ user \in [User -> UserRec]
  BY DEF Types
<1>2. /\ r \in UserRec /\ r.pc = pc /\ r.accepted = user[u].accepted /\ r.refused = user[u].refused
      /\ r.readonly = user[u].readonly /\ r.ready = user[u].ready
  BY <1>1 DEF UserRec
<1>3. user' = [user EXCEPT ![u] = r]
  BY DEF Goto
<1> HIDE DEF r
<1> QED BY <1>2, <1>3, UserIs

\* What remains to be shown of such a step.
LEMMA AsideStep ==
  ASSUME BoardBounds, IInv, NEW u \in User, Aside(u), UNCHANGED counts,
         inbox' \in [User -> Seq(MessageRec)], shows' \in [User -> State], told' \in [User -> State],
         AtMost(told'[u], elements), AtMost(user'[u].accepted, elements),
         AtMost(user'[u].refused, elements),
         \A w \in User \ {u} : told'[w] = told[w],
         \A w \in Holders : \A i \in DOMAIN inbox'[w] : AtMost(inbox'[w][i].state, elements),
         Calm',
         room.loaded => \A w \in Present' : \A e \in Element : Hears(w, e)'
  PROVE  IInv'
<1>1. UNCHANGED <<room, elements, doc, task>>
  BY DEF Aside
<1>2. Types'
  BY <1>1 DEF IInv, Types, Aside
<1>3. Holders' = Holders
  BY AsideIs
<1>4. ASSUME NEW w \in Holders PROVE Known(w)'
  <2>1. Known(w) /\ w \in User
    BY DEF IInv, NothingNewer, Holders
  <2>2. CASE w = u
    BY <1>1, <2>1, <2>2 DEF Known, AtMost
  <2>3. CASE w # u
    <3>1. user'[w] = user[w] /\ told'[w] = told[w]
      BY <2>1, <2>3 DEF Aside
    <3> QED BY <1>1, <2>1, <3>1 DEF Known, AtMost
  <2> QED BY <2>2, <2>3
<1>5. NothingNewer'
  BY <1>3, <1>4 DEF NothingNewer
<1>6. Informed'
  <2>1. Informed' <=> (room'.loaded => \A w \in Present' : \A e \in Element : Hears(w, e)')
    <3>1. Present' = {w \in Listed' : user'[w].pc # "listed"}
      BY DEF Present, Listed
    <3> QED BY <3>1 DEF Informed, Hears
  <2> QED BY <1>1, <2>1
<1> QED BY <1>2, <1>5, <1>6, AsideIs DEF IInv

LEMMA EnterListStep ==
  ASSUME BoardBounds, IInv, NEW u \in User, EnterList(u) PROVE IInv'
<1> USE DEF IInv
<1>1. user[u].pc = "opened" /\ Goto(u, "listed") /\ UNCHANGED <<room, elements, doc, task, inbox, shows, told, counts>>
  BY DEF EnterList, clients
<1>2. /\ user' \in [User -> UserRec]
      /\ \A w \in User \ {u} : user'[w] = user[w]
      /\ user'[u].pc = "listed" /\ user'[u].accepted = user[u].accepted
      /\ user'[u].refused = user[u].refused /\ user'[u].readonly = user[u].readonly
  BY <1>1, UserGoes
<1>3. Aside(u)
  BY <1>1, <1>2 DEF Aside
<1>4. Known(u) /\ \A w \in Holders : Known(w)
  BY <1>1 DEF NothingNewer, Holders
<1>5. Calm'
  BY <1>1, <1>2 DEF Calm
<1>6. room.loaded => \A w \in Present' : \A e \in Element : Hears(w, e)'
  <2> SUFFICES ASSUME room.loaded, NEW w \in Present', NEW e \in Element PROVE Hears(w, e)'
    OBVIOUS
  <2>1. w \in User \ {u} /\ w \in Present
    BY <1>2 DEF Present
  <2>2. Hears(w, e)
    BY <2>1, InformedIs
  <2>3. \A x \in User \ {w} : user[x].pc = "answering" =>
          user'[x].pc = "answering" /\ user'[x].accepted = user[x].accepted
    BY <1>1, <1>2
  <2> QED BY <1>1, <1>2, <2>1, <2>2, <2>3, HearsStill
<1> QED BY <1>1, <1>2, <1>3, <1>4, <1>5, <1>6, AsideStep DEF Types, Known

LEMMA GreetStep ==
  ASSUME BoardBounds, IInv, NEW u \in User, Greet(u) PROVE IInv'
<1> USE DEF IInv
<1> DEFINE pc == IF room.loaded THEN "greeted" ELSE "in"
           b == IF room.loaded THEN elements ELSE Blank
<1>1. /\ user[u].pc = "listed" /\ UNCHANGED <<room, elements, doc, task, inbox, shows, told, counts>>
      /\ user' = [user EXCEPT ![u].pc = pc, ![u].refused = b]
  BY DEF Greet, clients
<1>2. /\ pc \in {"greeted", "in"} /\ b \in State /\ AtMost(b, elements)
      /\ user[u].accepted = Blank /\ Blank \in State /\ elements \in State
      /\ room.loaded => pc = "greeted" /\ b = elements
      /\ ~room.loaded => pc = "in" /\ b = Blank
  BY <1>1, Constants, States DEF Types, Calm
<1> HIDE DEF pc, b
<1>3. /\ user' \in [User -> UserRec]
      /\ \A w \in User \ {u} : user'[w] = user[w]
      /\ user'[u].pc = pc /\ user'[u].accepted = Blank
      /\ user'[u].refused = b /\ user'[u].readonly = user[u].readonly
  <2> DEFINE r == [user[u] EXCEPT !.pc = pc, !.refused = b]
  <2>1. user[u] \in UserRec /\ user \in [User -> UserRec]
    BY DEF Types
  <2>2. r \in UserRec /\ r.pc = pc /\ r.accepted = Blank /\ r.refused = b /\ r.readonly = user[u].readonly
    BY <1>2, <2>1 DEF UserRec
  <2>3. user' = [user EXCEPT ![u] = r]
    BY <1>1
  <2> HIDE DEF r
  <2> QED BY <2>2, <2>3, UserIs
<1>4. Aside(u)
  BY <1>1, <1>2, <1>3 DEF Aside
<1>5. Known(u) /\ \A w \in Holders : Known(w)
  BY <1>1 DEF NothingNewer, Holders
<1>6. Calm'
  BY <1>1, <1>2, <1>3 DEF Calm
<1>7. room.loaded => \A w \in Present' : \A e \in Element : Hears(w, e)'
  <2> SUFFICES ASSUME room.loaded, NEW w \in Present', NEW e \in Element PROVE Hears(w, e)'
    OBVIOUS
  <2>1. CASE w = u
    BY <1>1, <1>2, <1>3, <2>1 DEF Hears
  <2>2. CASE w # u
    <3>1. w \in User \ {u} /\ w \in Present
      BY <1>3, <2>2 DEF Present
    <3>2. Hears(w, e)
      BY <3>1, InformedIs
    <3>3. \A x \in User \ {w} : user[x].pc = "answering" =>
            user'[x].pc = "answering" /\ user'[x].accepted = user[x].accepted
      BY <1>1, <1>3
    <3> QED BY <1>1, <1>3, <3>1, <3>2, <3>3, HearsStill
  <2> QED BY <2>1, <2>2
<1>8. AtMost(Blank, elements)
  BY <1>2, States
<1> QED BY <1>1, <1>2, <1>3, <1>4, <1>5, <1>6, <1>7, <1>8, AsideStep DEF Types, Known

LEMMA SendGreetingStep ==
  ASSUME BoardBounds, IInv, NEW u \in User, SendGreeting(u) PROVE IInv'
<1> USE DEF IInv
<1> DEFINE m == Message("sync", user[u].refused)
<1>1. /\ user[u].pc = "greeted" /\ UNCHANGED <<room, elements, doc, task, shows, told, counts>>
      /\ user' = [user EXCEPT ![u].pc = "in", ![u].refused = Blank]
      /\ inbox' = SentTo({u}, m)
  BY DEF SendGreeting
<1>2. /\ user[u].accepted = Blank /\ Blank \in State /\ elements \in State /\ user[u] \in UserRec
      /\ user[u].refused \in State /\ AtMost(user[u].refused, elements) /\ AtMost(Blank, elements)
      /\ u \in Holders
  <2>1. u \in Holders /\ Known(u)
    BY <1>1 DEF NothingNewer, Holders
  <2>2. user[u] \in UserRec /\ elements \in State
    BY DEF Types
  <2> QED BY <1>1, <2>1, <2>2, Constants, States DEF Calm, Known, UserRec
<1>3. /\ m \in MessageRec /\ m.state = user[u].refused
  BY <1>2 DEF Message, MessageRec
<1> HIDE DEF m
<1>4. /\ inbox' \in [User -> Seq(MessageRec)]
      /\ \A w \in User \ {u} : inbox'[w] = inbox[w]
      /\ \E i \in DOMAIN inbox'[u] : inbox'[u][i] = m
      /\ \A w \in User : \A i \in DOMAIN inbox[w] : i \in DOMAIN inbox'[w] /\ inbox'[w][i] = inbox[w][i]
      /\ \A w \in User : \A i \in DOMAIN inbox'[w] : i \notin DOMAIN inbox[w] => inbox'[w][i] = m
  <2> DEFINE U == {u}
  <2>1. inbox \in [User -> Seq(MessageRec)] /\ U \in SUBSET User
    BY DEF Types
  <2>2. inbox' = SentTo(U, m)
    BY <1>1
  <2> HIDE DEF U, IInv
  <2>3. /\ inbox' \in [User -> Seq(MessageRec)]
        /\ \A w \in User \ U : inbox'[w] = inbox[w]
        /\ \A w \in U : \E i \in DOMAIN inbox'[w] : inbox'[w][i] = m
        /\ \A w \in User : \A i \in DOMAIN inbox[w] : i \in DOMAIN inbox'[w] /\ inbox'[w][i] = inbox[w][i]
        /\ \A w \in User : \A i \in DOMAIN inbox'[w] :
           i \notin DOMAIN inbox[w] => inbox'[w][i] = m
    BY <1>3, <2>1, <2>2, SentGives
  <2> QED BY <2>3 DEF U
<1>5. /\ user' \in [User -> UserRec]
      /\ \A w \in User \ {u} : user'[w] = user[w]
      /\ user'[u].pc = "in" /\ user'[u].accepted = Blank
      /\ user'[u].refused = Blank /\ user'[u].readonly = user[u].readonly
  <2> DEFINE r == [user[u] EXCEPT !.pc = "in", !.refused = Blank]
  <2>1. r \in UserRec /\ r.pc = "in" /\ r.accepted = Blank /\ r.refused = Blank /\ r.readonly = user[u].readonly
    BY <1>2 DEF UserRec
  <2>2. user' = [user EXCEPT ![u] = r]
    BY <1>1
  <2> HIDE DEF r
  <2> QED BY <2>1, <2>2, UserIs
<1>6. Aside(u)
  BY <1>1, <1>2, <1>5 DEF Aside
<1>7. \A w \in Holders : \A i \in DOMAIN inbox'[w] : AtMost(inbox'[w][i].state, elements)
  <2> SUFFICES ASSUME NEW w \in Holders, NEW i \in DOMAIN inbox'[w]
               PROVE  AtMost(inbox'[w][i].state, elements)
    OBVIOUS
  <2>1. Known(w) /\ w \in User
    BY DEF NothingNewer, Holders
  <2>2. CASE i \in DOMAIN inbox[w]
    BY <1>4, <2>1, <2>2 DEF Known
  <2>3. CASE i \notin DOMAIN inbox[w]
    BY <1>2, <1>3, <1>4, <2>1, <2>3
  <2> QED BY <2>2, <2>3
<1>8. Calm'
  <2> SUFFICES ASSUME NEW w \in User
               PROVE  /\ user'[w].pc \in {"away", "leaving"} => inbox'[w] = <<>>
                      /\ user'[w].pc # "answering" => user'[w].accepted = Blank
                      /\ user'[w].pc \notin {"greeted", "answering"} => user'[w].refused = Blank
                      /\ user'[w].accepted # Blank => user'[w].refused = Blank
    BY DEF Calm
  <2>1. CASE w = u
    BY <1>5, <2>1
  <2>2. CASE w # u
    <3>1. user'[w] = user[w] /\ inbox'[w] = inbox[w]
      BY <1>4, <1>5, <2>2
    <3> QED BY <3>1 DEF Calm
  <2> QED BY <2>1, <2>2
<1>9. room.loaded => \A w \in Present' : \A e \in Element : Hears(w, e)'
  <2> SUFFICES ASSUME room.loaded, NEW w \in Present', NEW e \in Element PROVE Hears(w, e)'
    OBVIOUS
  <2>1. w \in User /\ w \in Present
    BY <1>1, <1>5 DEF Present
  <2>2. Hears(w, e)
    BY <2>1, InformedIs
  <2>3. \A x \in User \ {w} : user[x].pc = "answering" =>
          user'[x].pc = "answering" /\ user'[x].accepted = user[x].accepted
    BY <1>1, <1>5
  <2>4. \A i \in DOMAIN inbox[w] : i \in DOMAIN inbox'[w] /\ inbox'[w][i] = inbox[w][i]
    BY <1>4, <2>1
  <2>5. CASE w # u \/ user[u].refused[e] # elements[e]
    <3>1. CASE w # u
      BY <1>1, <1>5, <2>1, <2>2, <2>3, <2>4, <3>1, HearsStill
    <3>2. CASE w = u /\ user[u].refused[e] # elements[e]
      <4>1. CASE told[w][e] = elements[e]
        BY <1>1, <4>1 DEF Hears
      <4>2. CASE \E i \in DOMAIN inbox[w] : inbox[w][i].state[e] = elements[e]
        <5>1. \E i \in DOMAIN inbox'[w] : inbox'[w][i].state[e] = elements'[e]
          BY <1>1, <2>4, <4>2
        <5> QED BY <5>1 DEF Hears
      <4>3. CASE \E x \in User \ {w} : user[x].pc = "answering" /\ user[x].accepted[e] = elements[e]
        BY <1>1, <2>3, <4>3 DEF Hears
      <4> QED BY <2>2, <3>2, <4>1, <4>2, <4>3 DEF Hears
    <3> QED BY <2>5, <3>1, <3>2
  <2>6. CASE w = u /\ user[u].refused[e] = elements[e]
    <3>1. \E i \in DOMAIN inbox'[w] : inbox'[w][i].state[e] = elements'[e]
      BY <1>1, <1>3, <1>4, <2>6
    <3> QED BY <3>1 DEF Hears
  <2> QED BY <2>5, <2>6
<1>10. AtMost(told'[u], elements) /\ told' = told /\ shows' = shows /\ shows \in [User -> State] /\ told \in [User -> State]
  BY <1>1, <1>2 DEF NothingNewer, Known, Types
<1>11. AtMost(user'[u].accepted, elements) /\ AtMost(user'[u].refused, elements)
  BY <1>2, <1>5
<1> HIDE DEF IInv
<1> QED BY <1>1, <1>4, <1>6, <1>7, <1>8, <1>9, <1>10, <1>11, AsideStep

LEMMA LeaveStep ==
  ASSUME BoardBounds, IInv, NEW u \in User, Leave(u) PROVE IInv'
<1> USE DEF IInv
<1>1. /\ user[u].pc = "in" /\ Goto(u, "leaving") /\ UNCHANGED <<room, elements, doc, task, shows, told, counts>>
      /\ inbox' = [inbox EXCEPT ![u] = <<>>]
  BY DEF Leave
<1>2. /\ user' \in [User -> UserRec]
      /\ \A w \in User \ {u} : user'[w] = user[w]
      /\ user'[u].pc = "leaving" /\ user'[u].accepted = user[u].accepted
      /\ user'[u].refused = user[u].refused /\ user'[u].readonly = user[u].readonly
  BY <1>1, UserGoes
<1>3. Aside(u)
  BY <1>1, <1>2 DEF Aside
<1>4. Known(u) /\ \A w \in Holders : Known(w) /\ w \in User
  BY <1>1 DEF NothingNewer, Holders
<1>5. /\ inbox' \in [User -> Seq(MessageRec)] /\ inbox'[u] = <<>>
      /\ \A w \in User \ {u} : inbox'[w] = inbox[w]
  BY <1>1 DEF Types
<1>6. \A w \in Holders : \A i \in DOMAIN inbox'[w] : AtMost(inbox'[w][i].state, elements)
  BY <1>4, <1>5 DEF Known
<1>7. Calm'
  BY <1>1, <1>2, <1>5 DEF Calm
<1>8. room.loaded => \A w \in Present' : \A e \in Element : Hears(w, e)'
  <2> SUFFICES ASSUME room.loaded, NEW w \in Present', NEW e \in Element PROVE Hears(w, e)'
    OBVIOUS
  <2>1. w \in User \ {u} /\ w \in Present
    BY <1>2 DEF Present
  <2>2. Hears(w, e)
    BY <2>1, InformedIs
  <2>3. \A x \in User \ {w} : user[x].pc = "answering" =>
          user'[x].pc = "answering" /\ user'[x].accepted = user[x].accepted
    BY <1>1, <1>2
  <2> QED BY <1>1, <1>2, <1>5, <2>1, <2>2, <2>3, HearsStill
<1>9. AtMost(told'[u], elements) /\ told' = told /\ shows' = shows /\ shows \in [User -> State] /\ told \in [User -> State]
  BY <1>1, <1>4 DEF Known, Types
<1>10. AtMost(user'[u].accepted, elements) /\ AtMost(user'[u].refused, elements)
  BY <1>2, <1>4 DEF Known
<1> HIDE DEF IInv
<1> QED BY <1>1, <1>3, <1>5, <1>6, <1>7, <1>8, <1>9, <1>10, AsideStep

LEMMA AnswerStep ==
  ASSUME BoardBounds, IInv, NEW u \in User, Answer(u) PROVE IInv'
<1> USE DEF IInv
<1> DEFINE told_of == IF user[u].accepted # Blank THEN user[u].accepted ELSE user[u].refused
           U == IF user[u].accepted # Blank THEN Audience(u) ELSE {u}
           m == Message("edit", told_of)
<1>1. /\ user[u].pc = "answering" /\ UNCHANGED <<room, elements, doc, task, shows, told, counts>>
      /\ user' = [user EXCEPT ![u].pc = "in", ![u].accepted = Blank, ![u].refused = Blank]
      /\ inbox' = SentTo(U, m)
  BY DEF Answer
<1>2. /\ Blank \in State /\ elements \in State /\ user[u] \in UserRec
      /\ user[u].refused \in State /\ AtMost(user[u].refused, elements) /\ AtMost(Blank, elements)
      /\ user[u].accepted \in State /\ AtMost(user[u].accepted, elements) /\ AtMost(told[u], elements)
      /\ u \in Holders
  <2>1. u \in Holders /\ Known(u)
    BY <1>1 DEF NothingNewer, Holders
  <2>2. user[u] \in UserRec /\ elements \in State
    BY DEF Types
  <2> QED BY <2>1, <2>2, Constants, States DEF Known, UserRec
<1>3. m \in MessageRec /\ m.state = told_of /\ AtMost(told_of, elements)
  BY <1>2 DEF Message, MessageRec
<1>4. U \in SUBSET User /\ \A w \in U : user[w].pc \in {"listed", "greeted", "in", "answering"}
  BY <1>1 DEF Audience, Listed
<1>5. /\ user[u].accepted # Blank => user[u].refused = Blank /\ told_of = user[u].accepted
                                   /\ \A w \in Present \ {u} : w \in U
      /\ user[u].accepted = Blank => u \in U /\ told_of = user[u].refused
  BY DEF Calm, Audience, Listed, Present
<1> HIDE DEF m, U, told_of
<1>6. /\ inbox' \in [User -> Seq(MessageRec)]
      /\ \A w \in User \ U : inbox'[w] = inbox[w]
      /\ \A w \in U : \E i \in DOMAIN inbox'[w] : inbox'[w][i] = m
      /\ \A w \in User : \A i \in DOMAIN inbox[w] : i \in DOMAIN inbox'[w] /\ inbox'[w][i] = inbox[w][i]
      /\ \A w \in User : \A i \in DOMAIN inbox'[w] : i \notin DOMAIN inbox[w] => inbox'[w][i] = m
  <2>1. inbox \in [User -> Seq(MessageRec)]
    BY DEF Types
  <2>2. U \in SUBSET User /\ inbox' = SentTo(U, m) /\ m \in MessageRec
    BY <1>1, <1>3, <1>4
  <2>3. /\ inbox' \in [User -> Seq(MessageRec)]
        /\ \A w \in User \ U : inbox'[w] = inbox[w]
        /\ \A w \in U : \E i \in DOMAIN inbox'[w] : inbox'[w][i] = m
        /\ \A w \in User : \A i \in DOMAIN inbox[w] : i \in DOMAIN inbox'[w] /\ inbox'[w][i] = inbox[w][i]
        /\ \A w \in User : \A i \in DOMAIN inbox'[w] :
           i \notin DOMAIN inbox[w] => inbox'[w][i] = m
    BY <2>1, <2>2, SentGives
  <2> QED BY <2>3
<1>7. /\ user' \in [User -> UserRec]
      /\ \A w \in User \ {u} : user'[w] = user[w]
      /\ user'[u].pc = "in" /\ user'[u].accepted = Blank
      /\ user'[u].refused = Blank /\ user'[u].readonly = user[u].readonly
  <2> DEFINE r == [user[u] EXCEPT !.pc = "in", !.accepted = Blank, !.refused = Blank]
  <2>1. r \in UserRec /\ r.pc = "in" /\ r.accepted = Blank /\ r.refused = Blank /\ r.readonly = user[u].readonly
    BY <1>2 DEF UserRec
  <2>2. user' = [user EXCEPT ![u] = r]
    BY <1>1
  <2> HIDE DEF r
  <2> QED BY <2>1, <2>2, UserIs
<1>8. Aside(u)
  BY <1>1, <1>7 DEF Aside
<1>9. \A w \in Holders : \A i \in DOMAIN inbox'[w] : AtMost(inbox'[w][i].state, elements)
  <2> SUFFICES ASSUME NEW w \in Holders, NEW i \in DOMAIN inbox'[w]
               PROVE  AtMost(inbox'[w][i].state, elements)
    OBVIOUS
  <2>1. Known(w) /\ w \in User
    BY DEF NothingNewer, Holders
  <2>2. CASE i \in DOMAIN inbox[w]
    BY <1>6, <2>1, <2>2 DEF Known
  <2>3. CASE i \notin DOMAIN inbox[w]
    BY <1>3, <1>6, <2>1, <2>3
  <2> QED BY <2>2, <2>3
<1>10. Calm'
  <2> SUFFICES ASSUME NEW w \in User
               PROVE  /\ user'[w].pc \in {"away", "leaving"} => inbox'[w] = <<>>
                      /\ user'[w].pc # "answering" => user'[w].accepted = Blank
                      /\ user'[w].pc \notin {"greeted", "answering"} => user'[w].refused = Blank
                      /\ user'[w].accepted # Blank => user'[w].refused = Blank
    BY DEF Calm
  <2>1. CASE w = u
    BY <1>7, <2>1
  <2>2. CASE w # u
    <3>1. user'[w] = user[w] /\ (user[w].pc \in {"away", "leaving"} => w \notin U)
      BY <1>4, <1>7, <2>2
    <3> QED BY <1>6, <3>1 DEF Calm
  <2> QED BY <2>1, <2>2
<1>11. ASSUME room.loaded, NEW w \in Present', NEW e \in Element PROVE Hears(w, e)'
  <2>1. w \in User /\ w \in Present
    BY <1>1, <1>7 DEF Present
  <2>2. Hears(w, e)
    BY <1>11, <2>1, InformedIs
  <2>3. ASSUME w \in U, told_of[e] = elements[e] PROVE Hears(w, e)'
    <3>1. \E i \in DOMAIN inbox'[w] : inbox'[w][i].state[e] = elements'[e]
      BY <1>1, <1>3, <1>6, <2>3
    <3> QED BY <3>1 DEF Hears
  <2>4. CASE told[w][e] = elements[e]
    BY <1>1, <2>4 DEF Hears
  <2>5. CASE user[w].refused[e] = elements[e]
    <3>1. CASE w # u \/ user[u].refused = Blank
      BY <1>1, <1>7, <2>1, <2>5, <3>1 DEF Hears
    <3>2. CASE w = u /\ user[u].refused # Blank
      BY <1>5, <2>3, <2>5, <3>2
    <3> QED BY <3>1, <3>2
  <2>6. CASE \E i \in DOMAIN inbox[w] : inbox[w][i].state[e] = elements[e]
    <3>1. \E i \in DOMAIN inbox'[w] : inbox'[w][i].state[e] = elements'[e]
      BY <1>1, <1>6, <2>1, <2>6
    <3> QED BY <3>1 DEF Hears
  <2>7. CASE \E x \in User \ {w} : user[x].pc = "answering" /\ user[x].accepted[e] = elements[e]
    <3>1. PICK x \in User \ {w} : user[x].pc = "answering" /\ user[x].accepted[e] = elements[e]
      BY <2>7
    <3>2. CASE x # u
      <4>1. user'[x] = user[x] /\ elements' = elements
        BY <1>1, <1>7, <3>2
      <4> QED BY <3>1, <4>1 DEF Hears
    <3>3. CASE x = u /\ user[u].accepted # Blank
      BY <1>5, <2>1, <2>3, <3>1, <3>3
    <3>4. CASE x = u /\ user[u].accepted = Blank
      <4>1. elements[e] = 0
        BY <3>1, <3>4 DEF Blank
      <4>2. Known(w) /\ told[w] \in State
        BY <2>1 DEF NothingNewer, Holders, Present, Types
      <4>3. told[w][e] = 0
        BY <1>2, <4>1, <4>2, States DEF Known, AtMost
      <4> QED BY <2>4, <4>1, <4>3
    <3> QED BY <3>2, <3>3, <3>4
  <2> QED BY <2>2, <2>4, <2>5, <2>6, <2>7 DEF Hears
<1>12. AtMost(told'[u], elements) /\ told' = told /\ shows' = shows /\ shows \in [User -> State] /\ told \in [User -> State]
  BY <1>1, <1>2 DEF Types
<1>13. AtMost(user'[u].accepted, elements) /\ AtMost(user'[u].refused, elements)
  BY <1>2, <1>7
<1> HIDE DEF IInv
<1> QED BY <1>1, <1>6, <1>8, <1>9, <1>10, <1>11, <1>12, <1>13, AsideStep

LEMMA Tails ==
  ASSUME NEW s \in Seq(MessageRec), s # <<>>
  PROVE  /\ Tail(s) \in Seq(MessageRec) /\ Head(s) \in MessageRec
         /\ Head(s) = s[1] /\ 1 \in DOMAIN s
         /\ \A i \in DOMAIN s : i = 1 \/ (i - 1 \in DOMAIN Tail(s) /\ Tail(s)[i - 1] = s[i])
         /\ \A i \in DOMAIN Tail(s) : i + 1 \in DOMAIN s /\ Tail(s)[i] = s[i + 1]
OBVIOUS

LEMMA ReceiveStep ==
  ASSUME BoardBounds, IInv, NEW u \in User, Receive(u) PROVE IInv'
<1> USE DEF IInv
<1> DEFINE m == Head(inbox[u])
           new == [e \in Element |-> IF m.kind = "sync" \/ m.state[e] > 0 THEN m.state[e] ELSE shows[u][e]]
           r == [user[u] EXCEPT !.ready = @ \/ m.kind = "sync"]
<1>1. /\ inbox[u] # <<>> /\ UNCHANGED <<room, elements, doc, task, counts>>
      /\ shows' = [shows EXCEPT ![u] = new]
      /\ told' = [told EXCEPT ![u] = Newer(told[u], m.state)]
      /\ user' = [user EXCEPT ![u] = r]
      /\ inbox' = [inbox EXCEPT ![u] = Tail(inbox[u])]
  BY DEF Receive
<1>2. /\ inbox[u] \in Seq(MessageRec) /\ m \in MessageRec /\ m.state \in State
      /\ m = inbox[u][1] /\ 1 \in DOMAIN inbox[u] /\ Tail(inbox[u]) \in Seq(MessageRec)
      /\ user[u] \in UserRec /\ elements \in State /\ told[u] \in State /\ shows[u] \in State
  <2>1. inbox[u] \in Seq(MessageRec) /\ user[u] \in UserRec /\ elements \in State
        /\ told[u] \in State /\ shows[u] \in State
    BY DEF Types
  <2>2. m \in MessageRec /\ m = inbox[u][1] /\ 1 \in DOMAIN inbox[u] /\ Tail(inbox[u]) \in Seq(MessageRec)
    BY <1>1, <2>1, Tails
  <2>3. m.state \in State
    BY <2>2 DEF MessageRec
  <2> QED BY <2>1, <2>2, <2>3
<1>3. u \in Holders /\ Known(u) /\ user[u].pc # "away"
  BY <1>1 DEF NothingNewer, Holders, Calm
<1>4. AtMost(m.state, elements) /\ AtMost(told[u], elements) /\ AtMost(Newer(told[u], m.state), elements)
      /\ Newer(told[u], m.state) \in State
  <2>1. AtMost(m.state, elements) /\ AtMost(told[u], elements)
    BY <1>2, <1>3 DEF Known
  <2> QED BY <1>2, <2>1, NewerIs
<1>5. new \in State
  BY <1>2 DEF State
<1>6. r \in UserRec /\ r.pc = user[u].pc /\ r.accepted = user[u].accepted /\ r.refused = user[u].refused
      /\ r.readonly = user[u].readonly
  BY <1>2 DEF UserRec
<1> HIDE DEF m, new, r
<1>7. /\ user' \in [User -> UserRec] /\ user'[u] = r
      /\ \A w \in User \ {u} : user'[w] = user[w]
  BY <1>1, <1>6, UserIs
<1>8. /\ shows' \in [User -> State] /\ told' \in [User -> State]
      /\ told'[u] = Newer(told[u], m.state) /\ \A w \in User \ {u} : told'[w] = told[w]
      /\ inbox' \in [User -> Seq(MessageRec)] /\ inbox'[u] = Tail(inbox[u])
      /\ \A w \in User \ {u} : inbox'[w] = inbox[w]
  BY <1>1, <1>2, <1>4, <1>5 DEF Types
<1>9. Aside(u)
  BY <1>1, <1>3, <1>6, <1>7 DEF Aside
<1>10. \A w \in Holders : \A i \in DOMAIN inbox'[w] : AtMost(inbox'[w][i].state, elements)
  <2> SUFFICES ASSUME NEW w \in Holders, NEW i \in DOMAIN inbox'[w]
               PROVE  AtMost(inbox'[w][i].state, elements)
    OBVIOUS
  <2>1. Known(w) /\ w \in User
    BY DEF NothingNewer, Holders
  <2>2. CASE w # u
    BY <1>8, <2>1, <2>2 DEF Known
  <2>3. CASE w = u
    <3>1. i + 1 \in DOMAIN inbox[w] /\ inbox'[w][i] = inbox[w][i + 1]
      BY <1>1, <1>2, <1>8, <2>3, Tails
    <3> QED BY <2>1, <3>1 DEF Known
  <2> QED BY <2>2, <2>3
<1>11. Calm'
  BY <1>1, <1>3, <1>6, <1>7, <1>8 DEF Calm
<1>12. ASSUME room.loaded, NEW w \in Present', NEW e \in Element PROVE Hears(w, e)'
  <2>1. w \in User /\ w \in Present
    BY <1>6, <1>7 DEF Present
  <2>2. Hears(w, e)
    BY <1>12, <2>1, InformedIs
  <2>3. \A x \in User : user'[x].pc = user[x].pc /\ user'[x].accepted = user[x].accepted
          /\ user'[x].refused = user[x].refused
    BY <1>6, <1>7
  <2>4. CASE w # u
    <3>1. told'[w] = told[w] /\ inbox'[w] = inbox[w] /\ elements' = elements
      BY <1>1, <1>8, <2>1, <2>4
    <3> QED BY <2>1, <2>2, <2>3, <3>1, HearsStill
  <2>5. CASE w = u
    <3>1. \A a, b \in Nat : a <= elements[e] /\ b <= elements[e] /\ (a = elements[e] \/ b = elements[e])
            => (IF b > a THEN b ELSE a) = elements[e]
      BY <1>2, States
    <3>2. told'[u][e] = IF m.state[e] > told[u][e] THEN m.state[e] ELSE told[u][e]
      BY <1>2, <1>8, NewerIs
    <3>3. told[u][e] \in Nat /\ m.state[e] \in Nat /\ told[u][e] <= elements[e] /\ m.state[e] <= elements[e]
      BY <1>2, <1>4, States DEF AtMost
    <3>4. CASE told[u][e] = elements[e] \/ m.state[e] = elements[e]
      <4>1. told'[w][e] = elements'[e]
        BY <1>1, <2>5, <3>1, <3>2, <3>3, <3>4
      <4> QED BY <4>1 DEF Hears
    <3>5. CASE user[w].refused[e] = elements[e]
      BY <1>1, <2>1, <2>3, <3>5 DEF Hears
    <3>6. CASE \E i \in DOMAIN inbox[w] : inbox[w][i].state[e] = elements[e]
      <4>1. PICK i \in DOMAIN inbox[w] : inbox[w][i].state[e] = elements[e]
        BY <3>6
      <4>2. CASE i = 1
        BY <1>2, <2>5, <3>4, <4>1, <4>2
      <4>3. CASE i # 1
        <5>1. i - 1 \in DOMAIN inbox'[w] /\ inbox'[w][i - 1] = inbox[w][i]
          BY <1>1, <1>2, <1>8, <2>5, <4>1, <4>3, Tails
        <5>2. \E j \in DOMAIN inbox'[w] : inbox'[w][j].state[e] = elements'[e]
          BY <1>1, <4>1, <5>1
        <5> QED BY <5>2 DEF Hears
      <4> QED BY <4>2, <4>3
    <3>7. CASE \E x \in User \ {w} : user[x].pc = "answering" /\ user[x].accepted[e] = elements[e]
      <4>1. \E x \in User \ {w} : user'[x].pc = "answering" /\ user'[x].accepted[e] = elements'[e]
        BY <1>1, <2>3, <3>7
      <4> QED BY <4>1 DEF Hears
    <3> QED BY <2>2, <2>5, <3>4, <3>5, <3>6, <3>7 DEF Hears
  <2> QED BY <2>4, <2>5
<1>13. AtMost(told'[u], elements) /\ AtMost(user'[u].accepted, elements) /\ AtMost(user'[u].refused, elements)
  BY <1>3, <1>4, <1>6, <1>7, <1>8 DEF Known
<1> HIDE DEF IInv
<1>14. UNCHANGED counts
  BY <1>1
<1> QED BY <1>7, <1>8, <1>9, <1>10, <1>11, <1>12, <1>13, <1>14, AsideStep

LEMMA EditStep ==
  ASSUME BoardBounds, IInv, NEW u \in User, Edit(u) PROVE IInv'
<1>1. PICK e \in Element : \E v \in ((shows[u][e] + 1)..MaxVersion) \ Used(e) :
        LET edit == [Blank EXCEPT ![e] = v]
            wins == v > elements[e]
        IN /\ elements' = Committed(elements, edit)
           /\ shows' = [shows EXCEPT ![u] = Newer(@, edit)]
           /\ told' = [told EXCEPT ![u] = Newer(@, edit)]
           /\ user' = [user EXCEPT ![u].pc = "answering",
                         ![u].accepted = IF wins THEN edit ELSE Blank,
                         ![u].refused = IF wins THEN Blank ELSE [Blank EXCEPT ![e] = elements[e]]]
  BY DEF Edit
<1>0. PICK v \in ((shows[u][e] + 1)..MaxVersion) \ Used(e) :
        LET edit == [Blank EXCEPT ![e] = v]
            wins == v > elements[e]
        IN /\ elements' = Committed(elements, edit)
           /\ shows' = [shows EXCEPT ![u] = Newer(@, edit)]
           /\ told' = [told EXCEPT ![u] = Newer(@, edit)]
           /\ user' = [user EXCEPT ![u].pc = "answering",
                         ![u].accepted = IF wins THEN edit ELSE Blank,
                         ![u].refused = IF wins THEN Blank ELSE [Blank EXCEPT ![e] = elements[e]]]
  BY <1>1
<1> USE DEF IInv
<1> DEFINE edit == [Blank EXCEPT ![e] = v]
           wins == v > elements[e]
           accepted == IF wins THEN edit ELSE Blank
           refused == IF wins THEN Blank ELSE [Blank EXCEPT ![e] = elements[e]]
           r == [user[u] EXCEPT !.pc = "answering", !.accepted = accepted, !.refused = refused]
<1>2. /\ user[u].pc = "in" /\ room.loaded /\ ~user[u].readonly
      /\ UNCHANGED <<room, doc, task, inbox, counts>>
      /\ elements' = Newer(elements, edit)
      /\ shows' = [shows EXCEPT ![u] = Newer(shows[u], edit)]
      /\ told' = [told EXCEPT ![u] = Newer(told[u], edit)]
      /\ user' = [user EXCEPT ![u] = r]
  <2>1. /\ user[u].pc = "in" /\ room.loaded /\ ~user[u].readonly
        /\ UNCHANGED <<room, doc, task, inbox, counts>>
    BY DEF Edit
  <2>2. /\ elements' = Newer(elements, edit)
        /\ shows' = [shows EXCEPT ![u] = Newer(shows[u], edit)]
        /\ told' = [told EXCEPT ![u] = Newer(told[u], edit)]
        /\ user' = [user EXCEPT ![u].pc = "answering", ![u].accepted = accepted, ![u].refused = refused]
    BY <1>0 DEF Committed
  <2>3. user' = [user EXCEPT ![u] = r]
    BY <2>2
  <2> QED BY <2>1, <2>2, <2>3
<1>3. /\ Blank \in State /\ elements \in State /\ doc \in State /\ user[u] \in UserRec
      /\ shows[u] \in State /\ told[u] \in State /\ MaxVersion \in Nat
      /\ u \in Holders /\ Known(u)
  <2>1. u \in Holders /\ Known(u)
    BY <1>2 DEF NothingNewer, Holders
  <2> QED BY <2>1, Constants DEF Types
<1>4. /\ v \in 0..MaxVersion /\ elements[e] \in 0..MaxVersion
      /\ \A x \in Element : elements[x] \in Nat
      /\ edit \in State /\ edit[e] = v /\ (\A x \in Element \ {e} : edit[x] = 0)
      /\ refused \in State
      /\ wins => accepted = edit /\ refused = Blank
      /\ ~wins => accepted = Blank /\ refused[e] = elements[e] /\ (\A x \in Element \ {e} : refused[x] = 0)
  <2>1. shows[u][e] \in Nat /\ elements[e] \in 0..MaxVersion /\ (\A x \in Element : elements[x] \in Nat)
    BY <1>3, States
  <2>2. v \in 0..MaxVersion
    BY <1>3, <2>1
  <2>3. edit \in State /\ edit[e] = v /\ (\A x \in Element \ {e} : edit[x] = 0)
    BY <2>2, Single
  <2>4. [Blank EXCEPT ![e] = elements[e]] \in State
        /\ [Blank EXCEPT ![e] = elements[e]][e] = elements[e]
        /\ \A x \in Element \ {e} : [Blank EXCEPT ![e] = elements[e]][x] = 0
    BY <2>1, Single
  <2> HIDE DEF edit
  <2> QED BY <1>3, <2>1, <2>2, <2>3, <2>4
<1> HIDE DEF edit
<1>5. accepted \in State
  BY <1>3, <1>4
<1>6. r \in UserRec /\ r.pc = "answering" /\ r.accepted = accepted /\ r.refused = refused /\ r.readonly = user[u].readonly
  <2> HIDE DEF accepted, refused
  <2> QED BY <1>3, <1>4, <1>5 DEF UserRec
<1> HIDE DEF r
<1>7. /\ elements' \in State /\ AtMost(elements, elements') /\ AtMost(edit, elements')
      /\ (\A x \in Element \ {e} : elements'[x] = elements[x])
      /\ elements'[e] = (IF wins THEN v ELSE elements[e])
  <2>1. elements' \in State /\ AtMost(elements, elements')
        /\ \A x \in Element : elements'[x] = IF edit[x] > elements[x] THEN edit[x] ELSE elements[x]
    BY <1>2, <1>3, <1>4, NewerIs
  <2>2. \A x \in Element \ {e} : elements'[x] = elements[x]
    BY <1>4, <2>1
  <2>3. elements'[e] = IF wins THEN v ELSE elements[e]
    BY <1>4, <2>1
  <2>4. AtMost(edit, elements')
    BY <1>4, <2>2, <2>3 DEF AtMost
  <2> QED BY <2>1, <2>2, <2>3, <2>4
<1>8. /\ user' \in [User -> UserRec] /\ user'[u] = r
      /\ \A w \in User \ {u} : user'[w] = user[w]
  BY <1>2, <1>6, UserIs
<1>9. /\ shows' \in [User -> State] /\ told' \in [User -> State]
      /\ told'[u] = Newer(told[u], edit) /\ \A w \in User \ {u} : told'[w] = told[w]
  <2>1. Newer(shows[u], edit) \in State /\ Newer(told[u], edit) \in State
    BY <1>3, <1>4, NewerIs
  <2> QED BY <1>2, <2>1 DEF Types
<1>10. Types'
  BY <1>2, <1>7, <1>8, <1>9 DEF Types
<1>11. Holders' = Holders
  BY <1>2, <1>6, <1>8 DEF Holders
<1>12. RefsExact' /\ Unheld'
  BY <1>2, <1>11 DEF RefsExact, Unheld, At
<1>13. NothingNewer'
  <2> SUFFICES ASSUME NEW w \in Holders PROVE Known(w)'
    BY <1>11 DEF NothingNewer
  <2>1. Known(w) /\ w \in User
    BY DEF NothingNewer, Holders
  <2>2. /\ told[w] \in State /\ user[w].accepted \in State /\ user[w].refused \in State
        /\ \A i \in DOMAIN inbox[w] : inbox[w][i].state \in State
    <3>1. told[w] \in State /\ user[w] \in UserRec /\ inbox[w] \in Seq(MessageRec)
      BY <2>1 DEF Types
    <3>2. \A i \in DOMAIN inbox[w] : inbox[w][i] \in MessageRec
      BY <3>1
    <3> QED BY <3>1, <3>2 DEF UserRec, MessageRec
  <2>3. \A x \in State : AtMost(x, elements) => AtMost(x, elements')
    BY <1>3, <1>7, States
  <2>4. \A i \in DOMAIN inbox'[w] : AtMost(inbox'[w][i].state, elements')
    BY <1>2, <2>1, <2>2, <2>3 DEF Known
  <2>5. CASE w # u
    <3>1. user'[w] = user[w] /\ told'[w] = told[w]
      BY <1>8, <1>9, <2>1, <2>5
    <3>2. AtMost(told[w], elements') /\ AtMost(user[w].accepted, elements') /\ AtMost(user[w].refused, elements')
      BY <2>1, <2>2, <2>3 DEF Known
    <3> QED BY <2>4, <3>1, <3>2 DEF Known, AtMost
  <2>6. CASE w = u
    <3>1. AtMost(told[u], elements')
      BY <1>3, <2>2, <2>3, <2>6 DEF Known
    <3>2. AtMost(told'[u], elements')
      BY <1>3, <1>4, <1>7, <1>9, <3>1, NewerIs
    <3>3. AtMost(Blank, elements')
      BY <1>3, <1>7, States
    <3>4. AtMost(accepted, elements')
      BY <1>4, <1>7, <3>3
    <3>5. AtMost(refused, elements')
      <4>1. CASE wins
        BY <1>4, <3>3, <4>1
      <4>2. CASE ~wins
        <5>1. \A x \in Element : refused[x] <= elements'[x]
          BY <1>4, <1>7, <4>2
        <5> QED BY <5>1 DEF AtMost
      <4> QED BY <4>1, <4>2
    <3> QED BY <1>6, <1>8, <2>4, <2>6, <3>2, <3>4, <3>5 DEF Known, AtMost
  <2> QED BY <2>5, <2>6
<1>14. Fresh'
  BY <1>2 DEF Fresh
<1>15. Calm'
  <2>1. accepted # Blank => refused = Blank
    BY <1>4
  <2> QED BY <1>2, <1>6, <1>8, <2>1 DEF Calm
<1>16. Saving'
  <2>1. \A x \in State : AtMost(x, elements) => AtMost(x, elements')
    BY <1>3, <1>7, States
  <2>2. AtMost(doc, elements') /\ (task.pc = "put" => AtMost(task.copy, elements'))
    BY <1>2, <1>3, <2>1 DEF Saving, Types, TaskRec
  <2> QED BY <1>2, <2>2 DEF Saving, AtMost
<1>17. Unwritten'
  <2>1. ~Readers /\ ~Readers'
    BY <1>2, <1>3, <1>6, <1>8, <1>11 DEF Readers
  <2> QED BY <1>2, <2>1 DEF Unwritten, Relevant
<1>18. Informed'
  <2>1. Informed' <=> (room'.loaded => \A w \in Present' : \A x \in Element : Hears(w, x)')
    <3>1. Present' = {w \in Listed' : user'[w].pc # "listed"}
      BY DEF Present, Listed
    <3> QED BY <3>1 DEF Informed, Hears
  <2>2. ASSUME NEW w \in Present', NEW x \in Element PROVE Hears(w, x)'
    <3>1. w \in User /\ w \in Present
      BY <1>2, <1>6, <1>8 DEF Present
    <3>2. Hears(w, x)
      BY <1>2, <3>1, InformedIs
    <3>3. \A y \in User \ {w} : user[y].pc = "answering" =>
            user'[y].pc = "answering" /\ user'[y].accepted = user[y].accepted
      BY <1>2, <1>8
    <3>4. CASE x = e /\ wins
      <4>1. elements'[x] = v
        BY <1>7, <3>4
      <4>2. CASE w = u
        <5>1. told'[u][x] = v
          <6>1. told[u][e] \in Nat /\ told[u][e] <= elements[e]
            BY <1>3, States DEF Known, AtMost
          <6>2. told'[u][e] = IF edit[e] > told[u][e] THEN edit[e] ELSE told[u][e]
            BY <1>3, <1>4, <1>9, NewerIs
          <6> QED BY <1>4, <3>4, <6>1, <6>2
        <5> QED BY <4>1, <4>2, <5>1 DEF Hears
      <4>3. CASE w # u
        <5>1. user'[u].pc = "answering" /\ user'[u].accepted[x] = v
          BY <1>4, <1>6, <1>8, <3>4
        <5> QED BY <4>1, <4>3, <5>1 DEF Hears
      <4> QED BY <4>2, <4>3
    <3>5. CASE ~(x = e /\ wins)
      <4>1. elements'[x] = elements[x]
        BY <1>7, <3>5
      <4>2. CASE w # u
        <5>1. told'[w] = told[w] /\ user'[w].refused = user[w].refused /\ inbox' = inbox
          BY <1>2, <1>8, <1>9, <3>1, <4>2
        <5> QED BY <3>1, <3>2, <3>3, <4>1, <5>1, HearsStill
      <4>3. CASE w = u /\ x = e
        <5>1. user'[u].refused[x] = elements[x]
          BY <1>4, <1>6, <1>8, <3>5, <4>3
        <5> QED BY <4>1, <4>3, <5>1 DEF Hears
      <4>4. CASE w = u /\ x # e
        <5>1. user[u].refused[x] = 0 /\ refused[x] = 0
          BY <1>2, <1>3, <1>4, <4>4, States DEF Calm
        <5>2. user'[u].refused[x] = user[u].refused[x]
          BY <1>6, <1>8, <5>1
        <5>3. told'[u][x] = told[u][x]
          <6>1. told'[u][x] = IF edit[x] > told[u][x] THEN edit[x] ELSE told[u][x]
            BY <1>3, <1>4, <1>9, NewerIs
          <6>2. told[u][x] \in Nat /\ edit[x] = 0
            BY <1>3, <1>4, <4>4, States
          <6> QED BY <6>1, <6>2
        <5>4. CASE told[w][x] = elements[x] \/ user[w].refused[x] = elements[x]
          BY <4>1, <4>4, <5>2, <5>3, <5>4 DEF Hears
        <5>5. CASE \E i \in DOMAIN inbox[w] : inbox[w][i].state[x] = elements[x]
          BY <1>2, <4>1, <5>5 DEF Hears
        <5>6. CASE \E y \in User \ {w} : user[y].pc = "answering" /\ user[y].accepted[x] = elements[x]
          <6>1. \E y \in User \ {w} : user'[y].pc = "answering" /\ user'[y].accepted[x] = elements'[x]
            BY <3>3, <4>1, <5>6
          <6> QED BY <6>1 DEF Hears
        <5> QED BY <3>2, <5>4, <5>5, <5>6 DEF Hears
      <4> QED BY <4>2, <4>3, <4>4
    <3> QED BY <3>4, <3>5
  <2> QED BY <2>1, <2>2
<1> QED BY <1>10, <1>12, <1>13, <1>14, <1>15, <1>16, <1>17, <1>18

\* Steps that change neither what the users have nor the elements they are told of.
Told(U) ==
  /\ elements' = elements /\ inbox' = inbox
  /\ \A w \in U : user'[w] = user[w] /\ told'[w] = told[w]

LEMMA ToldIs ==
  ASSUME IInv, NEW U \in SUBSET User, Told(U), Holders' \cap U \subseteq Holders,
         room'.loaded => room.loaded
  PROVE  /\ \A w \in Holders' \cap U : Known(w)'
         /\ \A w \in U : user'[w].pc = user[w].pc
         /\ (\A w \in User \ U : user[w].pc # "answering" /\ user'[w].pc \notin {"greeted", "in", "answering"})
              => Informed'
<1>1. ASSUME NEW w \in Holders' \cap U PROVE Known(w)'
  <2>1. Known(w)
    BY DEF IInv, NothingNewer
  <2>2. user'[w] = user[w] /\ told'[w] = told[w] /\ elements' = elements /\ inbox' = inbox
    BY DEF Told
  <2> QED BY <2>1, <2>2 DEF Known, AtMost
<1>2. \A w \in U : user'[w].pc = user[w].pc
  BY DEF Told
<1>3. ASSUME \A w \in User \ U : user[w].pc # "answering" /\ user'[w].pc \notin {"greeted", "in", "answering"}
      PROVE  Informed'
  <2>1. Informed' <=> (room'.loaded => \A w \in Present' : \A x \in Element : Hears(w, x)')
    <3>1. Present' = {w \in Listed' : user'[w].pc # "listed"}
      BY DEF Present, Listed
    <3> QED BY <3>1 DEF Informed, Hears
  <2>2. ASSUME room'.loaded, NEW w \in Present', NEW x \in Element PROVE Hears(w, x)'
    <3>1. w \in U /\ w \in User /\ w \in Present
      BY <1>2, <1>3 DEF Present
    <3>2. Hears(w, x)
      BY <2>2, <3>1, InformedIs DEF IInv
    <3>3. \A y \in User \ {w} : user[y].pc = "answering" =>
            user'[y].pc = "answering" /\ user'[y].accepted = user[y].accepted
      BY <1>3 DEF Told
    <3>4. told'[w] = told[w] /\ user'[w].refused = user[w].refused /\ inbox' = inbox /\ elements' = elements
      BY <3>1 DEF Told
    <3> QED BY <3>1, <3>2, <3>3, <3>4, HearsStill
  <2> QED BY <2>1, <2>2
<1> QED BY <1>1, <1>2, <1>3

\* One that changes the room and its task only.
Inside == UNCHANGED <<elements, user, inbox, shows, told>>

LEMMA InsideIs ==
  ASSUME IInv, Inside, room' \in RoomRec, task' \in TaskRec, doc' \in State,
         counts' \in CountsRec,
         room'.version <= counts'.joins, room'.loaded => room.loaded
  PROVE  Types' /\ Holders' = Holders /\ NothingNewer' /\ Calm' /\ Informed' /\ (Readers' <=> Readers)
<1>1. UNCHANGED <<elements, user, inbox, shows, told>>
  BY DEF Inside
<1>2. Types'
  BY <1>1 DEF IInv, Types
<1>3. Holders' = Holders /\ Holders \subseteq User
  BY <1>1 DEF Holders
<1>4. Told(User)
  BY <1>1 DEF Told
<1>5. (\A w \in Holders' : Known(w)') /\ Informed'
  BY <1>3, <1>4, ToldIs
<1>6. Calm'
  BY <1>1 DEF IInv, Calm
<1>7. Readers' <=> Readers
  BY <1>1, <1>3 DEF Readers
<1> QED BY <1>2, <1>3, <1>5, <1>6, <1>7 DEF NothingNewer

LEMMA TaskClosesStep ==
  ASSUME BoardBounds, IInv, NEW r, TaskCloses(r), UNCHANGED <<shows, counts>> PROVE IInv'
<1> USE DEF IInv
<1>1. /\ room' \in RoomRec /\ task' \in TaskRec
      /\ RefsExact' /\ Unheld'
      /\ task'.pc \in {"none", "save"}
      /\ task'.pc = "save" => room'.loaded
      /\ room'.loaded = r.loaded
      /\ room'.version <= room.version /\ (room'.refs > 0 => room'.version = room.version)
      /\ Holders' = Holders /\ (room'.refs = 0 => Holders = {} /\ room'.loaded = FALSE)
  BY TaskClosesIs
<1>2. UNCHANGED <<elements, doc, user, inbox, shows, told, counts>> /\ (r.loaded => room.loaded)
  BY DEF TaskCloses
<1>3. doc \in State /\ counts \in CountsRec
      /\ room.version <= counts.joins /\ room.version \in Nat /\ room'.version \in Nat
      /\ counts.joins \in Nat /\ room'.refs \in Nat
  BY <1>1, Numbers DEF Types
<1>4. Inside /\ room'.version <= counts'.joins
  BY <1>1, <1>2, <1>3 DEF Inside
<1>5. Types' /\ NothingNewer' /\ Calm' /\ Informed' /\ (Readers' <=> Readers)
  BY <1>1, <1>2, <1>3, <1>4, InsideIs
<1>6. Fresh'
  BY <1>1 DEF Fresh
<1>7. Saving'
  BY <1>1, <1>2 DEF Saving, AtMost
<1>8. Unwritten'
  <2>1. CASE room'.refs = 0
    BY <1>1, <2>1 DEF Unwritten, Readers
  <2>2. CASE room'.refs # 0
    <3>1. room'.version = room.version
      BY <1>1, <1>3, <2>2
    <3> QED BY <1>1, <1>2, <1>5, <3>1 DEF Unwritten
  <2> QED BY <2>1, <2>2
<1> QED BY <1>1, <1>5, <1>6, <1>7, <1>8

LEMMA LeftStep ==
  ASSUME BoardBounds, IInv, NEW u \in User, Left(u) PROVE IInv'
<1> USE DEF IInv
<1>1. Leaves(u) /\ UNCHANGED <<elements, doc, inbox, shows, told, counts>>
      /\ user[u].pc = "leaving" /\ user' = [user EXCEPT ![u] = Away]
  BY DEF Left, Leaves, clients
<1>2. /\ room' \in RoomRec /\ task' \in TaskRec
      /\ RefsExact' /\ Unheld' /\ Holders' = Holders \ {u}
      /\ task' = task \/ task'.pc = "none" \/ (task'.pc = "save" /\ room'.loaded)
      /\ room'.loaded = room.loaded
      /\ room'.version <= room.version /\ (room'.refs > 0 => room'.version = room.version)
      /\ task'.pc \notin {"none", "save"} => room'.refs > 0
  BY <1>1, LeavesIs
<1>3. /\ user' \in [User -> UserRec] /\ user'[u] = Away
      /\ \A w \in User \ {u} : user'[w] = user[w]
  BY <1>1, Constants, UserIs
<1>4. /\ room.version \in Nat /\ room'.version \in Nat /\ counts.joins \in Nat /\ room'.refs \in Nat
      /\ room.version <= counts.joins
  BY <1>2, Numbers DEF Types
<1>5. Types'
  BY <1>1, <1>2, <1>3, <1>4 DEF Types
<1>6. Told(User \ {u}) /\ Holders' \cap (User \ {u}) = Holders' /\ Holders' \subseteq Holders
  BY <1>1, <1>2, <1>3 DEF Told, Holders
<1>7. Away.pc = "away" /\ Away.accepted = Blank /\ Away.refused = Blank
  BY DEF Away
<1>8. (\A w \in Holders' : Known(w)') /\ Informed'
  <2>1. \A w \in User \ (User \ {u}) : user[w].pc # "answering" /\ user'[w].pc \notin {"greeted", "in", "answering"}
    BY <1>1, <1>3, <1>7
  <2>2. User \ {u} \in SUBSET User
    OBVIOUS
  <2> QED BY <1>2, <1>6, <2>1, <2>2, ToldIs
<1>9. NothingNewer'
  BY <1>8 DEF NothingNewer
<1>10. Fresh'
  BY <1>1, <1>2 DEF Fresh
<1>11. Calm'
  BY <1>1, <1>3, <1>7 DEF Calm
<1>12. Readers => Readers'
  BY <1>3, <1>6 DEF Readers, Holders
<1>13. room'.refs = 0 => room' = NoRoom /\ Readers'
  <2>1. IsFiniteSet(Holders \ {u}) /\ Cardinality(Holders \ {u}) \in Nat
    BY Counted, FS_Subset, FS_CardinalityType
  <2>2. room'.refs = Cardinality(Holders') + (IF task'.pc = "none" THEN 0 ELSE 1)
    BY <1>2 DEF RefsExact, At
  <2>3. room'.refs = 0 => Cardinality(Holders \ {u}) = 0
    BY <1>2, <2>1, <2>2
  <2>4. room'.refs = 0 => Holders' = {}
    BY <1>2, <2>1, <2>3, FS_EmptySet
  <2> QED BY <1>2, <2>4 DEF Readers, Unheld
<1>14. Saving'
  <2>1. task' = task /\ task'.pc \in {"copy", "put", "saved"} => room'.version = room.version
    BY <1>2
  <2> QED BY <1>1, <1>2, <2>1 DEF Saving, AtMost
<1>15. Unwritten'
  <2>1. room'.version = 0 => Readers' /\ (room'.loaded => elements' = doc')
    <3>1. CASE room'.refs = 0
      BY <1>13, <3>1 DEF NoRoom
    <3>2. CASE room'.refs # 0
      <4>1. room'.version = room.version
        BY <1>2, <1>4, <3>2
      <4> QED BY <1>1, <1>2, <1>12, <4>1 DEF Unwritten
    <3> QED BY <3>1, <3>2
  <2>2. task'.pc \in {"copy", "put", "saved"} => task' = task /\ room'.version = room.version
    BY <1>2
  <2> QED BY <1>1, <1>12, <2>1, <2>2 DEF Unwritten, Relevant
<1> QED BY <1>2, <1>5, <1>8, <1>9, <1>10, <1>11, <1>14, <1>15

LEMMA JoinStep ==
  ASSUME BoardBounds, IInv, NEW u \in User, NEW readonly \in BOOLEAN, Join(u, readonly) PROVE IInv'
<1> USE DEF IInv
<1> DEFINE r == [Away EXCEPT !.pc = "opened", !.readonly = readonly]
<1>1. /\ user[u].pc = "away" /\ counts.joins < MaxJoins
      /\ counts' = [counts EXCEPT !.joins = counts.joins + 1]
      /\ room' = [room EXCEPT !.refs = IF room.refs = 0 THEN 2 ELSE room.refs + 1,
                              !.version = IF readonly THEN room.version ELSE room.version + 1]
      /\ task' = IF room.refs = 0 THEN [NoTask EXCEPT !.pc = "load"] ELSE task
      /\ elements' = IF room.refs = 0 THEN Blank ELSE elements
      /\ user' = [user EXCEPT ![u] = r]
      /\ shows' = [shows EXCEPT ![u] = Blank] /\ told' = [told EXCEPT ![u] = Blank]
      /\ UNCHANGED <<doc, inbox>>
  BY DEF Join
<1>2. /\ Blank \in State /\ elements \in State /\ room \in RoomRec /\ task \in TaskRec
      /\ room.refs \in Nat /\ room.version \in Nat /\ room.version <= counts.joins
      /\ counts.joins \in Nat /\ MaxJoins \in Nat
  BY Constants, Numbers DEF Types
<1>3. /\ r \in UserRec /\ r.pc = "opened" /\ r.readonly = readonly /\ r.accepted = Blank
      /\ r.refused = Blank
  BY Constants DEF Away, UserRec
<1> HIDE DEF r
<1>4. /\ user' \in [User -> UserRec] /\ user'[u] = r
      /\ \A w \in User \ {u} : user'[w] = user[w]
  BY <1>1, <1>3, UserIs
<1>5. /\ room' \in RoomRec
      /\ room'.refs = (IF room.refs = 0 THEN 2 ELSE room.refs + 1)
      /\ room'.version = (IF readonly THEN room.version ELSE room.version + 1)
      /\ room'.loaded = room.loaded
      /\ counts' \in CountsRec
      /\ room'.version <= counts'.joins
  <2> DEFINE refs == IF room.refs = 0 THEN 2 ELSE room.refs + 1
             version == IF readonly THEN room.version ELSE room.version + 1
  <2>1. refs \in Nat /\ version \in 0..MaxJoins /\ version <= counts.joins + 1
    BY <1>1, <1>2
  <2>2. room' = [room EXCEPT !.refs = refs, !.version = version]
    BY <1>1
  <2>3. /\ counts' \in CountsRec
        /\ counts'.joins = counts.joins + 1
    BY <1>1, Counters DEF Types
  <2>4. refs = (IF room.refs = 0 THEN 2 ELSE room.refs + 1)
        /\ version = (IF readonly THEN room.version ELSE room.version + 1)
    OBVIOUS
  <2> HIDE DEF refs, version
  <2>5. room' \in RoomRec /\ room'.refs = refs /\ room'.version = version /\ room'.loaded = room.loaded
    BY <1>2, <2>1, <2>2 DEF RoomRec
  <2> QED BY <2>1, <2>3, <2>4, <2>5
<1>6. /\ room.refs = 0 => task' \in TaskRec /\ task'.pc = "load" /\ elements' = Blank
      /\ room.refs # 0 => task' = task /\ elements' = elements
  BY <1>1, Constants DEF NoTask, TaskRec
<1>7. /\ shows' \in [User -> State] /\ told' \in [User -> State] /\ told'[u] = Blank
      /\ \A w \in User \ {u} : told'[w] = told[w]
  BY <1>1, <1>2 DEF Types
<1>8. Types'
  BY <1>1, <1>2, <1>4, <1>5, <1>6, <1>7 DEF Types
<1>9. u \notin Holders /\ Holders' = Holders \union {u} /\ Holders' \cap (User \ {u}) = Holders
      /\ inbox[u] = <<>>
  BY <1>1, <1>3, <1>4 DEF Holders, Calm
<1>10. RefsExact'
  <2>1. Cardinality(Holders)' = Cardinality(Holders) + 1 /\ Cardinality(Holders) \in Nat
    BY <1>9, OneMore, Counted
  <2>2. CASE room.refs = 0
    <3>1. Cardinality(Holders) = 0
      BY <2>2, Exact, FS_EmptySet
    <3> QED BY <1>5, <1>6, <2>1, <2>2, <3>1 DEF RefsExact, At
  <2>3. CASE room.refs # 0
    BY <1>2, <1>5, <1>6, <2>1, <2>3 DEF RefsExact, At
  <2> QED BY <2>2, <2>3
<1>11. Unheld'
  BY <1>2, <1>5 DEF Unheld
<1>12. room.refs = 0 => ~room.loaded /\ Holders = {} /\ room.version = 0
  BY Exact DEF Unheld, NoRoom
<1>13. NothingNewer'
  <2>1. Known(u)'
    <3>1. elements' \in State
      BY <1>2, <1>6
    <3>2. AtMost(Blank, elements')
      BY <1>2, <3>1, States
    <3>3. \A i \in DOMAIN inbox'[u] : FALSE
      BY <1>1, <1>9
    <3> QED BY <1>3, <1>4, <1>7, <3>2, <3>3 DEF Known, AtMost
  <2>2. ASSUME NEW w \in Holders PROVE Known(w)'
    <3>1. room.refs # 0 /\ w \in User \ {u} /\ Known(w)
      BY <1>9, <1>12 DEF NothingNewer, Holders
    <3>2. user'[w] = user[w] /\ told'[w] = told[w] /\ inbox' = inbox /\ elements' = elements
      BY <1>1, <1>4, <1>6, <1>7, <3>1
    <3> QED BY <3>1, <3>2 DEF Known, AtMost
  <2> QED BY <1>9, <2>1, <2>2 DEF NothingNewer
<1>14. Fresh'
  BY <1>5, <1>6, <1>12 DEF Fresh
<1>15. Calm'
  BY <1>1, <1>3, <1>4 DEF Calm
<1>16. Saving'
  <2>1. room'.version >= room.version
    BY <1>2, <1>5
  <2>2. CASE room.refs = 0
    BY <1>5, <1>6, <1>12, <2>2 DEF Saving
  <2>3. CASE room.refs # 0
    <3>1. task.version \in Nat
      BY <1>2, Constants DEF TaskRec
    <3>2. task' = task /\ elements' = elements /\ doc' = doc
      BY <1>1, <1>6, <2>3
    <3> QED BY <1>2, <1>5, <2>1, <3>1, <3>2 DEF Saving, AtMost
  <2> QED BY <2>2, <2>3
<1>17. readonly /\ Readers => Readers'
  <2>1. \A w \in Holders' : w = u \/ (w \in Holders /\ w \in User \ {u})
    BY <1>9 DEF Holders
  <2> QED BY <1>3, <1>4, <2>1 DEF Readers
<1>18. Unwritten'
  <2>1. CASE room.refs = 0
    <3>1. Readers
      BY <1>12, <2>1 DEF Readers
    <3>2. room'.version = 0 => readonly
      BY <1>2, <1>5
    <3> QED BY <1>5, <1>6, <1>12, <1>17, <2>1, <3>1, <3>2 DEF Unwritten
  <2>2. CASE room.refs # 0
    <3>1. task' = task /\ elements' = elements /\ doc' = doc /\ task.version \in Nat
      BY <1>1, <1>2, <1>6, <2>2, Constants DEF TaskRec
    <3>2. CASE readonly
      <4>1. room'.version = room.version
        BY <1>5, <3>2
      <4> QED BY <1>5, <1>17, <3>1, <3>2, <4>1 DEF Unwritten, Relevant
    <3>3. CASE ~readonly
      <4>1. room'.version # 0 /\ (task.pc \in {"copy", "put", "saved"} => room'.version # task.version)
        BY <1>2, <1>5, <3>1, <3>3 DEF Saving
      <4> QED BY <3>1, <4>1 DEF Unwritten, Relevant
    <3> QED BY <3>2, <3>3
  <2> QED BY <2>1, <2>2
<1>19. Informed'
  <2>1. CASE room.refs = 0
    BY <1>5, <1>12, <2>1 DEF Informed
  <2>2. CASE room.refs # 0
    <3>1. Told(User \ {u})
      BY <1>1, <1>4, <1>6, <1>7, <2>2 DEF Told
    <3>2. \A w \in User \ (User \ {u}) : user[w].pc # "answering" /\ user'[w].pc \notin {"greeted", "in", "answering"}
      BY <1>1, <1>3, <1>4
    <3>3. User \ {u} \in SUBSET User
      OBVIOUS
    <3>4. Holders' \cap (User \ {u}) \subseteq Holders /\ (room'.loaded => room.loaded)
      BY <1>5, <1>9
    <3> QED BY <3>1, <3>2, <3>3, <3>4, ToldIs
  <2> QED BY <2>1, <2>2
<1> QED BY <1>8, <1>10, <1>11, <1>13, <1>14, <1>15, <1>16, <1>18, <1>19

LEMMA LoadStep ==
  ASSUME BoardBounds, IInv, Load PROVE IInv'
<1> USE DEF IInv
<1>1. task.pc = "load" /\ UNCHANGED <<elements, doc, user, inbox, shows, told, counts>>
  BY DEF Load, At, clients
<1>2. room \in RoomRec /\ task \in TaskRec /\ room.loaded \in BOOLEAN
  BY DEF Types, RoomRec
<1>3. CASE room.refs = 1
  <2>1. CloseRoom(room, task)
    BY <1>3 DEF Load
  <2>2. Closed(room, task) = Closed(room, NoTask)
    BY <1>3 DEF Closed
  <2>3. TaskCloses(room)
    BY <1>1, <1>2, <2>1, <2>2 DEF TaskCloses, CloseRoom, At
  <2> HIDE DEF IInv
  <2> QED BY <1>1, <2>3, TaskClosesStep
<1>4. CASE room.refs # 1
  <2>1. room' = room /\ task' = [task EXCEPT !.pc = "read"]
    BY <1>4 DEF Load
  <2>2. task' \in TaskRec /\ task'.pc = "read"
    BY <1>2, <2>1 DEF TaskRec
  <2>3. Types' /\ Holders' = Holders /\ NothingNewer' /\ Calm' /\ Informed' /\ (Readers' <=> Readers)
    BY <1>1, <1>2, <2>1, <2>2, InsideIs DEF Inside, Types
  <2>4. RefsExact' /\ Unheld'
    BY <1>1, <2>1, <2>2, <2>3 DEF RefsExact, Unheld, At
  <2>5. Fresh'
    BY <1>1, <2>1 DEF Fresh
  <2>6. Saving' /\ Unwritten'
    BY <1>1, <2>1, <2>2, <2>3 DEF Saving, Unwritten, AtMost
  <2> QED BY <2>3, <2>4, <2>5, <2>6
<1> QED BY <1>3, <1>4

LEMMA CloseTaskStep ==
  ASSUME BoardBounds, IInv, CloseTask PROVE IInv'
<1>1. TaskCloses(room)
  BY DEF CloseTask, TaskCloses, At, clients, IInv, Types
<1> QED BY <1>1, TaskClosesStep DEF CloseTask, clients

\* A step of a task that goes on.
LEMMA GoesOn ==
  ASSUME BoardBounds, IInv, Inside, room' = room, NEW pc \in {"close", "copy", "put", "saved"},
         ~At("none"), task'.pc = pc, task' \in TaskRec, doc' \in State,
         counts' \in CountsRec, counts'.joins = counts.joins,
         Saving', Unwritten'
  PROVE  IInv'
<1>1. room \in RoomRec /\ room.version <= counts'.joins
  BY DEF IInv, Types
<1>2. Types' /\ Holders' = Holders /\ NothingNewer' /\ Calm' /\ Informed'
  BY <1>1, InsideIs
<1>3. RefsExact' /\ Unheld' /\ Fresh'
  BY <1>2 DEF IInv, RefsExact, Unheld, Fresh, At
<1> QED BY <1>2, <1>3 DEF IInv

LEMMA FailStep ==
  ASSUME BoardBounds, IInv, LoadFails \/ SaveFails PROVE IInv'
<1>1. /\ Inside /\ room' = room /\ doc' = doc /\ task' = [task EXCEPT !.pc = "close"] /\ ~At("none")
      /\ counts' = [counts EXCEPT !.faults = @ + 1]
  BY DEF LoadFails, SaveFails, Inside, Fault, At, clients
<1>2. task' \in TaskRec /\ task'.pc = "close"
  BY <1>1 DEF IInv, Types, TaskRec
<1>3. doc' \in State /\ counts' \in CountsRec
      /\ counts'.joins = counts.joins
  BY <1>1, Counters DEF IInv, Types
<1>4. elements' = elements /\ (Readers' <=> Readers)
  BY <1>1 DEF Inside, Readers, Holders
<1>5. Saving' /\ Unwritten'
  BY <1>1, <1>2, <1>4 DEF IInv, Saving, Unwritten, AtMost
<1> QED BY <1>1, <1>2, <1>3, <1>5, GoesOn

LEMMA CopyStep ==
  ASSUME BoardBounds, IInv, Copy PROVE IInv'
<1>1. /\ Inside /\ room' = room /\ UNCHANGED <<doc, elements, counts>> /\ task.pc = "copy"
      /\ task' = [task EXCEPT !.pc = "put", !.copy = elements]
  BY DEF Copy, Inside, At, clients
<1>2. elements \in State /\ task \in TaskRec
  BY DEF IInv, Types
<1>3. task' \in TaskRec /\ task'.pc = "put" /\ task'.copy = elements /\ task'.version = task.version
  BY <1>1, <1>2 DEF TaskRec
<1>4. Readers' <=> Readers
  BY <1>1 DEF Inside, Readers, Holders
<1>5. AtMost(elements, elements)
  BY <1>2, States
<1>6. Saving'
  BY <1>1, <1>3, <1>5 DEF IInv, Saving, AtMost
<1>7. Unwritten'
  BY <1>1, <1>3, <1>4 DEF IInv, Unwritten, Relevant
<1>8. doc' \in State /\ counts' \in CountsRec
      /\ counts'.joins = counts.joins /\ ~At("none")
  BY <1>1 DEF IInv, Types, At
<1> QED BY <1>1, <1>3, <1>6, <1>7, <1>8, GoesOn

LEMMA PutStep ==
  ASSUME BoardBounds, IInv, Put PROVE IInv'
<1>1. /\ Inside /\ room' = room /\ UNCHANGED <<elements, counts>> /\ task.pc = "put"
      /\ task' = [task EXCEPT !.pc = "saved"] /\ doc' = task.copy
  BY DEF Put, Inside, At, clients
<1>2. task \in TaskRec /\ room \in RoomRec /\ MaxJoins \in Nat
  BY Constants DEF IInv, Types
<1>3. task' \in TaskRec /\ task'.pc = "saved" /\ task'.copy = task.copy /\ task'.version = task.version
      /\ task.copy \in State /\ task.version \in Nat /\ room.version \in Nat
  BY <1>1, <1>2 DEF TaskRec, RoomRec
<1>4. Readers' <=> Readers
  BY <1>1 DEF Inside, Readers, Holders
<1>5. Saving'
  BY <1>1, <1>3 DEF IInv, Saving, AtMost
<1>6. room.version # 0
  BY <1>1, <1>3 DEF IInv, Saving
<1>7. Unwritten'
  BY <1>1, <1>3, <1>4, <1>6 DEF IInv, Unwritten, Relevant
<1>8. doc' \in State /\ counts' \in CountsRec
      /\ counts'.joins = counts.joins /\ ~At("none")
  BY <1>1, <1>3 DEF IInv, Types, At
<1> QED BY <1>1, <1>3, <1>5, <1>7, <1>8, GoesOn

LEMMA SaveStep ==
  ASSUME BoardBounds, IInv, Save PROVE IInv'
<1>1. task.pc = "save" /\ UNCHANGED <<elements, doc, user, inbox, shows, told, counts>> /\ ~At("none")
  BY DEF Save, At, clients
<1>2. room \in RoomRec /\ task \in TaskRec /\ room.loaded \in BOOLEAN /\ room.version \in Nat
      /\ room.version \in 0..MaxJoins
  BY Constants DEF IInv, Types, RoomRec
<1>3. CASE room.refs # 1
  <2>1. TaskCloses(room)
    BY <1>1, <1>2, <1>3 DEF Save, TaskCloses
  <2> QED BY <1>1, <2>1, TaskClosesStep
<1>4. CASE room.refs = 1 /\ room.version = 0
  <2> DEFINE r == [room EXCEPT !.loaded = FALSE]
  <2>1. r \in RoomRec /\ r.refs = room.refs /\ r.version = room.version /\ r.loaded = FALSE
    BY <1>2 DEF RoomRec
  <2>2. CloseRoom(r, NoTask)
    BY <1>4 DEF Save
  <2> HIDE DEF r
  <2>3. TaskCloses(r)
    BY <1>1, <2>1, <2>2 DEF TaskCloses
  <2> QED BY <1>1, <2>3, TaskClosesStep
<1>5. CASE room.refs = 1 /\ room.version # 0
  <2>1. room' = room /\ task' = [task EXCEPT !.pc = "copy", !.version = room.version]
    BY <1>5 DEF Save
  <2>2. task' \in TaskRec /\ task'.pc = "copy" /\ task'.version = room.version
    BY <1>2, <2>1 DEF TaskRec
  <2>3. Holders = {} /\ Readers'
    <3>1. Holders = {}
      BY <1>1, <1>5, Exact DEF IInv
    <3> QED BY <1>1, <3>1 DEF Readers, Holders
  <2>4. Saving'
    BY <1>1, <1>2, <1>5, <2>1, <2>2 DEF IInv, Saving, AtMost
  <2>5. Unwritten'
    BY <1>1, <1>5, <2>1, <2>2, <2>3 DEF IInv, Unwritten, Relevant
  <2>6. doc' \in State /\ counts' \in CountsRec
        /\ counts'.joins = counts.joins /\ Inside
    BY <1>1 DEF IInv, Types, Inside
  <2> QED BY <1>1, <2>1, <2>2, <2>4, <2>5, <2>6, GoesOn
<1> QED BY <1>3, <1>4, <1>5

LEMMA SavedStep ==
  ASSUME BoardBounds, IInv, Saved PROVE IInv'
<1> DEFINE r == IF Relevant THEN [room EXCEPT !.loaded = FALSE] ELSE room
<1>1. ~At("none") /\ UNCHANGED <<elements, doc, user, inbox, shows, told, counts>> /\ CloseRoom(r, NoTask)
  BY DEF Saved, At, clients
<1>2. room \in RoomRec
  BY DEF IInv, Types
<1>3. r \in RoomRec /\ r.refs = room.refs /\ r.version = room.version /\ (r.loaded => room.loaded)
  <2>1. [room EXCEPT !.loaded = FALSE] \in RoomRec /\ [room EXCEPT !.loaded = FALSE].refs = room.refs
        /\ [room EXCEPT !.loaded = FALSE].version = room.version
        /\ [room EXCEPT !.loaded = FALSE].loaded = FALSE
    BY <1>2 DEF RoomRec
  <2> QED BY <1>2, <2>1
<1> HIDE DEF r
<1>4. TaskCloses(r)
  BY <1>1, <1>3 DEF TaskCloses
<1> QED BY <1>1, <1>4, TaskClosesStep

LEMMA LoadedStep ==
  ASSUME BoardBounds, IInv, Loaded PROVE IInv'
<1> USE DEF IInv
<1> DEFINE m == Message("sync", doc)
<1>1. /\ task.pc = "read" /\ UNCHANGED <<doc, user, shows, told, counts>> /\ elements' = doc
      /\ room' = [room EXCEPT !.loaded = TRUE] /\ task' = [task EXCEPT !.pc = "close"]
      /\ inbox' = SentTo(Listed, m)
  BY DEF Loaded, At
<1>2. /\ room \in RoomRec /\ task \in TaskRec /\ doc \in State /\ Blank \in State
      /\ inbox \in [User -> Seq(MessageRec)] /\ elements = Blank
  BY <1>1, Constants DEF Types, Fresh
<1>3. /\ room' \in RoomRec /\ room'.refs = room.refs /\ room'.version = room.version /\ room'.loaded
      /\ task' \in TaskRec /\ task'.pc = "close"
  BY <1>1, <1>2 DEF RoomRec, TaskRec
<1>4. m \in MessageRec /\ m.state = doc
  BY <1>2 DEF Message, MessageRec
<1>5. Listed \in SUBSET User
  BY DEF Listed
<1> HIDE DEF m
<1>6. /\ inbox' \in [User -> Seq(MessageRec)]
      /\ \A w \in User \ Listed : inbox'[w] = inbox[w]
      /\ \A w \in Listed : \E i \in DOMAIN inbox'[w] : inbox'[w][i] = m
      /\ \A w \in User : \A i \in DOMAIN inbox[w] : i \in DOMAIN inbox'[w] /\ inbox'[w][i] = inbox[w][i]
      /\ \A w \in User : \A i \in DOMAIN inbox'[w] : i \notin DOMAIN inbox[w] => inbox'[w][i] = m
  <2>1. inbox' = SentTo(Listed, m)
    BY <1>1
  <2> HIDE DEF IInv
  <2> QED BY <1>2, <1>4, <1>5, <2>1, SentGives
<1>7. Types'
  BY <1>1, <1>2, <1>3, <1>6 DEF Types
<1>8. Holders' = Holders /\ Listed' = Listed /\ (Readers' <=> Readers)
  BY <1>1 DEF Holders, Listed, Readers
<1>9. RefsExact' /\ Unheld' /\ Fresh'
  <2>1. room.refs # 0
    BY <1>1, Exact
  <2> QED BY <1>1, <1>3, <1>8, <2>1 DEF RefsExact, Unheld, Fresh, At
<1>10. ASSUME NEW w \in Holders PROVE Known(w)'
  <2>1. Known(w) /\ w \in User
    BY DEF NothingNewer, Holders
  <2>2. /\ told[w] \in State /\ user[w] \in UserRec /\ inbox[w] \in Seq(MessageRec)
    BY <2>1 DEF Types
  <2>3. \A x \in State : AtMost(x, elements) => AtMost(x, doc)
    BY <1>2, States
  <2>4. AtMost(told[w], doc) /\ AtMost(user[w].accepted, doc) /\ AtMost(user[w].refused, doc)
    BY <2>1, <2>2, <2>3 DEF Known, UserRec
  <2>5. \A i \in DOMAIN inbox[w] : AtMost(inbox[w][i].state, doc)
    <3>1. \A i \in DOMAIN inbox[w] : inbox[w][i] \in MessageRec
      BY <2>2
    <3> QED BY <2>1, <2>3, <3>1 DEF Known, MessageRec
  <2>6. AtMost(doc, doc)
    BY <1>2, States
  <2>7. \A i \in DOMAIN inbox'[w] : AtMost(inbox'[w][i].state, doc)
    BY <1>4, <1>6, <2>1, <2>5, <2>6
  <2> QED BY <1>1, <2>4, <2>7 DEF Known, AtMost
<1>11. NothingNewer'
  BY <1>8, <1>10 DEF NothingNewer
<1>12. Calm'
  BY <1>1, <1>6 DEF Calm, Listed
<1>13. Saving' /\ Unwritten'
  <2>1. AtMost(doc, doc)
    BY <1>2, States
  <2> QED BY <1>1, <1>3, <1>8, <2>1 DEF Saving, Unwritten, AtMost
<1>14. Informed'
  <2>1. \A w \in Listed, e \in Element : \E i \in DOMAIN inbox'[w] : inbox'[w][i].state[e] = elements'[e]
    BY <1>1, <1>4, <1>6
  <2> QED BY <1>8, <2>1 DEF Informed
<1> QED BY <1>7, <1>9, <1>11, <1>12, <1>13, <1>14

LEMMA CrashStep ==
  ASSUME BoardBounds, IInv, Crash PROVE IInv'
<1> USE DEF IInv
<1>1. /\ counts' = [counts EXCEPT !.crashes = @ + 1] /\ room' = NoRoom /\ task' = NoTask
      /\ user' = [u \in User |-> Away] /\ inbox' = [u \in User |-> <<>>]
      /\ UNCHANGED <<elements, doc, shows, told>>
  BY DEF Crash
<1>2. room'.version = 0 /\ room'.refs = 0 /\ room'.loaded = FALSE /\ task'.pc = "none"
      /\ Away.pc = "away" /\ Away.accepted = Blank /\ Away.refused = Blank
  BY <1>1 DEF NoRoom, NoTask, Away
<1>3. Types'
  <2>1. counts' \in CountsRec /\ counts'.joins = counts.joins
        /\ counts.joins \in Nat
    BY <1>1, Counters DEF Types
  <2>2. room'.version <= counts'.joins
    BY <1>2, <2>1
  <2> QED BY <1>1, <2>1, <2>2, Constants DEF Types
<1>4. Holders' = {}
  BY <1>1, <1>2 DEF Holders
<1>5. RefsExact' /\ Unheld'
  BY <1>1, <1>2, <1>4, FS_EmptySet DEF RefsExact, Unheld, At
<1>6. NothingNewer' /\ Readers'
  BY <1>4 DEF NothingNewer, Readers
<1>7. Fresh' /\ Saving'
  BY <1>2 DEF Fresh, Saving
<1>8. Calm'
  BY <1>1, <1>2 DEF Calm
<1>9. Unwritten' /\ Informed'
  BY <1>2, <1>6 DEF Unwritten, Informed
<1> QED BY <1>3, <1>5, <1>6, <1>7, <1>8, <1>9
-----------------------------------------------------------------------------
LEMMA InitIInv == ASSUME BoardBounds PROVE Init => IInv
<1> SUFFICES ASSUME Init PROVE IInv
  OBVIOUS
<1>1. /\ room = NoRoom /\ elements = Blank /\ doc = Blank /\ task = NoTask
      /\ user = [u \in User |-> Away] /\ inbox = [u \in User |-> <<>>]
      /\ shows = [u \in User |-> Blank] /\ told = [u \in User |-> Blank]
      /\ counts = [joins |-> 0, faults |-> 0, crashes |-> 0]
  BY DEF Init
<1>2. room.version = 0 /\ room.refs = 0 /\ room.loaded = FALSE /\ task.pc = "none"
      /\ Away.pc = "away" /\ Away.accepted = Blank /\ Away.refused = Blank
  BY <1>1 DEF NoRoom, NoTask, Away
<1>3. Types
  BY <1>1, <1>2, Constants DEF Types, CountsRec
<1>4. Holders = {}
  BY <1>1, <1>2 DEF Holders
<1>5. RefsExact /\ Unheld
  BY <1>1, <1>2, <1>4, FS_EmptySet DEF RefsExact, Unheld, At
<1>6. NothingNewer /\ Readers
  BY <1>4 DEF NothingNewer, Readers
<1>7. Fresh /\ Saving
  BY <1>2 DEF Fresh, Saving
<1>8. Calm
  BY <1>1, <1>2 DEF Calm
<1>9. Unwritten /\ Informed
  BY <1>2, <1>6 DEF Unwritten, Informed
<1> QED BY <1>3, <1>5, <1>6, <1>7, <1>8, <1>9 DEF IInv

LEMMA NextIInv == ASSUME BoardBounds, IInv, [Next]_vars PROVE IInv'
<1>1. CASE Task
  BY <1>1, LoadStep, LoadedStep, FailStep, CloseTaskStep, SaveStep, CopyStep, PutStep, SavedStep DEF Task
<1>2. CASE Crash
  BY <1>2, CrashStep
<1>3. ASSUME NEW u \in User, Session(u) PROVE IInv'
  BY <1>3, EnterListStep, GreetStep, SendGreetingStep, AnswerStep, LeftStep DEF Session
<1>4. ASSUME NEW u \in User, Edit(u) \/ Leave(u) \/ Receive(u) PROVE IInv'
  BY <1>4, EditStep, LeaveStep, ReceiveStep
<1>5. ASSUME NEW u \in User, NEW readonly \in BOOLEAN, Join(u, readonly) PROVE IInv'
  BY <1>5, JoinStep
<1>6. CASE UNCHANGED vars
  BY <1>6 DEF vars, clients, IInv, Types, RefsExact, Unheld, NothingNewer, Known, Fresh, Calm, Saving,
              Unwritten, Relevant, Readers, Informed, Holders, Listed, At, AtMost
<1> QED BY <1>1, <1>2, <1>3, <1>4, <1>5, <1>6 DEF Next

-----------------------------------------------------------------------------
(* The board that a whiteboard is to everybody else.                       *)

Seen == IF room.loaded THEN elements ELSE doc

Same == Seen' = Seen /\ doc' = doc /\ counts'.crashes = counts.crashes

LEMMA SameIs == ASSUME Same PROVE [B!Next]_<<Seen, doc, counts.crashes>>
BY DEF Same

\* A room that is closed for what is stored shows what is stored.
LEMMA ClosesSame ==
  ASSUME BoardBounds, IInv, NEW r, TaskCloses(r), counts' = counts,
         r.loaded = room.loaded \/ (room.loaded => elements = doc)
  PROVE  Same
<1>1. room'.loaded = r.loaded /\ (r.loaded => room.loaded) /\ elements' = elements /\ doc' = doc
  BY TaskClosesIs DEF IInv, TaskCloses
<1>2. CASE r.loaded = room.loaded
  BY <1>1, <1>2 DEF Same, Seen
<1>3. CASE room.loaded => elements = doc
  BY <1>1, <1>3 DEF Same, Seen
<1> QED BY <1>2, <1>3

LEMMA TaskShows ==
  ASSUME BoardBounds, IInv, Task PROVE [B!Next]_<<Seen, doc, counts.crashes>>
<1>1. room \in RoomRec /\ task \in TaskRec /\ elements \in State /\ doc \in State /\ counts \in CountsRec
  BY DEF IInv, Types
<1>2. CASE Load
  <2>1. /\ elements' = elements /\ doc' = doc /\ counts' = counts /\ room'.loaded = room.loaded
    <3>1. CASE room.refs = 1
      <4>1. room' = Closed(room, task).room /\ room.refs > 0
        BY <1>2, <3>1 DEF Load, CloseRoom
      <4> QED BY <1>1, <1>2, <4>1, ClosedIs DEF Load
    <3>2. CASE room.refs # 1
      BY <1>2, <3>2 DEF Load
    <3> QED BY <3>1, <3>2
  <2> QED BY <2>1, SameIs DEF Same, Seen
<1>3. CASE CloseTask
  <2>1. TaskCloses(room) /\ counts' = counts
    BY <1>1, <1>3 DEF CloseTask, TaskCloses, At, clients
  <2> QED BY <2>1, ClosesSame, SameIs
<1>4. CASE Loaded
  <2>1. ~room.loaded /\ room'.loaded /\ elements' = doc /\ doc' = doc /\ counts' = counts
    BY <1>1, <1>4 DEF IInv, Fresh, Loaded, At, RoomRec
  <2> QED BY <2>1, SameIs DEF Same, Seen
<1>5. CASE Save
  <2>1. ~At("none") /\ UNCHANGED <<elements, doc, user, inbox, shows, told, counts>>
    BY <1>5 DEF Save, At, clients
  <2>2. CASE room.refs # 1
    <3>1. TaskCloses(room)
      BY <1>1, <1>5, <2>1, <2>2 DEF Save, TaskCloses
    <3> QED BY <2>1, <3>1, ClosesSame, SameIs
  <2>3. CASE room.refs = 1 /\ room.version = 0
    <3> DEFINE r == [room EXCEPT !.loaded = FALSE]
    <3>1. r \in RoomRec /\ r.refs = room.refs /\ r.version = room.version /\ r.loaded = FALSE
      BY <1>1 DEF RoomRec
    <3>2. CloseRoom(r, NoTask)
      BY <1>5, <2>3 DEF Save
    <3> HIDE DEF r
    <3>3. TaskCloses(r)
      BY <2>1, <3>1, <3>2 DEF TaskCloses
    <3>4. room.loaded => elements = doc
      BY <2>3 DEF IInv, Unwritten
    <3> QED BY <2>1, <3>3, <3>4, ClosesSame, SameIs
  <2>4. CASE room.refs = 1 /\ room.version # 0
    <3>1. room' = room
      BY <1>5, <2>4 DEF Save
    <3> QED BY <2>1, <3>1, SameIs DEF Same, Seen
  <2> QED BY <2>2, <2>3, <2>4
<1>6. CASE LoadFails \/ SaveFails
  <2>1. UNCHANGED <<elements, doc, room>> /\ counts' = [counts EXCEPT !.faults = @ + 1]
    BY <1>6 DEF LoadFails, SaveFails, Fault
  <2>2. counts'.crashes = counts.crashes
    BY <1>1, <2>1 DEF CountsRec
  <2> QED BY <2>1, <2>2, SameIs DEF Same, Seen
<1>7. CASE Copy
  BY <1>7, SameIs DEF Copy, Same, Seen
<1>8. CASE Put
  <2>1. /\ task.pc = "put" /\ doc' = task.copy /\ UNCHANGED <<room, elements, counts>>
        /\ task.copy \in State
    BY <1>1, <1>8 DEF Put, At, TaskRec
  <2>2. room.loaded /\ AtMost(doc, doc') /\ AtMost(doc', elements)
    BY <2>1 DEF IInv, Saving
  <2>3. Seen = elements /\ Seen' = elements
    BY <2>1, <2>2 DEF Seen
  <2>4. B!Store
    <3>1. B!Older(doc, doc') /\ B!Older(doc', elements)
      BY <2>2 DEF B!Older, AtMost
    <3>2. doc' \in [Element -> 0..MaxVersion]
      BY <2>1 DEF State
    <3> QED BY <2>1, <2>2, <3>1, <3>2 DEF B!Store
  <2> QED BY <2>4 DEF B!Next
<1>9. CASE Saved
  <2> DEFINE r == IF Relevant THEN [room EXCEPT !.loaded = FALSE] ELSE room
  <2>1. /\ task.pc = "saved" /\ ~At("none") /\ CloseRoom(r, NoTask)
        /\ UNCHANGED <<elements, doc, user, inbox, shows, told, counts>>
    BY <1>9 DEF Saved, At, clients
  <2>2. r \in RoomRec /\ r.refs = room.refs /\ r.version = room.version /\ (r.loaded => room.loaded)
    <3>1. [room EXCEPT !.loaded = FALSE] \in RoomRec /\ [room EXCEPT !.loaded = FALSE].refs = room.refs
          /\ [room EXCEPT !.loaded = FALSE].version = room.version
          /\ [room EXCEPT !.loaded = FALSE].loaded = FALSE
      BY <1>1 DEF RoomRec
    <3> QED BY <1>1, <3>1
  <2>3. r.loaded = room.loaded \/ (room.loaded => elements = doc)
    <3>1. CASE Relevant
      BY <2>1, <3>1 DEF IInv, Unwritten
    <3>2. CASE ~Relevant
      BY <3>2
    <3> QED BY <3>1, <3>2
  <2> HIDE DEF r
  <2>4. TaskCloses(r)
    BY <2>1, <2>2 DEF TaskCloses
  <2> QED BY <2>1, <2>3, <2>4, ClosesSame, SameIs
<1> QED BY <1>2, <1>3, <1>4, <1>5, <1>6, <1>7, <1>8, <1>9 DEF Task

LEMMA EditShows ==
  ASSUME BoardBounds, IInv, IInv', NEW u \in User, Edit(u) PROVE B!Commit
<1>1. \E edit \in State : elements' = Newer(elements, edit)
  <2>1. PICK e \in Element : \E v \in ((shows[u][e] + 1)..MaxVersion) \ Used(e) :
          elements' = Newer(elements, [Blank EXCEPT ![e] = v])
    BY DEF Edit, Committed
  <2>2. PICK v \in ((shows[u][e] + 1)..MaxVersion) \ Used(e) : elements' = Newer(elements, [Blank EXCEPT ![e] = v])
    BY <2>1
  <2>3. shows[u][e] \in Nat /\ MaxVersion \in Nat
    BY States, Constants DEF IInv, Types
  <2>4. v \in 0..MaxVersion
    BY <2>2, <2>3
  <2>5. [Blank EXCEPT ![e] = v] \in State
    BY <2>4, Single
  <2> QED BY <2>2, <2>5
<1>2. room.loaded /\ UNCHANGED <<room, doc, counts>> /\ elements \in State /\ elements' \in State
  BY DEF Edit, IInv, Types
<1>3. AtMost(elements, elements')
  BY <1>1, <1>2, NewerIs
<1>4. B!Older(elements, elements')
  BY <1>3 DEF AtMost, B!Older
<1> QED BY <1>2, <1>4 DEF B!Commit, State

LEMMA NextShows ==
  ASSUME BoardBounds, IInv, IInv', [Next]_vars PROVE [B!Next]_<<Seen, doc, counts.crashes>>
<1>1. CASE Task
  BY <1>1, TaskShows
<1>2. CASE Crash
  <2>1. counts'.crashes = counts.crashes + 1
    BY <1>2 DEF Crash, IInv, Types, CountsRec
  <2>2. room'.loaded = FALSE /\ doc' = doc
    BY <1>2 DEF Crash, NoRoom
  <2>3. B!Crash
    BY <2>1, <2>2 DEF B!Crash
  <2> QED BY <2>3 DEF B!Next
<1>3. ASSUME NEW u \in User, EnterList(u) \/ Greet(u) \/ SendGreeting(u) \/ Answer(u) \/ Leave(u) \/ Receive(u)
      PROVE  Same
  BY <1>3 DEF EnterList, Greet, SendGreeting, Answer, Leave, Receive, Same, Seen
<1>4. ASSUME NEW u \in User, Left(u) PROVE Same
  <2>1. Leaves(u) /\ UNCHANGED <<elements, doc, counts>>
    BY <1>4 DEF Left, Leaves, clients
  <2>2. room'.loaded = room.loaded
    BY <2>1, LeavesIs DEF IInv
  <2> QED BY <2>1, <2>2 DEF Same, Seen
<1>5. ASSUME NEW u \in User, Edit(u) PROVE B!Commit
  BY <1>5, EditShows
<1>6. ASSUME NEW u \in User, NEW readonly \in BOOLEAN, Join(u, readonly) PROVE Same
  <2>1. doc' = doc /\ counts' = [counts EXCEPT !.joins = @ + 1]
        /\ elements' = (IF room.refs = 0 THEN Blank ELSE elements)
        /\ room' = [room EXCEPT !.refs = IF @ = 0 THEN 2 ELSE @ + 1,
                                !.version = IF readonly THEN @ ELSE @ + 1]
    BY <1>6 DEF Join
  <2>2. counts'.crashes = counts.crashes
    BY <2>1 DEF IInv, Types, CountsRec
  <2>3. room'.loaded = room.loaded
    BY <2>1 DEF IInv, Types, RoomRec
  <2>4. room.refs = 0 => room.loaded = FALSE
    BY DEF IInv, Unheld, NoRoom
  <2> QED BY <2>1, <2>2, <2>3, <2>4 DEF Same, Seen
<1>7. CASE UNCHANGED vars
  BY <1>7, SameIs DEF vars, Same, Seen
<1> QED BY <1>1, <1>2, <1>3, <1>4, <1>5, <1>6, <1>7, SameIs DEF Next, Session, B!Next
-----------------------------------------------------------------------------
(* The room, its task, its elements and the users keep their types.         *)
THEOREM TypeCorrect == ASSUME BoardBounds PROVE Spec => []TypeOK
<1>1. IInv => TypeOK
  <2> SUFFICES ASSUME IInv PROVE TypeOK
    OBVIOUS
  <2>1. room \in [refs : 0..(Cardinality(User) + 1), version : 0..MaxJoins, loaded : BOOLEAN]
    <3>1. Cardinality(Holders) \in Nat /\ Cardinality(Holders) <= Cardinality(User) /\ Cardinality(User) \in Nat
      BY Counted, Constants, FS_CardinalityType
    <3>2. room \in RoomRec /\ room.refs \in Nat /\ room.refs <= Cardinality(Holders) + 1
      BY <3>1, Exact DEF IInv, Types, TaskRef
    <3>3. room.refs \in 0..(Cardinality(User) + 1)
      BY <3>1, <3>2
    <3> QED BY <3>2, <3>3 DEF RoomRec
  <2> QED BY <2>1 DEF IInv, Types, TypeOK, TaskRec, State
<1>2. IInv /\ [Next]_vars => IInv'
  BY NextIInv
<1> QED BY <1>1, <1>2, InitIInv, PTL DEF Spec

(* The references of a room are those of its sessions and of its task: it   *)
(* is neither destroyed under them nor kept after them.                     *)
THEOREM RefsAlwaysExact == ASSUME BoardBounds PROVE Spec => []RefsExact
<1>1. IInv => RefsExact
  BY DEF IInv
<1>2. IInv /\ [Next]_vars => IInv'
  BY NextIInv
<1> QED BY <1>1, <1>2, InitIInv, PTL DEF Spec

(* Whoever is in a loaded room has the newest version of every element, or  *)
(* somebody is about to tell of it.                                         *)
THEOREM AlwaysInformed == ASSUME BoardBounds PROVE Spec => []Informed
<1>1. IInv => Informed
  BY DEF IInv
<1>2. IInv /\ [Next]_vars => IInv'
  BY NextIInv
<1> QED BY <1>1, <1>2, InitIInv, PTL DEF Spec

(* A whiteboard is the board of Board: no element goes back to an older     *)
(* version, and only a crash loses what was accepted.                       *)
THEOREM WhiteboardIsBoard == ASSUME BoardBounds PROVE Spec => IsBoard
<1>1. Init => B!Init
  <2> SUFFICES ASSUME Init PROVE B!Init
    OBVIOUS
  <2>1. room.loaded = FALSE /\ doc = [e \in Element |-> 0] /\ counts.crashes = 0
    BY DEF Init, NoRoom, Blank
  <2> QED BY <2>1 DEF B!Init
<1>2. IInv /\ [Next]_vars => IInv'
  BY NextIInv
<1>3. IInv /\ IInv' /\ [Next]_vars => [B!Next]_<<Seen, doc, counts.crashes>>
  BY NextShows
<1>4. IInv /\ IInv' /\ [Next]_vars =>
        [B!Next]_<<IF room.loaded THEN elements ELSE doc, doc, counts.crashes>>
  BY <1>3 DEF Seen
<1> QED BY <1>1, <1>2, <1>4, InitIInv, PTL DEF Spec, IsBoard, B!Spec
=============================================================================
