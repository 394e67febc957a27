--------------------------- MODULE RctRoom_proof ---------------------------
(***************************************************************************)
(* Proofs about RctRoom, for any number of sessions, users, rooms and      *)
(* members: type correctness, who is where, that nothing in use is freed,  *)
(* and that an empty room is always watched.                               *)
(*                                                                         *)
(* A critical section changes the state in stages: members are closed, one *)
(* joins, what nobody refers to is disposed.  R, M, S, B and T stand for   *)
(* room, member, session, byUuid and timers at one of the stages, and a    *)
(* lemma for each kind of stage says that it keeps the invariant.          *)
(***************************************************************************)
EXTENDS RctRoom, TLAPS

SessionRec ==
  [pc : {"off", "idle", "found", "joining", "joined", "creating", "opening", "observing"},
   user : User \union {None}, member : Member \union {None}, uuid : Uuid \union {None},
   target : Room \union {None}, guard : Room \union {None}]
RoomRec ==
  [state : {"free", "router", "room"}, uuid : Uuid \union {None}, members : SUBSET Member,
   closed : BOOLEAN, pending : BOOLEAN, armed : BOOLEAN, leaked : BOOLEAN, waiting : BOOLEAN]
MemberRec ==
  [room : Room \union {None}, session : Session \union {None}, closed : BOOLEAN,
   pinned : BOOLEAN]

Types(R, M, S, B) ==
  /\ R \in [Room -> RoomRec]
  /\ M \in [Member -> MemberRec]
  /\ S \in [Session -> SessionRec]
  /\ B \in [Uuid -> Room \union {None}]

Router == [FreeRoom EXCEPT !.state = "router"]

\* Addresses that are free, or a router's, hold nothing of a room.
Blank(R, M) ==
  /\ \A m \in Member : M[m].room = None => M[m] = FreeMember
  /\ \A r \in Room :
       /\ R[r].state = "free" => R[r] = FreeRoom
       /\ R[r].state = "router" => R[r] = Router

\* Rooms, members and sessions name each other.
Agree(R, M, S) ==
  /\ \A m \in Member : M[m].room # None =>
       /\ R[M[m].room].state = "room"
       /\ M[m].session \in Session
       /\ ~M[m].closed => m \in R[M[m].room].members /\ S[M[m].session].member = m
  /\ \A r \in Room : \A m \in R[r].members : ~M[m].closed /\ M[m].room = r
  /\ \A s \in Session : S[s].member # None =>
       /\ M[S[s].member].room # None
       /\ M[S[s].member].session = s
       /\ ~M[S[s].member].closed

\* What is guarded and what the map names are rooms.
Named(R, S, B) ==
  /\ \A s \in Session : S[s].guard # None => R[S[s].guard].state = "room"
  /\ \A u \in Uuid : B[u] # None => R[B[u]].state = "room" /\ R[B[u]].uuid = u

\* A user is in a room once.
Once(R, M, S) ==
  \A r \in Room : \A m, n \in R[r].members :
    S[M[m].session].user = S[M[n].session].user => m = n

Whole(R, M, S, B) ==
  Types(R, M, S, B) /\ Blank(R, M) /\ Agree(R, M, S) /\ Named(R, S, B) /\ Once(R, M, S)

\* What a handler of room_create carries along, and that who is off is nowhere.
Places(S) ==
  \A s \in Session :
    /\ S[s].pc = "off" => S[s].member = None
    /\ S[s].pc \in {"found", "joining", "creating", "opening"} => S[s].uuid \in Uuid
    /\ S[s].pc = "found" => S[s].guard \in Room
    /\ S[s].pc \in {"opening", "observing"} => S[s].target \in Room

\* An address has room for one more timer unless its room has armed one already;
\* an open room without members has armed one, and what it armed is on its way
\* to close it.  A room of E is about to get its first member.
Watched(R, T, D, A, E) ==
  /\ T \in [Room -> 0..MaxTimers]
  /\ \A r \in Room :
       /\ R[r].state # "free" /\ ~R[r].armed => T[r] < MaxTimers
       /\ R[r].state = "room" /\ ~R[r].closed =>
            /\ R[r].members = {} /\ r \notin E => R[r].armed
            /\ R[r].armed => T[r] > 0 \/ r \in D \/ r \in A

IInv ==
  /\ Whole(room, member, session, byUuid)
  /\ Places(session)
  /\ Watched(room, timers, deciding, asked, {})
  /\ deciding \subseteq Room /\ asked \subseteq Room
-----------------------------------------------------------------------------
(* Stages.                                                                 *)

\* Handlers move on, take or drop guards, and users come and go with sessions
\* that are nowhere.
LEMMA SessionStage ==
  ASSUME NEW R, NEW M, NEW S, NEW B, Whole(R, M, S, B), NEW Z \in [Session -> SessionRec],
         \A s \in Session :
           /\ Z[s].member = S[s].member
           /\ Z[s].member = None \/ Z[s].user = S[s].user
           /\ Z[s].guard # None => R[Z[s].guard].state = "room"
  PROVE  Whole(R, M, Z, B)
<1>1. Types(R, M, Z, B)
  BY DEF Whole, Types
<1>2. Agree(R, M, Z)
  BY DEF Whole, Agree, Types, SessionRec, MemberRec
<1>3. Named(R, Z, B)
  BY DEF Whole, Named
<1>4. Once(R, M, Z)
  <2> SUFFICES ASSUME NEW r \in Room, NEW m \in R[r].members, NEW n \in R[r].members,
                      Z[M[m].session].user = Z[M[n].session].user
               PROVE  m = n
    BY DEF Once
  <2>1. /\ m \in Member /\ n \in Member
        /\ M[m].room = r /\ M[n].room = r /\ ~M[m].closed /\ ~M[n].closed
    BY DEF Whole, Agree, Types, RoomRec
  <2>2. /\ M[m].session \in Session /\ S[M[m].session].member = m
        /\ M[n].session \in Session /\ S[M[n].session].member = n
    BY <2>1, NoneAssumption DEF Whole, Agree
  <2>3. Z[M[m].session].user = S[M[m].session].user /\ Z[M[n].session].user = S[M[n].session].user
    BY <2>1, <2>2, NoneAssumption
  <2> QED BY <2>3 DEF Whole, Once
<1> QED BY <1>1, <1>2, <1>3, <1>4 DEF Whole

\* Flags of rooms change.
LEMMA RoomStage ==
  ASSUME NEW R, NEW M, NEW S, NEW B, Whole(R, M, S, B), NEW Q \in [Room -> RoomRec],
         \A r \in Room :
           /\ Q[r].state = R[r].state
           /\ Q[r].members = R[r].members
           /\ Q[r].uuid = R[r].uuid
           /\ R[r].state # "room" => Q[r] = R[r]
  PROVE  Whole(Q, M, S, B)
<1>1. Types(Q, M, S, B)
  BY DEF Whole, Types
<1>2. Blank(Q, M)
  BY DEF Whole, Blank
<1>3. Agree(Q, M, S)
  BY DEF Whole, Agree, Types, MemberRec
<1>4. Named(Q, S, B)
  BY DEF Whole, Named, Types, SessionRec
<1>5. Once(Q, M, S)
  BY DEF Whole, Once
<1> QED BY <1>1, <1>2, <1>3, <1>4, <1>5 DEF Whole

\* Rooms once the members of C have left.
LEMMA LeftRooms ==
  ASSUME NEW R \in [Room -> RoomRec], NEW C
  PROVE  /\ WithoutMembers(R, C) \in [Room -> RoomRec]
         /\ \A r \in Room :
              /\ WithoutMembers(R, C)[r].members = R[r].members \ C
              /\ WithoutMembers(R, C)[r].armed = (R[r].armed \/ NeedsTimer(R, r, C))
              /\ WithoutMembers(R, C)[r].state = R[r].state
              /\ WithoutMembers(R, C)[r].uuid = R[r].uuid
              /\ WithoutMembers(R, C)[r].closed = R[r].closed
<1>1. ASSUME NEW r \in Room
      PROVE  /\ R[r] \in RoomRec
             /\ R[r].members \ C \in SUBSET Member
             /\ (R[r].armed \/ NeedsTimer(R, r, C)) \in BOOLEAN
             /\ (R[r].waiting \/ NeedsTimer(R, r, C)) \in BOOLEAN
  BY DEF RoomRec
<1>2. ASSUME NEW r \in Room
      PROVE  /\ WithoutMembers(R, C)[r] \in RoomRec
             /\ WithoutMembers(R, C)[r].members = R[r].members \ C
             /\ WithoutMembers(R, C)[r].armed = (R[r].armed \/ NeedsTimer(R, r, C))
             /\ WithoutMembers(R, C)[r].state = R[r].state
             /\ WithoutMembers(R, C)[r].uuid = R[r].uuid
             /\ WithoutMembers(R, C)[r].closed = R[r].closed
  <2> DEFINE X == R[r].members \ C
             a == R[r].armed \/ NeedsTimer(R, r, C)
             w == R[r].waiting \/ NeedsTimer(R, r, C)
  <2>1. WithoutMembers(R, C)[r] = [R[r] EXCEPT !.members = X, !.armed = a, !.waiting = w]
    BY Zenon DEF WithoutMembers
  <2>2. R[r] \in RoomRec /\ X \in SUBSET Member /\ a \in BOOLEAN /\ w \in BOOLEAN
    BY <1>1
  <2> HIDE DEF X, a, w
  <2> DEFINE e == [R[r] EXCEPT !.members = X]
             f == [e EXCEPT !.armed = a]
             g == [f EXCEPT !.waiting = w]
  <2>3. /\ e \in RoomRec /\ e.members = X
        /\ e.state = R[r].state /\ e.uuid = R[r].uuid /\ e.closed = R[r].closed
    BY <2>2 DEF RoomRec
  <2>4. WithoutMembers(R, C)[r] = g
    BY <2>1
  <2> HIDE DEF e
  <2>5. /\ f \in RoomRec /\ f.armed = a /\ f.members = e.members
        /\ f.state = e.state /\ f.uuid = e.uuid /\ f.closed = e.closed
    BY <2>2, <2>3 DEF RoomRec
  <2> HIDE DEF f
  <2>6. /\ g \in RoomRec /\ g.armed = f.armed /\ g.members = f.members
        /\ g.state = f.state /\ g.uuid = f.uuid /\ g.closed = f.closed
    BY <2>2, <2>5 DEF RoomRec
  <2> HIDE DEF g
  <2>7. /\ WithoutMembers(R, C)[r] \in RoomRec
        /\ WithoutMembers(R, C)[r].members = X
        /\ WithoutMembers(R, C)[r].armed = a
        /\ WithoutMembers(R, C)[r].state = R[r].state
        /\ WithoutMembers(R, C)[r].uuid = R[r].uuid
        /\ WithoutMembers(R, C)[r].closed = R[r].closed
    BY <2>3, <2>4, <2>5, <2>6
  <2> QED BY <2>7, Zenon DEF X, a
<1>3. WithoutMembers(R, C) = [r \in Room |-> WithoutMembers(R, C)[r]]
  BY DEF WithoutMembers
<1>4. WithoutMembers(R, C) \in [Room -> RoomRec]
  BY <1>2, <1>3
<1> QED BY <1>2, <1>4

\* A room without members stays as it is.
LEMMA EmptyRooms ==
  ASSUME NEW R \in [Room -> RoomRec], NEW C, NEW r \in Room, R[r].members = {}
  PROVE  WithoutMembers(R, C)[r] = R[r]
<1>1. ASSUME NEW x \in RoomRec
      PROVE  [x EXCEPT !.members = x.members, !.armed = x.armed, !.waiting = x.waiting] = x
  <2>1. [x EXCEPT !.members = x.members] = x
    BY DEF RoomRec
  <2>2. [x EXCEPT !.armed = x.armed] = x
    BY DEF RoomRec
  <2>3. [x EXCEPT !.waiting = x.waiting] = x
    BY DEF RoomRec
  <2> QED BY <2>1, <2>2, <2>3
<1>2. /\ R[r] \in RoomRec /\ R[r].members \ C = R[r].members
      /\ R[r].armed \in BOOLEAN /\ R[r].waiting \in BOOLEAN
      /\ ~NeedsTimer(R, r, C)
  BY DEF RoomRec, NeedsTimer
<1>3. (R[r].armed \/ NeedsTimer(R, r, C)) = R[r].armed
      /\ (R[r].waiting \/ NeedsTimer(R, r, C)) = R[r].waiting
  BY <1>2
<1>4. WithoutMembers(R, C)[r] =
        [R[r] EXCEPT !.members = R[r].members \ C,
                     !.armed = R[r].armed \/ NeedsTimer(R, r, C),
                     !.waiting = R[r].waiting \/ NeedsTimer(R, r, C)]
  BY Zenon DEF WithoutMembers
<1>5. WithoutMembers(R, C)[r] =
        [R[r] EXCEPT !.members = R[r].members, !.armed = R[r].armed, !.waiting = R[r].waiting]
  BY <1>2, <1>3, <1>4, Zenon
<1> QED BY <1>1, <1>2, <1>5, Zenon

\* Members of C are closed.
LEMMA CloseStage ==
  ASSUME NEW R, NEW M, NEW S, NEW B, Whole(R, M, S, B),
         NEW C \in SUBSET {m \in Member : M[m].room # None}
  PROVE  Whole(WithoutMembers(R, C), ClosedMembers(M, C), Unbound(S, C), B)
<1> DEFINE Q == WithoutMembers(R, C)
           N == ClosedMembers(M, C)
           Z == Unbound(S, C)
<1>1. Types(Q, N, Z, B)
  <2>1. Q \in [Room -> RoomRec]
    BY LeftRooms DEF Whole, Types
  <2>2. N \in [Member -> MemberRec]
    BY DEF Whole, Types, MemberRec, ClosedMembers
  <2>3. Z \in [Session -> SessionRec]
    BY DEF Whole, Types, SessionRec, Unbound
  <2> QED BY <2>1, <2>2, <2>3 DEF Whole, Types
<1>2. \A r \in Room :
        /\ Q[r].state = R[r].state /\ Q[r].uuid = R[r].uuid
        /\ Q[r].members = R[r].members \ C
        /\ R[r].members = {} => Q[r] = R[r]
  <2>1. \A r \in Room : R[r].members = {} => Q[r] = R[r]
    BY EmptyRooms DEF Whole, Types
  <2> QED BY <2>1, LeftRooms DEF Whole, Types
<1>3. \A m \in Member :
        /\ N[m].room = M[m].room /\ N[m].session = M[m].session
        /\ N[m].closed = (M[m].closed \/ m \in C)
        /\ m \notin C => N[m] = M[m]
  BY DEF Whole, Types, MemberRec, ClosedMembers
<1>4. \A s \in Session :
        /\ Z[s].member = IF S[s].member \in C THEN None ELSE S[s].member
        /\ Z[s].user = S[s].user /\ Z[s].guard = S[s].guard
  BY DEF Whole, Types, SessionRec, Unbound
<1> HIDE DEF Q, N, Z
<1>5. Blank(Q, N)
  <2>1. \A r \in Room : R[r].state \in {"free", "router"} => R[r].members = {}
    <3>1. FreeRoom.members = {} /\ Router.members = {}
      BY DEF FreeRoom, Router
    <3> QED BY <3>1 DEF Whole, Blank
  <2> QED BY <1>2, <1>3, <2>1 DEF Whole, Blank
<1>6. Agree(Q, N, Z)
  <2>1. \A m \in Member : N[m].room # None =>
          /\ Q[N[m].room].state = "room"
          /\ N[m].session \in Session
          /\ ~N[m].closed => m \in Q[N[m].room].members /\ Z[N[m].session].member = m
    <3>1. ASSUME NEW m \in Member, M[m].room # None
          PROVE  /\ M[m].room \in Room /\ Q[M[m].room].state = "room"
                 /\ M[m].session \in Session
                 /\ ~M[m].closed /\ m \notin C => /\ m \in Q[M[m].room].members
                                                 /\ Z[M[m].session].member = m
      <4>1. M[m].room \in Room /\ R[M[m].room].state = "room" /\ M[m].session \in Session
        BY <3>1 DEF Whole, Agree, Types, MemberRec
      <4>2. ~M[m].closed => m \in R[M[m].room].members /\ S[M[m].session].member = m
        BY <3>1 DEF Whole, Agree
      <4> QED BY <1>2, <1>4, <4>1, <4>2
    <3> QED BY <1>3, <3>1
  <2>2. \A r \in Room : \A m \in Q[r].members : ~N[m].closed /\ N[m].room = r
    BY <1>2, <1>3 DEF Whole, Agree, Types, RoomRec
  <2>3. \A s \in Session : Z[s].member # None =>
          /\ N[Z[s].member].room # None
          /\ N[Z[s].member].session = s
          /\ ~N[Z[s].member].closed
    BY <1>3, <1>4 DEF Whole, Agree, Types, SessionRec
  <2> QED BY <2>1, <2>2, <2>3 DEF Agree
<1>7. Named(Q, Z, B)
  BY <1>2, <1>4 DEF Whole, Named, Types, SessionRec
<1>8. Once(Q, N, Z)
  <2> SUFFICES ASSUME NEW r \in Room, NEW m \in Q[r].members, NEW n \in Q[r].members,
                      Z[N[m].session].user = Z[N[n].session].user
               PROVE  m = n
    BY DEF Once
  <2>1. m \in R[r].members /\ n \in R[r].members /\ m \in Member /\ n \in Member
    BY <1>2 DEF Whole, Types, RoomRec
  <2>2. M[m].session \in Session /\ M[n].session \in Session
    BY <2>1, NoneAssumption DEF Whole, Agree
  <2> QED BY <1>3, <1>4, <2>1, <2>2 DEF Whole, Once
<1> QED BY <1>1, <1>5, <1>6, <1>7, <1>8 DEF Whole, Q, N, Z

\* A session without a member joins a room its user is not in.
LEMMA EnterStage ==
  ASSUME NEW R, NEW M, NEW S, NEW B, Whole(R, M, S, B),
         NEW s \in Session, NEW r \in Room, NEW m \in Member,
         S[s].member = None, M[m].room = None, R[r].state = "room",
         \A n \in R[r].members : S[M[n].session].user # S[s].user
  PROVE  Whole([R EXCEPT ![r].members = @ \union {m}, ![r].waiting = FALSE],
               [M EXCEPT ![m] = [room |-> r, session |-> s, closed |-> FALSE, pinned |-> FALSE]],
               [S EXCEPT ![s].member = m], B)
<1> DEFINE Q == [R EXCEPT ![r].members = @ \union {m}, ![r].waiting = FALSE]
           new == [room |-> r, session |-> s, closed |-> FALSE, pinned |-> FALSE]
           N == [M EXCEPT ![m] = new]
           Z == [S EXCEPT ![s].member = m]
<1>1. Types(Q, N, Z, B)
  <2>1. Q \in [Room -> RoomRec]
    <3>1. R[r] \in RoomRec /\ R[r].members \union {m} \in SUBSET Member
      BY DEF Whole, Types, RoomRec
    <3>2. [R[r] EXCEPT !.members = @ \union {m}] \in RoomRec
      BY <3>1 DEF RoomRec
    <3>3. [[R[r] EXCEPT !.members = @ \union {m}] EXCEPT !.waiting = FALSE] \in RoomRec
      BY <3>2 DEF RoomRec
    <3> QED BY <3>3 DEF Whole, Types
  <2>2. N \in [Member -> MemberRec]
    BY DEF Whole, Types, MemberRec
  <2>3. Z \in [Session -> SessionRec]
    BY DEF Whole, Types, SessionRec
  <2> QED BY <2>1, <2>2, <2>3 DEF Whole, Types
<1>2. /\ \A x \in Room \ {r} : Q[x] = R[x]
      /\ Q[r].state = "room" /\ Q[r].uuid = R[r].uuid /\ Q[r].members = R[r].members \union {m}
  BY DEF Whole, Types, RoomRec
<1>3. /\ \A x \in Member \ {m} : N[x] = M[x]
      /\ N[m].room = r /\ N[m].session = s /\ N[m].closed = FALSE
  BY DEF Whole, Types, MemberRec
<1>4. /\ \A x \in Session \ {s} : Z[x] = S[x]
      /\ Z[s].member = m /\ Z[s].user = S[s].user /\ Z[s].guard = S[s].guard
  BY DEF Whole, Types, SessionRec
<1>5. \A x \in Room : m \notin R[x].members
  BY NoneAssumption DEF Whole, Agree
<1>6. \A x \in Session : S[x].member # m
  BY NoneAssumption DEF Whole, Agree
<1>7. r # None /\ m # None
  BY NoneAssumption
<1> HIDE DEF Q, N, Z
<1>8. Blank(Q, N)
  BY <1>2, <1>3, <1>7 DEF Whole, Blank
<1>9. Agree(Q, N, Z)
  <2>1. \A x \in Member : N[x].room # None =>
          /\ Q[N[x].room].state = "room"
          /\ N[x].session \in Session
          /\ ~N[x].closed => x \in Q[N[x].room].members /\ Z[N[x].session].member = x
    <3>1. ASSUME NEW x \in Member \ {m}, M[x].room # None
          PROVE  /\ M[x].room \in Room /\ Q[M[x].room].state = "room"
                 /\ M[x].session \in Session
                 /\ ~M[x].closed => /\ x \in Q[M[x].room].members
                                   /\ S[M[x].session].member = x /\ M[x].session # s
      <4>1. M[x].room \in Room /\ R[M[x].room].state = "room" /\ M[x].session \in Session
        BY <3>1 DEF Whole, Agree, Types, MemberRec
      <4>2. ~M[x].closed => x \in R[M[x].room].members /\ S[M[x].session].member = x
        BY <3>1 DEF Whole, Agree
      <4>3. x # None
        BY NoneAssumption
      <4> QED BY <1>2, <4>1, <4>2, <4>3
    <3> QED BY <1>2, <1>3, <1>4, <3>1
  <2>2. \A y \in Room : \A x \in Q[y].members : ~N[x].closed /\ N[x].room = y
    BY <1>2, <1>3, <1>5 DEF Whole, Agree, Types, RoomRec
  <2>3. \A x \in Session : Z[x].member # None =>
          /\ N[Z[x].member].room # None
          /\ N[Z[x].member].session = x
          /\ ~N[Z[x].member].closed
    BY <1>3, <1>4, <1>6, <1>7 DEF Whole, Agree, Types, SessionRec
  <2> QED BY <2>1, <2>2, <2>3 DEF Agree
<1>10. Named(Q, Z, B)
  BY <1>2, <1>4 DEF Whole, Named, Types, SessionRec
<1>11. Once(Q, N, Z)
  <2> SUFFICES ASSUME NEW y \in Room, NEW a \in Q[y].members, NEW b \in Q[y].members,
                      Z[N[a].session].user = Z[N[b].session].user
               PROVE  a = b
    BY DEF Once
  <2>1. \A x \in Room : \A c \in R[x].members :
          c \in Member /\ N[c] = M[c] /\ M[c].session \in Session
            /\ Z[M[c].session].user = S[M[c].session].user
    <3> SUFFICES ASSUME NEW x \in Room, NEW c \in R[x].members
                 PROVE  c \in Member /\ N[c] = M[c] /\ M[c].session \in Session
                          /\ Z[M[c].session].user = S[M[c].session].user
      OBVIOUS
    <3>1. c \in Member
      BY DEF Whole, Types, RoomRec
    <3>2. c # m
      BY <1>5
    <3>3. M[c].session \in Session
      <4>1. M[c].room = x /\ x # None
        BY NoneAssumption DEF Whole, Agree
      <4> QED BY <3>1, <4>1 DEF Whole, Agree
    <3> QED BY <1>3, <1>4, <3>1, <3>2, <3>3
  <2> QED BY <1>2, <1>3, <1>4, <2>1 DEF Whole, Once
<1> QED BY <1>1, <1>8, <1>9, <1>10, <1>11 DEF Whole, Q, N, Z

\* What is closed and not referred to is disposed.
LEMMA CommitStage ==
  ASSUME NEW R, NEW M, NEW S, NEW B, Whole(R, M, S, B), Commit(R, M, S, B)
  PROVE  Whole(room', member', session', byUuid')
<1> DEFINE gone == {m \in Member : M[m].closed /\ ~M[m].pinned}
           dead == {r \in Room : /\ R[r].closed
                                 /\ ~R[r].leaked
                                 /\ \A m \in Member \ gone : M[m].room # r
                                 /\ \A s \in Session : S[s].guard # r}
<1>1. /\ member' = [m \in Member |-> IF m \in gone THEN FreeMember ELSE M[m]]
      /\ room' = [r \in Room |-> IF r \in dead THEN FreeRoom ELSE R[r]]
      /\ byUuid' = [u \in Uuid |-> IF \E r \in dead : R[r].uuid = u THEN None ELSE B[u]]
      /\ session' = S
  BY DEF Commit
<1>2. \A r \in Room : \A m \in R[r].members : m \in Member \ gone /\ M[m].room = r
  BY DEF Whole, Types, RoomRec, Agree
<1>3. \A r \in dead : R[r].members = {}
  BY <1>2
<1>4. \A m \in Member \ gone : M[m].room \notin dead
  OBVIOUS
<1>5. \A s \in Session : S[s].guard \notin dead
  OBVIOUS
<1>6. \A s \in Session : S[s].member \notin gone
  BY NoneAssumption DEF Whole, Agree
<1> HIDE DEF gone, dead
<1>7. Types(room', member', session', byUuid')
  BY <1>1 DEF Whole, Types, RoomRec, MemberRec, FreeRoom, FreeMember
<1>8. Blank(room', member')
  <2>1. FreeMember.room = None /\ FreeRoom.state = "free"
    BY DEF FreeMember, FreeRoom
  <2>2. \A m \in Member : member'[m].room = None => member'[m] = FreeMember
    BY <1>1 DEF Whole, Blank
  <2>3. \A r \in Room : room'[r] = FreeRoom \/ room'[r] = R[r]
    BY <1>1
  <2> QED BY <2>1, <2>2, <2>3 DEF Whole, Blank
<1>9. Agree(room', member', session')
  <2>1. FreeMember.room = None /\ FreeRoom.members = {}
    BY DEF FreeMember, FreeRoom
  <2>2. \A m \in Member : member'[m].room # None =>
          m \notin gone /\ member'[m] = M[m] /\ room'[M[m].room] = R[M[m].room]
    BY <1>1, <1>4, <2>1 DEF Whole, Types, MemberRec
  <2>3. \A r \in Room : \A m \in room'[r].members :
          m \in R[r].members /\ member'[m] = M[m]
    BY <1>1, <1>2, <2>1
  <2>4. \A s \in Session : session'[s].member # None =>
          session'[s].member = S[s].member /\ member'[S[s].member] = M[S[s].member]
    BY <1>1, <1>6 DEF Whole, Types, SessionRec
  <2>5. session' = S
    BY <1>1
  <2>6. \A m \in Member : M[m].room # None => R[M[m].room].state = "room" /\ M[m].session \in Session
    BY DEF Whole, Agree
  <2>7. \A m \in Member : M[m].room # None /\ ~M[m].closed =>
          m \in R[M[m].room].members /\ S[M[m].session].member = m
    BY DEF Whole, Agree
  <2>8. \A r \in Room : \A m \in R[r].members : ~M[m].closed /\ M[m].room = r
    BY DEF Whole, Agree
  <2>9. \A s \in Session : S[s].member # None =>
          /\ S[s].member \in Member
          /\ M[S[s].member].room # None
          /\ M[S[s].member].session = s
          /\ ~M[S[s].member].closed
    BY DEF Whole, Agree, Types, SessionRec
  <2> HIDE <1>1
  <2> QED BY <2>2, <2>3, <2>4, <2>5, <2>6, <2>7, <2>8, <2>9 DEF Agree
<1>10. Named(room', session', byUuid')
  BY <1>1, <1>5 DEF Whole, Named, Types, SessionRec
<1>11. Once(room', member', session')
  <2>1. FreeRoom.members = {}
    BY DEF FreeRoom
  <2>2. \A r \in Room : \A m \in room'[r].members : m \in R[r].members /\ member'[m] = M[m]
    BY <1>1, <1>2, <2>1
  <2>3. session' = S
    BY <1>1
  <2> QED BY <2>2, <2>3 DEF Whole, Once
<1> QED BY <1>7, <1>8, <1>9, <1>10, <1>11 DEF Whole
\* The same stages, of timers.
LEMMA CloseTimers ==
  ASSUME NEW R \in [Room -> RoomRec], NEW D, NEW A, NEW E, Watched(R, timers, D, A, E), NEW C,
         \A r \in Room : R[r].state = "free" => R[r].members = {}
  PROVE  Watched(WithoutMembers(R, C), TimersAfter(R, C), D, A, E)
<1> DEFINE Q == WithoutMembers(R, C)
           T == TimersAfter(R, C)
<1>1. \A r \in Room :
        /\ Q[r].members = R[r].members \ C
        /\ Q[r].armed <=> R[r].armed \/ NeedsTimer(R, r, C)
        /\ Q[r].state = R[r].state
        /\ Q[r].closed = R[r].closed
  <2>1. \A r \in Room :
          /\ Q[r].members = R[r].members \ C
          /\ Q[r].armed = (R[r].armed \/ NeedsTimer(R, r, C))
          /\ Q[r].state = R[r].state
          /\ Q[r].closed = R[r].closed
    BY LeftRooms
  <2> HIDE DEF Q
  <2> QED BY <2>1, Zenon
<1>2. \A r \in Room : T[r] = timers[r] + IF NeedsTimer(R, r, C) THEN 1 ELSE 0
  BY DEF TimersAfter
<1>3. \A r \in Room : NeedsTimer(R, r, C) => ~R[r].armed /\ R[r].state # "free"
  BY DEF NeedsTimer
<1>4. \A r \in Room : ~NeedsTimer(R, r, C) /\ Q[r].members = {} => R[r].members = {} \/ R[r].armed
  BY <1>1 DEF NeedsTimer, RoomRec
<1> HIDE DEF Q, T
<1>5. T = [r \in Room |-> T[r]]
  BY DEF T, TimersAfter
<1>6. \A r \in Room : T[r] \in 0..MaxTimers
  BY <1>2, <1>3, MaxTimersAssumption DEF Watched
<1>7. \A r \in Room :
       /\ Q[r].state # "free" /\ ~Q[r].armed => T[r] < MaxTimers
       /\ Q[r].state = "room" /\ ~Q[r].closed =>
            /\ Q[r].members = {} /\ r \notin E => Q[r].armed
            /\ Q[r].armed => T[r] > 0 \/ r \in D \/ r \in A
  <2> SUFFICES ASSUME NEW r \in Room
               PROVE  /\ Q[r].state # "free" /\ ~Q[r].armed => T[r] < MaxTimers
                      /\ Q[r].state = "room" /\ ~Q[r].closed =>
                           /\ Q[r].members = {} /\ r \notin E => Q[r].armed
                           /\ Q[r].armed => T[r] > 0 \/ r \in D \/ r \in A
    OBVIOUS
  <2>1. timers[r] \in 0..MaxTimers
    BY DEF Watched
  <2>2. CASE NeedsTimer(R, r, C)
    <3>1. Q[r].armed
      BY <1>1, <2>2
    <3>2. T[r] > 0
      BY <1>2, <2>1, <2>2, MaxTimersAssumption
    <3> QED BY <3>1, <3>2
  <2>3. CASE ~NeedsTimer(R, r, C)
    <3>1. Q[r].armed <=> R[r].armed
      BY <1>1, <2>3
    <3>2. T[r] = timers[r]
      BY <1>2, <2>1, <2>3, MaxTimersAssumption
    <3> QED BY <1>1, <1>4, <2>3, <3>1, <3>2, Zenon DEF Watched
  <2> QED BY <2>2, <2>3
<1> QED BY <1>5, <1>6, <1>7 DEF Watched, Q, T

\* A member joins a room.
LEMMA EnterTimers ==
  ASSUME NEW R \in [Room -> RoomRec], NEW T, NEW D, NEW A,
         NEW r \in Room, NEW m \in Member, Watched(R, T, D, A, {r})
  PROVE  Watched([R EXCEPT ![r].members = @ \union {m}, ![r].waiting = FALSE], T, D, A, {})
<1> DEFINE Q == [R EXCEPT ![r].members = @ \union {m}, ![r].waiting = FALSE]
<1>1. \A x \in Room :
        /\ R[x].members \subseteq Q[x].members
        /\ Q[x].armed = R[x].armed /\ Q[x].state = R[x].state /\ Q[x].closed = R[x].closed
  BY DEF RoomRec
<1>3. Q[r].members # {}
  BY DEF RoomRec
<1> HIDE DEF Q
<1>2. Watched(Q, T, D, A, {})
  BY <1>1, <1>3 DEF Watched
<1> QED BY <1>2 DEF Q

\* What is disposed needs no timer.
LEMMA CommitTimers ==
  ASSUME NEW R, NEW M, NEW S, NEW B, NEW T, NEW D, NEW A,
         Commit(R, M, S, B), Watched(R, T, D, A, {})
  PROVE  Watched(room', T, D, A, {})
<1>1. \A r \in Room : room'[r] = FreeRoom \/ room'[r] = R[r]
  BY DEF Commit
<1>2. FreeRoom.state = "free"
  BY DEF FreeRoom
<1> QED BY <1>1, <1>2 DEF Watched

\* Flags of rooms change: none is armed, and a room is at most closed.
LEMMA FlagTimers ==
  ASSUME NEW R, NEW T, NEW D, NEW A, Watched(R, T, D, A, {}), NEW Q,
         \A r \in Room :
           /\ Q[r].state = R[r].state /\ Q[r].members = R[r].members /\ Q[r].armed = R[r].armed
           /\ Q[r].closed = R[r].closed \/ Q[r].closed = TRUE
  PROVE  Watched(Q, T, D, A, {})
BY DEF Watched-----------------------------------------------------------------------------
(* Critical sections.                                                      *)

\* Only rooms have members.
LEMMA OnlyRooms ==
  ASSUME NEW R, NEW M, Blank(R, M), NEW r \in Room, R[r].members # {}, NEW S, NEW B,
         Types(R, M, S, B)
  PROVE  R[r].state = "room"
<1>1. FreeRoom.members = {} /\ Router.members = {}
  BY DEF FreeRoom, Router
<1> QED BY <1>1 DEF Blank, Types, RoomRec

\* Members are closed, and their sessions may go offline with it.
LEMMA CloseKeeps ==
  ASSUME NEW R, NEW S, NEW B, NEW D, NEW A, Whole(R, member, S, B), Watched(R, timers, D, A, {}),
         NEW C \in SUBSET {m \in Member : Registered(m)},
         NEW Z \in [Session -> SessionRec],
         \A s \in Session :
           /\ Z[s].member = Unbound(S, C)[s].member
           /\ Z[s].member = None \/ Z[s].user = S[s].user
           /\ Z[s].guard # None => Z[s].guard = S[s].guard,
         Commit(WithoutMembers(R, C), ClosedMembers(member, C), Z, B),
         timers' = TimersAfter(R, C)
  PROVE  Whole(room', member', session', byUuid') /\ Watched(room', timers', D, A, {})
<1>1. Whole(WithoutMembers(R, C), ClosedMembers(member, C), Unbound(S, C), B)
  BY CloseStage DEF Registered
<1>2. \A s \in Session : Unbound(S, C)[s].user = S[s].user
  BY DEF Unbound, Whole, Types, SessionRec
<1>3. \A s \in Session : Z[s].guard # None => WithoutMembers(R, C)[Z[s].guard].state = "room"
  <2>1. \A s \in Session : S[s].guard \in Room \union {None}
    BY DEF Whole, Types, SessionRec
  <2> QED BY <2>1, LeftRooms DEF Whole, Types, Named
<1>4. Whole(WithoutMembers(R, C), ClosedMembers(member, C), Z, B)
  BY <1>1, <1>2, <1>3, SessionStage
<1>5. Watched(WithoutMembers(R, C), TimersAfter(R, C), D, A, {})
  BY CloseTimers, OnlyRooms DEF Whole, Types
<1>6. Watched(WithoutMembers(R, C), timers', D, A, {})
  BY <1>5
<1> QED BY <1>4, <1>6, CommitStage, CommitTimers

\* A session joins a room.
LEMMA JoinKeeps ==
  ASSUME NEW R, NEW S, NEW B, NEW D, NEW A, Whole(R, member, S, B),
         NEW s \in Session, NEW r \in Room, NEW m \in Member, R[r].state = "room",
         Watched(R, timers, D, A, {r}),
         \A x \in Session : S[x].member = session[x].member /\ S[x].user = session[x].user,
         Join(s, r, m, R, S, B)
  PROVE  Whole(room', member', session', byUuid') /\ Watched(room', timers', D, A, {})
<1>1. PICK N \in {{}} \union {{n} : n \in Namesakes(s, r, R)} : Join(s, r, m, R, S, B)!2!(N)
  BY DEF Join
<1> DEFINE C == Ousted(s, r, R) \union N
           new == [room |-> r, session |-> s, closed |-> FALSE, pinned |-> FALSE]
           L == WithoutMembers(R, C)
           M == ClosedMembers(member, C)
           Z == Unbound(S, C)
<1>2. /\ Commit([L EXCEPT ![r].members = @ \union {m}, ![r].waiting = FALSE],
                [M EXCEPT ![m] = new], [Z EXCEPT ![s].member = m], B)
      /\ timers' = TimersAfter(R, C)
  BY <1>1
<1>3. C \in SUBSET {x \in Member : member[x].room # None}
  <2>1. Ousted(s, r, R) \subseteq {x \in Member : member[x].room # None}
    BY NoneAssumption DEF Ousted, Whole, Agree, Types, RoomRec
  <2>2. Namesakes(s, r, R) \subseteq {x \in Member : member[x].room # None}
    BY DEF Namesakes, Registered
  <2> QED BY <2>1, <2>2
<1>4. member[m].room = None
  BY DEF Join, Registered
<1>5. Ousted(s, r, R) \subseteq C
  OBVIOUS
<1> HIDE DEF C
<1>6. Whole(L, M, Z, B)
  BY <1>3, CloseStage
<1>7. Watched(L, TimersAfter(R, C), D, A, {r})
  BY CloseTimers, OnlyRooms DEF Whole, Types
<1>8. Watched(L, timers', D, A, {r})
  BY <1>2, <1>7
<1>9. L \in [Room -> RoomRec] /\ L[r].state = "room" /\ L[r].members = R[r].members \ C
  BY LeftRooms DEF Whole, Types
<1>10. \A x \in Session : Z[x].user = S[x].user
  BY DEF Unbound, Whole, Types, SessionRec
<1>11. Z[s].member = None
  <2>1. session[s].member \in Member => session[s].member \in C
    BY <1>5 DEF Ousted
  <2> QED BY <2>1 DEF Unbound, Whole, Types, SessionRec
<1>12. M[m].room = None
  BY <1>4 DEF ClosedMembers, Whole, Types, MemberRec
<1>13. \A n \in L[r].members : Z[M[n].session].user # Z[s].user
  <2> SUFFICES ASSUME NEW n \in R[r].members, n \notin C PROVE Z[M[n].session].user # Z[s].user
    BY <1>9
  <2>1. n \in Member /\ member[n].room = r
    BY DEF Whole, Types, RoomRec, Agree
  <2>2. member[n].session \in Session
    BY <2>1, NoneAssumption DEF Whole, Agree
  <2>3. M[n].session = member[n].session
    BY <2>1 DEF ClosedMembers, Whole, Types, MemberRec
  <2>4. session[member[n].session].user # session[s].user
    BY <1>5, <2>1 DEF Ousted
  <2> QED BY <1>10, <2>2, <2>3, <2>4
<1> HIDE DEF L, M, Z
<1>14. Whole([L EXCEPT ![r].members = @ \union {m}, ![r].waiting = FALSE],
             [M EXCEPT ![m] = new], [Z EXCEPT ![s].member = m], B)
  BY <1>6, <1>9, <1>11, <1>12, <1>13, EnterStage
<1>15. Watched([L EXCEPT ![r].members = @ \union {m}, ![r].waiting = FALSE], timers', D, A, {})
  BY <1>8, <1>9, EnterTimers
<1> QED BY <1>2, <1>14, <1>15, CommitStage, CommitTimers

\* Where its handlers are once a session has joined.
LEMMA JoinPlaces ==
  ASSUME NEW R, NEW S \in [Session -> SessionRec], NEW B, NEW s \in Session, NEW r, NEW m \in Member,
         Places(S), S[s].pc # "off", Join(s, r, m, R, S, B)
  PROVE  Places(session')
<1>1. PICK C : session' = [Unbound(S, C) EXCEPT ![s].member = m]
  BY DEF Join, Commit
<1>2. \A x \in Session :
        /\ session'[x].pc = S[x].pc /\ session'[x].uuid = S[x].uuid
        /\ session'[x].guard = S[x].guard /\ session'[x].target = S[x].target
        /\ x # s /\ S[x].member = None => session'[x].member = None
  BY <1>1 DEF Unbound, SessionRec
<1> QED BY <1>2 DEF Places-----------------------------------------------------------------------------
(* The invariant.                                                          *)

LEMMA InitIInv == Init => IInv
<1> SUFFICES ASSUME Init PROVE IInv
  OBVIOUS
<1>1. Types(room, member, session, byUuid)
  BY DEF Init, Types, RoomRec, MemberRec, SessionRec, FreeRoom, FreeMember, Offline
<1>2. /\ FreeRoom.state = "free" /\ FreeRoom.members = {}
      /\ FreeMember.room = None /\ Offline.member = None /\ Offline.guard = None
      /\ Offline.pc = "off"
  BY DEF FreeRoom, FreeMember, Offline
<1>3. Whole(room, member, session, byUuid)
  BY <1>1, <1>2 DEF Init, Whole, Blank, Agree, Named, Once
<1>4. Places(session)
  BY <1>2 DEF Init, Places
<1>5. Watched(room, timers, deciding, asked, {})
  BY <1>2, MaxTimersAssumption DEF Init, Watched
<1> QED BY <1>3, <1>4, <1>5 DEF Init, IInv

\* A handler moves on, and nothing else changes.
LEMMA MoveKeeps ==
  ASSUME IInv, NEW s \in Session, NEW v \in SessionRec, session' = [session EXCEPT ![s] = v],
         UNCHANGED <<room, member, byUuid, timers, deciding, asked>>,
         v.member = session[s].member,
         v.member = None \/ v.user = session[s].user,
         v.guard # None => room[v.guard].state = "room",
         v.pc # "off",
         v.pc \in {"found", "joining", "creating", "opening"} => v.uuid \in Uuid,
         v.pc = "found" => v.guard \in Room,
         v.pc \in {"opening", "observing"} => v.target \in Room
  PROVE  IInv'
<1>1. session \in [Session -> SessionRec]
  BY DEF IInv, Whole, Types
<1>2. session' \in [Session -> SessionRec]
  BY <1>1
<1>3. \A x \in Session :
        /\ session'[x].member = session[x].member
        /\ session'[x].member = None \/ session'[x].user = session[x].user
        /\ session'[x].guard # None => room[session'[x].guard].state = "room"
  BY <1>1 DEF IInv, Whole, Named
<1>4. Whole(room, member, session', byUuid)
  BY <1>2, <1>3, SessionStage DEF IInv
<1>5. Places(session')
  BY <1>1 DEF IInv, Places
<1>6. Watched(room', timers', deciding', asked', {})
  BY DEF IInv
<1> QED BY <1>4, <1>5, <1>6 DEF IInv

\* A handler moves on in the middle of a critical section.
LEMMA GotoKeeps ==
  ASSUME IInv, NEW s \in Session, session[s].pc # "off",
         NEW p \in {"joined", "observing"}, p = "observing" => session[s].target \in Room
  PROVE  /\ Goto(s, p) \in [Session -> SessionRec]
         /\ \A x \in Session : /\ Goto(s, p)[x].member = session[x].member
                                /\ Goto(s, p)[x].user = session[x].user
                                /\ Goto(s, p)[x].guard = session[x].guard
         /\ Goto(s, p)[s].pc = p
         /\ Places(Goto(s, p))
         /\ Whole(room, member, Goto(s, p), byUuid)
<1>1. session \in [Session -> SessionRec]
  BY DEF IInv, Whole, Types
<1>2. Goto(s, p) \in [Session -> SessionRec] /\ Goto(s, p)[s].pc = p
  BY <1>1 DEF Goto, SessionRec
<1>3. \A x \in Session : /\ Goto(s, p)[x].member = session[x].member
                         /\ Goto(s, p)[x].user = session[x].user
                         /\ Goto(s, p)[x].guard = session[x].guard
                         /\ Goto(s, p)[x].target = session[x].target
                         /\ x # s => Goto(s, p)[x] = session[x]
  BY <1>1 DEF Goto, SessionRec
<1>4. Places(Goto(s, p))
  BY <1>2, <1>3 DEF IInv, Places
<1>5. Whole(room, member, Goto(s, p), byUuid)
  <2>1. \A x \in Session : Goto(s, p)[x].guard # None => room[Goto(s, p)[x].guard].state = "room"
    BY <1>3 DEF IInv, Whole, Named
  <2> QED BY <1>2, <1>3, <2>1, SessionStage DEF IInv
<1> QED BY <1>2, <1>3, <1>4, <1>5

\* A router becomes a room.
LEMMA OpenKeeps ==
  ASSUME NEW S, Whole(room, member, S, byUuid), Watched(room, timers, deciding, asked, {}),
         NEW r \in Room, NEW u \in Uuid, room[r].state = "router"
  PROVE  /\ Whole([room EXCEPT ![r] = OpenRoom(u)], member, S, [byUuid EXCEPT ![u] = r])
         /\ Watched([room EXCEPT ![r] = OpenRoom(u)], timers, deciding, asked, {r})
         /\ [room EXCEPT ![r] = OpenRoom(u)][r].state = "room"
<1> DEFINE R == [room EXCEPT ![r] = OpenRoom(u)]
           B == [byUuid EXCEPT ![u] = r]
<1>t. /\ room \in [Room -> RoomRec] /\ member \in [Member -> MemberRec]
      /\ S \in [Session -> SessionRec] /\ byUuid \in [Uuid -> Room \union {None}]
  BY DEF Whole, Types
<1>1. /\ OpenRoom(u) \in RoomRec /\ OpenRoom(u).state = "room" /\ OpenRoom(u).uuid = u
      /\ OpenRoom(u).members = {} /\ OpenRoom(u).armed = FALSE
  BY DEF OpenRoom, FreeRoom, RoomRec
<1>2. R \in [Room -> RoomRec] /\ R[r] = OpenRoom(u) /\ \A x \in Room \ {r} : R[x] = room[x]
  BY <1>t, <1>1
<1>3. B \in [Uuid -> Room \union {None}] /\ B[u] = r /\ \A x \in Uuid \ {u} : B[x] = byUuid[x]
  BY <1>t
<1> HIDE DEF R, B
<1>4. Types(R, member, S, B) /\ Blank(R, member)
  BY <1>1, <1>2, <1>3 DEF Whole, Types, Blank
<1>5. Agree(R, member, S)
  BY <1>t, <1>1, <1>2 DEF Whole, Agree, MemberRec
<1>6. Named(R, S, B)
  <2>1. \A s \in Session : S[s].guard # None => R[S[s].guard].state = "room"
    BY <1>t, <1>1, <1>2 DEF Whole, Named, SessionRec
  <2>2. \A x \in Uuid : B[x] # None => R[B[x]].state = "room" /\ R[B[x]].uuid = x
    <3> SUFFICES ASSUME NEW x \in Uuid, B[x] # None
                 PROVE  R[B[x]].state = "room" /\ R[B[x]].uuid = x
      OBVIOUS
    <3>1. CASE x = u
      BY <1>1, <1>2, <1>3, <3>1
    <3>2. CASE x # u
      <4>1. byUuid[x] \in Room /\ room[byUuid[x]].state = "room" /\ room[byUuid[x]].uuid = x
        BY <1>t, <1>3, <3>2 DEF Whole, Named
      <4> QED BY <1>2, <1>3, <3>2, <4>1
    <3> QED BY <3>1, <3>2
  <2> QED BY <2>1, <2>2 DEF Named
<1>7. Once(R, member, S)
  BY <1>1, <1>2 DEF Whole, Once
<1>8. Watched(R, timers, deciding, asked, {r})
  <2>1. Router.armed = FALSE
    BY DEF Router, FreeRoom
  <2>2. timers[r] < MaxTimers
    BY <2>1 DEF Whole, Blank, Watched
  <2> QED BY <1>1, <1>2, <2>2 DEF Watched
<1> QED BY <1>1, <1>2, <1>4, <1>5, <1>6, <1>7, <1>8 DEF Whole, R, B

LEMMA NextIInv == IInv /\ [Next]_vars => IInv'
<1> SUFFICES ASSUME IInv, [Next]_vars PROVE IInv'
  OBVIOUS
<1>t. /\ session \in [Session -> SessionRec] /\ room \in [Room -> RoomRec]
      /\ member \in [Member -> MemberRec] /\ byUuid \in [Uuid -> Room \union {None}]
      /\ timers \in [Room -> 0..MaxTimers]
  BY DEF IInv, Whole, Types, Watched
<1>1. ASSUME NEW s \in Session, NEW u \in User, Connect(s, u) PROVE IInv'
  <2> DEFINE v == [session[s] EXCEPT !.pc = "idle", !.user = u]
  <2>1. session' = [session EXCEPT ![s] = v] /\ v \in SessionRec
    BY <1>1, <1>t DEF Connect, SessionRec
  <2>2. v.member = None /\ v.guard = session[s].guard /\ v.pc = "idle" /\ session[s].member = None
    BY <1>1, <1>t DEF Connect, SessionRec, IInv, Places, At
  <2>3. session[s].guard # None => room[session[s].guard].state = "room"
    BY DEF IInv, Whole, Named
  <2> HIDE DEF v
  <2> QED BY <1>1, <2>1, <2>2, <2>3, MoveKeeps DEF Connect
<1>2. ASSUME NEW s \in Session, Leave(s) PROVE IInv'
  <2> DEFINE C == {session[s].member}
  <2>1. C \in SUBSET {m \in Member : Registered(m)}
    BY <1>2, <1>t DEF Leave, SessionRec, IInv, Whole, Agree, Registered
  <2>2. Unbound(session, C) \in [Session -> SessionRec]
    BY <1>t DEF Unbound, SessionRec
  <2>3. \A x \in Session :
          /\ Unbound(session, C)[x].user = session[x].user
          /\ Unbound(session, C)[x].guard = session[x].guard
          /\ Unbound(session, C)[x].pc = session[x].pc
          /\ Unbound(session, C)[x].uuid = session[x].uuid
          /\ Unbound(session, C)[x].target = session[x].target
          /\ session[x].member = None => Unbound(session, C)[x].member = None
    BY <1>t DEF Unbound, SessionRec
  <2>4. CloseMembers(session, C) /\ UNCHANGED <<deciding, asked>>
    BY <1>2 DEF Leave
  <2> HIDE DEF C
  <2>5. /\ Whole(room', member', session', byUuid')
        /\ Watched(room', timers', deciding, asked, {})
    BY <2>1, <2>2, <2>3, <2>4, CloseKeeps DEF CloseMembers, IInv
  <2>6. Places(session')
    BY <2>3, <2>4 DEF CloseMembers, Commit, IInv, Places
  <2> QED BY <2>4, <2>5, <2>6 DEF IInv
<1>3. ASSUME NEW s \in Session, Disconnect(s) PROVE IInv'
  <2> DEFINE C == {session[s].member} \ {None}
             S == [session EXCEPT ![s] = [Offline EXCEPT !.member = session[s].member]]
             Z == Unbound(S, C)
  <2>1. C \in SUBSET {m \in Member : Registered(m)}
    BY <1>3, <1>t DEF SessionRec, IInv, Whole, Agree, Registered
  <2>2. \A x \in Session :
          /\ Unbound(session, C)[x].user = session[x].user
          /\ Unbound(session, C)[x].member =
               IF session[x].member \in C THEN None ELSE session[x].member
    BY <1>t DEF Unbound, SessionRec
  <2>3. S \in [Session -> SessionRec] /\ S[s].member = session[s].member /\ S[s].guard = None
          /\ S[s].pc = "off" /\ \A x \in Session \ {s} : S[x] = session[x]
    BY <1>t DEF Offline, SessionRec
  <2>4. CloseMembers(S, C) /\ UNCHANGED <<deciding, asked>>
    BY <1>3 DEF Disconnect
  <2>5. session[s].member \in C \union {None}
    OBVIOUS
  <2> HIDE DEF C, S
  <2>6. Z \in [Session -> SessionRec]
    BY <2>3 DEF Unbound, SessionRec
  <2>7. /\ Z[s].member = None /\ Z[s].guard = None
        /\ \A x \in Session \ {s} : Z[x] = Unbound(session, C)[x]
    BY <2>3, <2>5 DEF Unbound, SessionRec
  <2>8. \A x \in Session \ {s} :
          /\ Z[x].guard = session[x].guard /\ Z[x].pc = session[x].pc
          /\ Z[x].uuid = session[x].uuid /\ Z[x].target = session[x].target
          /\ session[x].member = None => Z[x].member = None
    <3>1. \A x \in Session :
            /\ Unbound(session, C)[x].guard = session[x].guard
            /\ Unbound(session, C)[x].pc = session[x].pc
            /\ Unbound(session, C)[x].uuid = session[x].uuid
            /\ Unbound(session, C)[x].target = session[x].target
            /\ session[x].member = None => Unbound(session, C)[x].member = None
      BY <1>t DEF Unbound, SessionRec
    <3> HIDE DEF Z
    <3> QED BY <2>7, <3>1
  <2>9. Z[s].pc = "off"
    BY <2>3 DEF Unbound, SessionRec
  <2> HIDE DEF Z
  <2>10. /\ Commit(WithoutMembers(room, C), ClosedMembers(member, C), Z, byUuid)
         /\ timers' = TimersAfter(room, C)
    BY <2>4 DEF CloseMembers, Z
  <2>11. \A x \in Session :
          /\ Z[x].member = Unbound(session, C)[x].member
          /\ Z[x].member = None \/ Z[x].user = session[x].user
          /\ Z[x].guard # None => Z[x].guard = session[x].guard
    BY <2>2, <2>5, <2>7, <2>8
  <2>12. /\ Whole(room', member', session', byUuid')
         /\ Watched(room', timers', deciding, asked, {})
    BY <2>1, <2>6, <2>10, <2>11, CloseKeeps DEF IInv
  <2>13. Places(session')
    BY <2>7, <2>8, <2>9, <2>10 DEF Commit, IInv, Places
  <2> QED BY <2>4, <2>12, <2>13 DEF IInv
<1>4. ASSUME NEW m \in Member, Pin(m) PROVE IInv'
  <2>1. /\ member' = [member EXCEPT ![m].pinned = TRUE] /\ member[m].room # None
        /\ UNCHANGED <<session, room, byUuid, timers, deciding, asked>>
    BY <1>4 DEF Pin, Registered
  <2>2. member' \in [Member -> MemberRec] /\
        \A x \in Member : /\ member'[x].room = member[x].room
                          /\ member'[x].session = member[x].session
                          /\ member'[x].closed = member[x].closed
                          /\ x # m => member'[x] = member[x]
    BY <1>t, <2>1 DEF MemberRec
  <2>3. Whole(room, member', session, byUuid)
    <3>1. Types(room, member', session, byUuid) /\ Blank(room, member')
      BY <1>t, <2>1, <2>2 DEF IInv, Whole, Types, Blank
    <3>2. Agree(room, member', session)
      BY <1>t, <2>2 DEF IInv, Whole, Agree, RoomRec, SessionRec
    <3>3. Once(room, member', session)
      BY <1>t, <2>2 DEF IInv, Whole, Once, RoomRec
    <3> QED BY <3>1, <3>2, <3>3 DEF IInv, Whole
  <2> QED BY <2>1, <2>3 DEF IInv, Places, Watched
<1>5. ASSUME NEW m \in Member, Unpin(m) PROVE IInv'
  <2> DEFINE M == [member EXCEPT ![m].pinned = FALSE]
  <2>1. Commit(room, M, session, byUuid) /\ UNCHANGED <<timers, deciding, asked>>
    BY <1>5 DEF Unpin
  <2>2. M \in [Member -> MemberRec] /\
        \A x \in Member : /\ M[x].room = member[x].room
                          /\ M[x].session = member[x].session
                          /\ M[x].closed = member[x].closed
                          /\ x # m => M[x] = member[x]
    BY <1>t DEF MemberRec
  <2>3. member[m].room # None
    BY <1>5 DEF Unpin, FreeMember, IInv, Whole, Blank
  <2> HIDE DEF M
  <2>4. Whole(room, M, session, byUuid)
    <3>1. Types(room, M, session, byUuid) /\ Blank(room, M)
      BY <1>t, <2>2, <2>3 DEF IInv, Whole, Types, Blank
    <3>2. Agree(room, M, session)
      BY <1>t, <2>2 DEF IInv, Whole, Agree, RoomRec, SessionRec
    <3>3. Once(room, M, session)
      BY <1>t, <2>2 DEF IInv, Whole, Once, RoomRec
    <3> QED BY <3>1, <3>2, <3>3 DEF IInv, Whole
  <2>5. Whole(room', member', session', byUuid') /\ Watched(room', timers, deciding, asked, {})
    BY <2>1, <2>4, CommitStage, CommitTimers DEF IInv
  <2> QED BY <2>1, <2>5 DEF IInv, Commit
<1>6. ASSUME NEW s \in Session, NEW u \in Uuid, Lookup(s, u) PROVE IInv'
  <2> DEFINE v == [session[s] EXCEPT !.pc = IF byUuid[u] = None THEN "creating" ELSE "found",
                                    !.uuid = u, !.guard = byUuid[u]]
  <2>1. session' = [session EXCEPT ![s] = v]
    BY <1>6, <1>t DEF Lookup
  <2>2. byUuid[u] \in Room \union {None}
    BY <1>t
  <2>3. v \in SessionRec
    <3>1. [session[s] EXCEPT !.pc = IF byUuid[u] = None THEN "creating" ELSE "found"] \in SessionRec
      BY <1>t DEF SessionRec
    <3>2. [[session[s] EXCEPT !.pc = IF byUuid[u] = None THEN "creating" ELSE "found"]
              EXCEPT !.uuid = u] \in SessionRec
      BY <3>1 DEF SessionRec
    <3> DEFINE w == [[session[s] EXCEPT !.pc = IF byUuid[u] = None THEN "creating" ELSE "found"]
                        EXCEPT !.uuid = u]
    <3>3. v = [w EXCEPT !.guard = byUuid[u]]
      OBVIOUS
    <3> HIDE DEF w, v
    <3> QED BY <2>2, <3>2, <3>3 DEF SessionRec, w
  <2>4. /\ v.member = session[s].member /\ v.user = session[s].user
        /\ v.guard = byUuid[u] /\ v.uuid = u
        /\ v.pc = IF byUuid[u] = None THEN "creating" ELSE "found"
    BY <1>t DEF SessionRec
  <2>5. byUuid[u] # None => room[byUuid[u]].state = "room"
    BY DEF IInv, Whole, Named
  <2> HIDE DEF v
  <2> QED BY <1>6, <2>1, <2>2, <2>3, <2>4, <2>5, MoveKeeps DEF Lookup
<1>7. ASSUME NEW s \in Session, Decide(s) PROVE IInv'
  <2> DEFINE r == session[s].guard
  <2>1. r \in Room /\ session[s].uuid \in Uuid /\ session[s].guard # None
    BY <1>7, NoneAssumption DEF Decide, At, IInv, Places
  <2>2. CASE session' = Goto(s, "joining") /\ UNCHANGED room
    <3> DEFINE v == [session[s] EXCEPT !.pc = "joining"]
    <3>1. session' = [session EXCEPT ![s] = v] /\ v \in SessionRec
      BY <1>t, <2>2 DEF Goto, SessionRec
    <3>2. /\ v.member = session[s].member /\ v.user = session[s].user
          /\ v.guard = r /\ v.uuid = session[s].uuid /\ v.pc = "joining"
      BY <1>t DEF SessionRec
    <3>3. room[r].state = "room"
      BY <2>1 DEF IInv, Whole, Named
    <3> HIDE DEF v
    <3> QED BY <1>7, <2>1, <2>2, <3>1, <3>2, <3>3, MoveKeeps DEF Decide
  <2>3. ASSUME NEW p \in {"idle", "creating"}, NEW x \in Uuid \union {None},
               p = "creating" => x \in Uuid,
               session' = [session EXCEPT ![s].pc = p, ![s].uuid = x, ![s].guard = None],
               room' = [room EXCEPT ![r].leaked = TRUE]
        PROVE  IInv'
    <3>1. room' \in [Room -> RoomRec] /\
          \A y \in Room :
            /\ room'[y].state = room[y].state /\ room'[y].members = room[y].members
            /\ room'[y].uuid = room[y].uuid /\ room'[y].armed = room[y].armed
            /\ room'[y].closed = room[y].closed
            /\ y # r => room'[y] = room[y]
      <4> DEFINE v == [room[r] EXCEPT !.leaked = TRUE]
      <4>1. v \in RoomRec /\ v.state = room[r].state /\ v.members = room[r].members
              /\ v.uuid = room[r].uuid /\ v.armed = room[r].armed /\ v.closed = room[r].closed
        BY <1>t, <2>1 DEF RoomRec
      <4>2. room' = [room EXCEPT ![r] = v]
        BY <2>3
      <4> HIDE DEF v
      <4> QED BY <1>t, <2>1, <4>1, <4>2
    <3>2. room[r].state = "room"
      BY <2>1 DEF IInv, Whole, Named
    <3>3. Whole(room', member, session, byUuid)
      BY <3>1, <3>2, RoomStage DEF IInv
    <3>4. session' \in [Session -> SessionRec] /\
          \A y \in Session :
            /\ session'[y].member = session[y].member /\ session'[y].user = session[y].user
            /\ y # s => session'[y] = session[y]
      <4> DEFINE v == [session[s] EXCEPT !.pc = p, !.uuid = x, !.guard = None]
      <4>1. session' = [session EXCEPT ![s] = v]
        BY <1>t, <2>3
      <4>2. [session[s] EXCEPT !.pc = p] \in SessionRec
        BY <1>t DEF SessionRec
      <4>3. [[session[s] EXCEPT !.pc = p] EXCEPT !.uuid = x] \in SessionRec
        BY <4>2 DEF SessionRec
      <4>4. v \in SessionRec
        BY <4>3 DEF SessionRec
      <4>5. v.member = session[s].member /\ v.user = session[s].user
        BY <1>t DEF SessionRec
      <4> HIDE DEF v
      <4> QED BY <1>t, <4>1, <4>4, <4>5
    <3>5. session'[s].pc = p /\ session'[s].uuid = x /\ session'[s].guard = None
      BY <1>t, <2>3 DEF SessionRec
    <3>6. Whole(room', member, session', byUuid)
      <4>1. \A y \in Session : session'[y].guard # None => room'[session'[y].guard].state = "room"
        BY <3>1, <3>4, <3>5 DEF IInv, Whole, Named, Types, SessionRec
      <4> QED BY <3>3, <3>4, <4>1, SessionStage
    <3>7. Places(session')
      BY <2>3, <3>4, <3>5 DEF IInv, Places
    <3>8. Watched(room', timers, deciding, asked, {})
      BY <3>1, FlagTimers DEF IInv
    <3> QED BY <1>7, <3>6, <3>7, <3>8 DEF Decide, IInv
  <2>4. session' = [session EXCEPT ![s].pc = "idle", ![s].uuid = None, ![s].guard = None]
          /\ room' = [room EXCEPT ![r].leaked = TRUE] => IInv'
    BY <2>3
  <2>5. session' = [session EXCEPT ![s].pc = "creating", ![s].guard = None]
          /\ room' = [room EXCEPT ![r].leaked = TRUE] => IInv'
    <3>1. [session EXCEPT ![s].pc = "creating", ![s].guard = None] =
          [session EXCEPT ![s].pc = "creating", ![s].uuid = session[s].uuid, ![s].guard = None]
      <4>1. [[session[s] EXCEPT !.pc = "creating"] EXCEPT !.uuid = session[s].uuid] =
              [session[s] EXCEPT !.pc = "creating"]
        BY <1>t DEF SessionRec
      <4> QED BY <4>1, <1>t
    <3> QED BY <2>1, <2>3, <3>1
  <2> QED BY <1>7, <2>2, <2>4, <2>5 DEF Decide
<1>8. ASSUME NEW s \in Session, JoinRoom(s) PROVE IInv'
  <2> DEFINE r == byUuid[session[s].uuid]
             S == Goto(s, "joined")
  <2>1. session[s].pc = "joining" /\ session[s].uuid \in Uuid
    BY <1>8 DEF JoinRoom, At, IInv, Places
  <2>2. /\ S \in [Session -> SessionRec]
        /\ \A x \in Session : S[x].member = session[x].member /\ S[x].user = session[x].user
        /\ S[s].pc = "joined" /\ Places(S) /\ Whole(room, member, S, byUuid)
    BY <2>1, GotoKeeps
  <2> HIDE DEF S
  <2>3. CASE r = None /\ session' = S /\ UNCHANGED <<room, member, byUuid, timers>>
    BY <1>8, <2>2, <2>3 DEF JoinRoom, IInv, Watched
  <2>4. ASSUME r # None, NEW m \in Member, Join(s, r, m, room, S, byUuid) PROVE IInv'
    <3>1. r \in Room /\ room[r].state = "room"
      BY <1>t, <2>1, <2>4 DEF IInv, Whole, Named
    <3>4. Watched(room, timers, deciding, asked, {r})
      BY DEF IInv, Watched
    <3>2. Whole(room', member', session', byUuid') /\ Watched(room', timers', deciding, asked, {})
      <4> HIDE DEF r
      <4> QED BY <2>2, <2>4, <3>1, <3>4, JoinKeeps DEF IInv
    <3>3. Places(session')
      BY <2>2, <2>4, JoinPlaces
    <3> QED BY <1>8, <3>2, <3>3 DEF JoinRoom, IInv
  <2> QED BY <1>8, <2>3, <2>4 DEF JoinRoom, S
<1>9. ASSUME NEW s \in Session, DropGuard(s) PROVE IInv'
  <2> DEFINE S == [session EXCEPT ![s].pc = "idle", ![s].uuid = None, ![s].guard = None]
             v == [session[s] EXCEPT !.pc = "idle", !.uuid = None, !.guard = None]
  <2>1. Commit(room, member, S, byUuid) /\ UNCHANGED <<timers, deciding, asked>>
    BY <1>9 DEF DropGuard
  <2>2. S = [session EXCEPT ![s] = v]
    BY <1>t
  <2>3. v \in SessionRec
    <3>1. [session[s] EXCEPT !.pc = "idle"] \in SessionRec
      BY <1>t DEF SessionRec
    <3>2. [[session[s] EXCEPT !.pc = "idle"] EXCEPT !.uuid = None] \in SessionRec
      BY <3>1 DEF SessionRec
    <3> QED BY <3>2 DEF SessionRec
  <2>4. /\ v.member = session[s].member /\ v.user = session[s].user
        /\ v.guard = None /\ v.pc = "idle"
    BY <1>t DEF SessionRec
  <2> HIDE DEF v, S
  <2>5. S \in [Session -> SessionRec] /\ S[s] = v /\ \A x \in Session \ {s} : S[x] = session[x]
    BY <1>t, <2>2, <2>3
  <2>6. Places(S)
    BY <2>4, <2>5 DEF IInv, Places
  <2>7. Whole(room, member, S, byUuid)
    <3>1. \A x \in Session : S[x].guard # None => room[S[x].guard].state = "room"
      BY <2>4, <2>5 DEF IInv, Whole, Named
    <3>2. \A x \in Session : S[x].member = session[x].member /\ S[x].user = session[x].user
      BY <2>4, <2>5
    <3> QED BY <2>5, <3>1, <3>2, SessionStage DEF IInv
  <2>8. Whole(room', member', session', byUuid') /\ Watched(room', timers, deciding, asked, {})
    BY <2>1, <2>7, CommitStage, CommitTimers DEF IInv
  <2>9. session' = S
    BY <2>1 DEF Commit
  <2> QED BY <2>1, <2>6, <2>8, <2>9 DEF IInv
<1>b. ASSUME NEW s \in Session, session' = Back(s), session[s].pc # "off"
      PROVE  \E v \in SessionRec :
               /\ session' = [session EXCEPT ![s] = v]
               /\ v.member = session[s].member /\ v.user = session[s].user
               /\ v.guard = session[s].guard /\ v.pc = "idle"
  <2> DEFINE v == [session[s] EXCEPT !.pc = "idle", !.uuid = None, !.target = None]
  <2>1. session' = [session EXCEPT ![s] = v]
    BY <1>b, <1>t DEF Back
  <2>2. v \in SessionRec
    <3>1. [session[s] EXCEPT !.pc = "idle"] \in SessionRec
      BY <1>t DEF SessionRec
    <3>2. [[session[s] EXCEPT !.pc = "idle"] EXCEPT !.uuid = None] \in SessionRec
      BY <3>1 DEF SessionRec
    <3> QED BY <3>2 DEF SessionRec
  <2>3. /\ v.member = session[s].member /\ v.user = session[s].user
        /\ v.guard = session[s].guard /\ v.pc = "idle"
    BY <1>t DEF SessionRec
  <2> HIDE DEF v
  <2> QED BY <2>1, <2>2, <2>3
<1>g. \A s \in Session : session[s].guard # None => room[session[s].guard].state = "room"
  BY DEF IInv, Whole, Named
<1>10. ASSUME NEW s \in Session, session' = Back(s), session[s].pc # "off",
              UNCHANGED <<room, member, byUuid, timers, deciding, asked>>
       PROVE  IInv'
  <2>1. PICK v \in SessionRec :
               /\ session' = [session EXCEPT ![s] = v]
               /\ v.member = session[s].member /\ v.user = session[s].user
               /\ v.guard = session[s].guard /\ v.pc = "idle"
    BY <1>10, <1>b
  <2> QED BY <1>10, <1>g, <2>1, MoveKeeps
<1>11. ASSUME NEW s \in Session, CreateFails(s) PROVE IInv'
  BY <1>10, <1>11 DEF CreateFails, At
<1>12. ASSUME NEW s \in Session, NEW r \in Room, MakeRouter(s, r) PROVE IInv'
  <2> DEFINE v == [session[s] EXCEPT !.pc = "opening", !.target = r]
  <2>1. session' = [session EXCEPT ![s] = v]
    BY <1>12, <1>t DEF MakeRouter
  <2>2. v \in SessionRec
    <3>1. [session[s] EXCEPT !.pc = "opening"] \in SessionRec
      BY <1>t DEF SessionRec
    <3> QED BY <3>1 DEF SessionRec
  <2>3. /\ v.member = session[s].member /\ v.user = session[s].user
        /\ v.guard = session[s].guard /\ v.uuid = session[s].uuid /\ v.pc = "opening"
        /\ v.target = r
    BY <1>t DEF SessionRec
  <2>4. session[s].uuid \in Uuid
    BY <1>12 DEF MakeRouter, At, IInv, Places
  <2> HIDE DEF v
  <2>5. session' \in [Session -> SessionRec] /\ session'[s] = v
          /\ \A x \in Session \ {s} : session'[x] = session[x]
    BY <1>t, <2>1, <2>2
  <2>6. Places(session')
    BY <2>3, <2>4, <2>5 DEF IInv, Places
  <2>7. Whole(room, member, session', byUuid)
    <3>1. \A x \in Session : /\ session'[x].member = session[x].member
                             /\ session'[x].user = session[x].user
                             /\ session'[x].guard = session[x].guard
      BY <2>3, <2>5
    <3> QED BY <1>g, <2>5, <3>1, SessionStage DEF IInv
  <2>8. room[r] = FreeRoom /\ timers[r] < MaxTimers
    BY <1>12 DEF MakeRouter, IInv, Whole, Blank
  <2>9. room' = [room EXCEPT ![r] = Router]
    BY <1>12, <1>t, <2>8 DEF MakeRouter, Router
  <2>10. Router \in RoomRec /\ Router.state = "router" /\ Router.members = {}
    BY DEF Router, FreeRoom, RoomRec
  <2>11. FreeRoom.state = "free"
    BY DEF FreeRoom
  <2>12. room' \in [Room -> RoomRec] /\ room'[r] = Router
           /\ \A x \in Room \ {r} : room'[x] = room[x]
    BY <1>t, <2>9, <2>10
  <2>13. Whole(room', member, session', byUuid)
    <3>1. Types(room', member, session', byUuid) /\ Blank(room', member)
      BY <2>7, <2>10, <2>12 DEF Whole, Types, Blank
    <3>2. Agree(room', member, session')
      BY <1>t, <2>7, <2>8, <2>10, <2>11, <2>12 DEF Whole, Agree, MemberRec
    <3>3. Named(room', session', byUuid)
      BY <2>5, <1>t, <2>7, <2>8, <2>10, <2>11, <2>12 DEF Whole, Named, SessionRec
    <3>4. Once(room', member, session')
      BY <2>7, <2>10, <2>12 DEF Whole, Once
    <3> QED BY <3>1, <3>2, <3>3, <3>4 DEF Whole
  <2>14. Watched(room', timers, deciding, asked, {})
    BY <2>8, <2>10, <2>12 DEF IInv, Watched
  <2> QED BY <1>12, <2>6, <2>13, <2>14 DEF MakeRouter, IInv
<1>13. ASSUME NEW s \in Session, CreateRoom(s) PROVE IInv'
  <2> DEFINE r == session[s].target
             u == session[s].uuid
             S == Goto(s, "observing")
             R == [room EXCEPT ![r] = OpenRoom(u)]
             B == [byUuid EXCEPT ![u] = r]
  <2>1. session[s].pc = "opening" /\ u \in Uuid /\ r \in Room
    BY <1>13 DEF CreateRoom, At, IInv, Places
  <2>2. CASE session' = Back(s) /\ UNCHANGED <<room, member, byUuid, timers>>
    BY <1>10, <1>13, <2>1, <2>2 DEF CreateRoom
  <2>3. ASSUME NEW m \in Member, room[r].state = "router", Join(s, r, m, R, S, B) PROVE IInv'
    <3>1. /\ S \in [Session -> SessionRec]
          /\ \A x \in Session : S[x].member = session[x].member /\ S[x].user = session[x].user
          /\ S[s].pc = "observing" /\ Places(S) /\ Whole(room, member, S, byUuid)
      BY <2>1, GotoKeeps
    <3> HIDE DEF S
    <3>2. Whole(R, member, S, B) /\ R[r].state = "room" /\ Watched(R, timers, deciding, asked, {r})
      BY <2>1, <2>3, <3>1, OpenKeeps DEF IInv
    <3> HIDE DEF R, B, u
    <3>3. Whole(room', member', session', byUuid') /\ Watched(room', timers', deciding, asked, {})
      <4> HIDE DEF r
      <4> QED BY <2>1, <2>3, <3>1, <3>2, JoinKeeps
    <3>4. Places(session')
      BY <2>3, <3>1, JoinPlaces
    <3> QED BY <1>13, <3>3, <3>4 DEF CreateRoom, IInv
  <2> QED BY <1>13, <2>2, <2>3 DEF CreateRoom
<1>a. ASSUME NEW r \in Room, AskClose(r)
      PROVE  /\ Whole(room', member, session, byUuid) /\ asked' \subseteq asked \union {r}
             /\ asked \subseteq asked' /\ (room[r].state = "free" \/ r \in asked')
             /\ \A D : Watched(room, timers, D, asked', {}) => Watched(room', timers, D, asked', {})
  <2>1. FreeRoom.state = "free" /\ Router.pending = FALSE
    BY DEF FreeRoom, Router
  <2>2. room' \in [Room -> RoomRec] /\
        \A y \in Room :
            /\ room'[y].state = room[y].state /\ room'[y].members = room[y].members
            /\ room'[y].uuid = room[y].uuid /\ room'[y].armed = room[y].armed
            /\ room'[y].closed = room[y].closed
    <3> DEFINE p == room[r].pending \/ IsRoom(r)
    <3>1. p \in BOOLEAN
      BY <1>t DEF RoomRec
    <3>2. room' = [room EXCEPT ![r].pending = p]
      BY <1>a DEF AskClose
    <3> HIDE DEF p
    <3> QED BY <1>t, <3>1, <3>2 DEF RoomRec
  <2>3. \A y \in Room : room[y].state # "room" => room'[y] = room[y]
    <3>1. CASE IsRoom(r)
      BY <1>a, <1>t, <3>1 DEF AskClose, IsRoom
    <3>2. CASE ~IsRoom(r)
      <4>1. room[r].pending = (room[r].pending \/ IsRoom(r))
        BY <1>t, <3>2 DEF RoomRec
      <4>2. [room[r] EXCEPT !.pending = room[r].pending] = room[r]
        BY <1>t DEF RoomRec
      <4>3. room' = [room EXCEPT ![r] = [room[r] EXCEPT !.pending = room[r].pending \/ IsRoom(r)]]
        BY <1>a DEF AskClose
      <4> QED BY <1>t, <4>1, <4>2, <4>3
    <3> QED BY <3>1, <3>2
  <2>4. Whole(room', member, session, byUuid)
    BY <2>2, <2>3, RoomStage DEF IInv
  <2>5. \A D : Watched(room, timers, D, asked', {}) => Watched(room', timers, D, asked', {})
    BY <2>2 DEF Watched
  <2> QED BY <1>a, <2>4, <2>5 DEF AskClose
<1>14. ASSUME NEW s \in Session, EndCreate(s) PROVE IInv'
  <2> DEFINE r == session[s].target
  <2>1. session[s].pc = "observing" /\ r \in Room /\ session' = Back(s)
          /\ UNCHANGED <<member, byUuid, timers, deciding>>
    BY <1>14 DEF EndCreate, At, IInv, Places
  <2>2. CASE UNCHANGED <<room, asked>>
    BY <1>10, <2>1, <2>2
  <2>3. CASE AskClose(r)
    <3> HIDE DEF r
    <3>1. /\ Whole(room', member, session, byUuid) /\ asked' \subseteq Room /\ asked \subseteq asked'
          /\ \A D : Watched(room, timers, D, asked', {}) => Watched(room', timers, D, asked', {})
      BY <1>a, <2>1, <2>3 DEF IInv
    <3>2. PICK v \in SessionRec :
               /\ session' = [session EXCEPT ![s] = v]
               /\ v.member = session[s].member /\ v.user = session[s].user
               /\ v.guard = session[s].guard /\ v.pc = "idle"
      BY <1>b, <2>1
    <3>3. session' \in [Session -> SessionRec] /\ session'[s] = v
            /\ \A x \in Session \ {s} : session'[x] = session[x]
      BY <1>t, <3>2
    <3>4. \A x \in Session : /\ session'[x].member = session[x].member
                             /\ session'[x].user = session[x].user
                             /\ session'[x].guard = session[x].guard
      BY <3>2, <3>3
    <3>5. \A x \in Session : session'[x].guard # None => room'[session'[x].guard].state = "room"
      BY <3>1, <3>4 DEF Whole, Named
    <3>6. Whole(room', member, session', byUuid)
      BY <3>1, <3>3, <3>4, <3>5, SessionStage
    <3>7. Places(session')
      BY <3>2, <3>3 DEF IInv, Places
    <3>8. Watched(room', timers, deciding, asked', {})
      <4>1. Watched(room, timers, deciding, asked', {})
        BY <3>1 DEF IInv, Watched
      <4> QED BY <3>1, <4>1
    <3> QED BY <2>1, <3>1, <3>6, <3>7, <3>8 DEF IInv
  <2> QED BY <1>14, <2>2, <2>3 DEF EndCreate
<1>15. ASSUME NEW r \in Room, IdleTask(r) PROVE IInv'
  <2>1. /\ timers[r] > 0 /\ timers' = [timers EXCEPT ![r] = @ - 1]
        /\ UNCHANGED <<session, member, byUuid, asked>>
    BY <1>15 DEF IdleTask
  <2>2. /\ timers' \in [Room -> 0..MaxTimers] /\ timers'[r] = timers[r] - 1
        /\ timers'[r] < MaxTimers
        /\ \A x \in Room \ {r} : timers'[x] = timers[x]
    BY <1>t, <2>1, MaxTimersAssumption
  <2>3. CASE ~IsRoom(r) /\ UNCHANGED <<room, deciding>>
    <3>1. Watched(room, timers', deciding, asked, {})
      BY <2>2, <2>3 DEF IInv, Watched, IsRoom
    <3> QED BY <2>1, <2>3, <3>1 DEF IInv, Places
  <2>4. CASE deciding' = deciding \union {r} /\ UNCHANGED room
    <3>1. Watched(room, timers', deciding', asked, {})
      BY <2>2, <2>4 DEF IInv, Watched
    <3> QED BY <2>1, <2>4, <3>1 DEF IInv, Places
  <2>5. CASE IsRoom(r) /\ room[r].members # {} /\ room' = [room EXCEPT ![r].armed = FALSE]
               /\ UNCHANGED deciding
    <3>1. room' \in [Room -> RoomRec] /\ room'[r].armed = FALSE /\
          \A y \in Room :
            /\ room'[y].state = room[y].state /\ room'[y].members = room[y].members
            /\ room'[y].uuid = room[y].uuid /\ room'[y].closed = room[y].closed
            /\ y # r => room'[y] = room[y]
      <4> DEFINE p == [room[r] EXCEPT !.armed = FALSE]
      <4>1. room' = [room EXCEPT ![r] = p]
        BY <2>5
      <4>2. /\ p \in RoomRec /\ p.armed = FALSE /\ p.state = room[r].state
            /\ p.members = room[r].members /\ p.uuid = room[r].uuid /\ p.closed = room[r].closed
        BY <1>t DEF RoomRec
      <4> HIDE DEF p
      <4> QED BY <1>t, <4>1, <4>2
    <3>2. Whole(room', member, session, byUuid)
      <4>1. \A y \in Room : room[y].state # "room" => room'[y] = room[y]
        BY <2>5, <3>1 DEF IsRoom
      <4>2. \A y \in Room : room'[y].members = room[y].members
        BY <3>1
      <4> QED BY <3>1, <4>1, RoomStage DEF IInv
    <3>3. Watched(room', timers', deciding, asked, {})
      BY <2>2, <2>5, <3>1 DEF IInv, Watched
    <3> QED BY <2>1, <2>5, <3>2, <3>3 DEF IInv, Places
  <2> QED BY <1>15, <2>3, <2>4, <2>5 DEF IdleTask
<1>16. ASSUME NEW r \in Room, IdleClose(r) PROVE IInv'
  <2>1. /\ AskClose(r) /\ deciding' = deciding \ {r}
        /\ UNCHANGED <<session, member, byUuid, timers>>
    BY <1>16 DEF IdleClose
  <2>2. /\ Whole(room', member, session, byUuid) /\ asked' \subseteq Room
        /\ asked \subseteq asked' /\ (room[r].state = "free" \/ r \in asked')
        /\ \A D : Watched(room, timers, D, asked', {}) => Watched(room', timers, D, asked', {})
    BY <1>a, <2>1 DEF IInv
  <2>3. Watched(room, timers, deciding', asked', {})
    BY <2>1, <2>2 DEF IInv, Watched
  <2>4. Watched(room', timers, deciding', asked', {})
    BY <2>2, <2>3
  <2> QED BY <2>1, <2>2, <2>4 DEF IInv, Places
<1>17. ASSUME NEW r \in Room, RouterClosed(r) PROVE IInv'
  <2>1. r \in asked /\ asked' = asked \ {r} /\ UNCHANGED deciding
    BY <1>17 DEF RouterClosed
  <2>2. CASE /\ room[r].state = "router" /\ room' = [room EXCEPT ![r] = FreeRoom]
             /\ UNCHANGED <<session, member, byUuid, timers>>
    <3>1. FreeRoom \in RoomRec /\ FreeRoom.state = "free" /\ FreeRoom.members = {}
      BY DEF FreeRoom, RoomRec
    <3>2. room' \in [Room -> RoomRec] /\ room'[r] = FreeRoom
            /\ \A x \in Room \ {r} : room'[x] = room[x]
      BY <1>t, <2>2, <3>1
    <3>3. Types(room', member, session, byUuid) /\ Blank(room', member)
      BY <3>1, <3>2 DEF IInv, Whole, Types, Blank
    <3>4. Agree(room', member, session)
      BY <1>t, <2>2, <3>1, <3>2 DEF IInv, Whole, Agree, MemberRec
    <3>5. Named(room', session, byUuid)
      BY <1>t, <2>2, <3>2 DEF IInv, Whole, Named, SessionRec
    <3>6. Once(room', member, session)
      BY <3>1, <3>2 DEF IInv, Whole, Once
    <3>7. Watched(room', timers, deciding, asked', {})
      BY <2>1, <3>1, <3>2 DEF IInv, Watched
    <3> QED BY <2>1, <2>2, <3>3, <3>4, <3>5, <3>6, <3>7 DEF IInv, Whole, Places
  <2>3. CASE IsRoom(r) /\ ~room[r].closed
    <3> DEFINE C == room[r].members
               R == [room EXCEPT ![r].closed = TRUE, ![r].pending = TRUE]
    <3>1. /\ Commit(WithoutMembers(R, C), ClosedMembers(member, C), Unbound(session, C), byUuid)
          /\ timers' = TimersAfter(R, C)
      BY <1>17, <2>3 DEF RouterClosed, IsRoom
    <3>2. R \in [Room -> RoomRec] /\ R[r].closed = TRUE /\
          \A y \in Room :
            /\ R[y].state = room[y].state /\ R[y].members = room[y].members
            /\ R[y].uuid = room[y].uuid /\ R[y].armed = room[y].armed
            /\ y # r => R[y] = room[y]
      <4> DEFINE v == [room[r] EXCEPT !.closed = TRUE]
      <4>1. v \in RoomRec /\ v.closed = TRUE /\ v.state = room[r].state
              /\ v.members = room[r].members /\ v.uuid = room[r].uuid /\ v.armed = room[r].armed
        BY <1>t DEF RoomRec
      <4>2. R = [room EXCEPT ![r] = [v EXCEPT !.pending = TRUE]]
        BY <1>t
      <4> HIDE DEF v, R
      <4> QED BY <1>t, <4>1, <4>2 DEF RoomRec
    <3>3. C \in SUBSET {m \in Member : Registered(m)}
      BY <1>t, NoneAssumption DEF RoomRec, IInv, Whole, Agree, Registered
    <3> HIDE DEF R, C
    <3>4. Whole(R, member, session, byUuid)
      <4>1. \A y \in Room : room[y].state # "room" => R[y] = room[y]
        BY <2>3, <3>2 DEF IsRoom
      <4> QED BY <3>2, <4>1, RoomStage DEF IInv
    <3>5. Watched(R, timers, deciding, asked', {})
      BY <2>1, <3>2 DEF IInv, Watched
    <3>6. Unbound(session, C) \in [Session -> SessionRec] /\
          \A x \in Session :
            /\ Unbound(session, C)[x].user = session[x].user
            /\ Unbound(session, C)[x].guard = session[x].guard
            /\ Unbound(session, C)[x].pc = session[x].pc
            /\ Unbound(session, C)[x].uuid = session[x].uuid
            /\ Unbound(session, C)[x].target = session[x].target
            /\ session[x].member = None => Unbound(session, C)[x].member = None
      BY <1>t DEF Unbound, SessionRec
    <3>7. /\ Whole(room', member', session', byUuid')
          /\ Watched(room', timers', deciding, asked', {})
      BY <3>1, <3>3, <3>4, <3>5, <3>6, CloseKeeps
    <3>8. Places(session')
      BY <3>1, <3>6 DEF Commit, IInv, Places
    <3> QED BY <2>1, <3>7, <3>8 DEF IInv
  <2>4. CASE /\ room[r].state = "free" \/ room[r].closed
             /\ UNCHANGED <<session, room, member, byUuid, timers>>
    <3>1. Watched(room, timers, deciding, asked', {})
      BY <2>1, <2>4 DEF IInv, Watched
    <3> QED BY <2>1, <2>4, <3>1 DEF IInv
  <2> QED BY <1>17, <2>2, <2>3, <2>4 DEF RouterClosed
<1>18. ASSUME WorkerExit PROVE IInv'
  <2>1. asked \subseteq asked' /\ asked' \subseteq asked \union Room
          /\ UNCHANGED <<session, room, member, byUuid, timers, deciding>>
    BY <1>18 DEF WorkerExit
  <2>2. Watched(room, timers, deciding, asked', {})
    BY <2>1 DEF IInv, Watched
  <2> QED BY <2>1, <2>2 DEF IInv
<1>19. ASSUME UNCHANGED vars PROVE IInv'
  BY <1>19 DEF vars, IInv
<1> QED
  BY <1>1, <1>2, <1>3, <1>4, <1>5, <1>6, <1>7, <1>8, <1>9, <1>11, <1>12, <1>13, <1>14, <1>15,
     <1>16, <1>17, <1>18, <1>19 DEF Next
-----------------------------------------------------------------------------
(* What follows.                                                           *)

LEMMA Invariance == Spec => []IInv
<1>1. Init => IInv
  BY InitIInv
<1>2. IInv /\ [Next]_vars => IInv'
  BY NextIInv
<1> QED BY <1>1, <1>2, PTL DEF Spec

(* Every variable keeps its type; an address never has more timers than     *)
(* MaxTimers.                                                               *)
THEOREM TypeCorrect == Spec => []TypeOK
<1>1. IInv => TypeOK
  BY DEF IInv, Whole, Types, Watched, TypeOK, RoomRec, MemberRec, SessionRec
<1> QED BY <1>1, Invariance, PTL

(* Rooms, members and sessions agree on who is where, whatever joins,       *)
(* replacements, disconnections and closings come together.                 *)
THEOREM MembersAlwaysAgree == Spec => []MembersAgree
<1>1. IInv => MembersAgree
  BY DEF IInv, Whole, Agree, MembersAgree, Registered
<1> QED BY <1>1, Invariance, PTL

(* A room that is referred to, by a member, by a handler that has looked it *)
(* up or by the map of uuids, is not freed.                                 *)
THEOREM NothingDangles == Spec => []NoDangling
<1>1. IInv => NoDangling
  BY DEF IInv, Whole, Agree, Named, NoDangling, Registered, IsRoom
<1> QED BY <1>1, Invariance, PTL

(* A user is in a room once, from however many sessions they join.          *)
THEOREM UsersOnce == Spec => []OncePerUser
<1>1. IInv => OncePerUser
  BY DEF IInv, Whole, Once, OncePerUser
<1> QED BY <1>1, Invariance, PTL

(* An open room without members is watched: a timer is running for it, its  *)
(* task is about to close it, or its close event is on its way.             *)
THEOREM AbandonedWatched == Spec => []EmptyWatched
<1>1. IInv => EmptyWatched
  BY DEF IInv, Watched, EmptyWatched, Open, IsRoom
<1> QED BY <1>1, Invariance, PTL-----------------------------------------------------------------------------
(* Closing a room.                                                         *)

\* A critical section frees no room that is not closed.
LEMMA CommitOpen ==
  ASSUME NEW R, NEW M, NEW S, NEW B, Commit(R, M, S, B), NEW q \in Room,
         R[q].state = "room", ~R[q].closed
  PROVE  Open(q)'
<1>1. room'[q] = R[q]
  BY DEF Commit
<1> QED BY <1>1 DEF Open, IsRoom

\* Members that leave, and one that joins, leave a room open.
LEMMA JoinOpen ==
  ASSUME NEW R \in [Room -> RoomRec], NEW S, NEW B, NEW s, NEW r, NEW m,
         Join(s, r, m, R, S, B), NEW q \in Room, R[q].state = "room", ~R[q].closed
  PROVE  Open(q)'
<1>1. PICK C, M, Z : Commit([WithoutMembers(R, C) EXCEPT ![r].members = @ \union {m},
                                                        ![r].waiting = FALSE], M, Z, B)
  BY DEF Join
<1> DEFINE L == WithoutMembers(R, C)
<1>2. L \in [Room -> RoomRec] /\ L[q].state = "room" /\ ~L[q].closed
  BY LeftRooms
<1> HIDE DEF L
<1>3. /\ [L EXCEPT ![r].members = @ \union {m}, ![r].waiting = FALSE][q].state = "room"
      /\ ~[L EXCEPT ![r].members = @ \union {m}, ![r].waiting = FALSE][q].closed
  BY <1>2 DEF RoomRec
<1>4. Commit([L EXCEPT ![r].members = @ \union {m}, ![r].waiting = FALSE], M, Z, B)
  BY <1>1 DEF L
<1> QED BY <1>3, <1>4, CommitOpen

\* Only the event of a router closes a room.
LEMMA OnlyEventCloses ==
  ASSUME IInv, Next, NEW q \in Room, Open(q), ~Open(q)'
  PROVE  RouterClosed(q)
<1>t. session \in [Session -> SessionRec] /\ room \in [Room -> RoomRec]
  BY DEF IInv, Whole, Types
<1>o. room[q].state = "room" /\ ~room[q].closed
  BY DEF Open, IsRoom
<1>1. UNCHANGED room => FALSE
  BY DEF Open, IsRoom
<1>2. ASSUME \A y \in Room : room'[y].state = room[y].state /\ room'[y].closed = room[y].closed
      PROVE  FALSE
  BY <1>2 DEF Open, IsRoom
<1>3. ASSUME NEW S, NEW C, CloseMembers(S, C) PROVE FALSE
  <2>1. WithoutMembers(room, C)[q].state = "room" /\ ~WithoutMembers(room, C)[q].closed
    BY <1>t, <1>o, LeftRooms
  <2>2. \E M, Z : Commit(WithoutMembers(room, C), M, Z, byUuid)
    BY <1>3 DEF CloseMembers
  <2> QED BY <2>1, <2>2, CommitOpen
<1>4. ASSUME NEW M, NEW S, Commit(room, M, S, byUuid) PROVE FALSE
  BY <1>o, <1>4, CommitOpen
<1>5. ASSUME NEW r \in Room, AskClose(r) PROVE FALSE
  <2>1. \A y \in Room : room'[y].state = room[y].state /\ room'[y].closed = room[y].closed
    <3> DEFINE p == room[r].pending \/ IsRoom(r)
    <3>1. room' = [room EXCEPT ![r].pending = p]
      BY <1>5 DEF AskClose
    <3> HIDE DEF p
    <3> QED BY <1>t, <3>1 DEF RoomRec
  <2> QED BY <1>2, <2>1
<1>6. ASSUME NEW s \in Session, JoinRoom(s) \/ CreateRoom(s) PROVE FALSE
  <2>1. \A r, m, S : ~Join(s, r, m, room, S, byUuid)
    BY <1>t, <1>o, JoinOpen
  <2>2. CASE JoinRoom(s)
    BY <1>1, <2>1, <2>2 DEF JoinRoom
  <2>3. CASE CreateRoom(s)
    <3> DEFINE r == session[s].target
               R == [room EXCEPT ![r] = OpenRoom(session[s].uuid)]
    <3>1. r \in Room /\ session[s].uuid \in Uuid
      BY <2>3 DEF CreateRoom, At, IInv, Places
    <3>2. OpenRoom(session[s].uuid) \in RoomRec
      BY <3>1 DEF OpenRoom, FreeRoom, RoomRec
    <3>3. room[r].state = "router" => R \in [Room -> RoomRec] /\ R[q].state = "room" /\ ~R[q].closed
      BY <1>t, <1>o, <3>2
    <3>4. \A m, S, B : room[r].state = "router" => ~Join(s, r, m, R, S, B)
      <4> HIDE DEF R
      <4> QED BY <3>3, JoinOpen
    <3> QED BY <1>1, <2>3, <3>4 DEF CreateRoom
  <2> QED BY <1>6, <2>2, <2>3
<1>7. ASSUME NEW s \in Session, NEW u \in User, Connect(s, u) PROVE FALSE
  BY <1>1, <1>7 DEF Connect
<1>8. ASSUME NEW s \in Session, Leave(s) \/ Disconnect(s) PROVE FALSE
  BY <1>3, <1>8 DEF Leave, Disconnect
<1>9. ASSUME NEW m \in Member, Pin(m) \/ Unpin(m) PROVE FALSE
  BY <1>1, <1>4, <1>9 DEF Pin, Unpin
<1>10. ASSUME NEW s \in Session, NEW u \in Uuid, Lookup(s, u) PROVE FALSE
  BY <1>1, <1>10 DEF Lookup
<1>11. ASSUME NEW s \in Session, Decide(s) PROVE FALSE
  <2>1. room' = [room EXCEPT ![session[s].guard].leaked = TRUE] => FALSE
    <3>1. room' = [room EXCEPT ![session[s].guard].leaked = TRUE] =>
            \A y \in Room : room'[y].state = room[y].state /\ room'[y].closed = room[y].closed
      BY <1>t DEF RoomRec
    <3> QED BY <1>2, <3>1
  <2> QED BY <1>1, <1>11, <2>1 DEF Decide
<1>12. ASSUME NEW s \in Session, DropGuard(s) \/ CreateFails(s) \/ EndCreate(s) PROVE FALSE
  <2>1. EndCreate(s) => FALSE
    <3>1. EndCreate(s) => session[s].target \in Room
      BY DEF EndCreate, At, IInv, Places
    <3> QED BY <1>1, <1>5, <3>1 DEF EndCreate
  <2> QED BY <1>1, <1>4, <1>12, <2>1 DEF DropGuard, CreateFails
<1>13. ASSUME NEW s \in Session, NEW r \in Room, MakeRouter(s, r) PROVE FALSE
  <2>1. room'[q] = room[q]
    BY <1>t, <1>o, <1>13 DEF MakeRouter
  <2> QED BY <1>o, <2>1 DEF Open, IsRoom
<1>14. ASSUME NEW r \in Room, IdleTask(r) PROVE FALSE
  <2>1. room' = [room EXCEPT ![r].armed = FALSE] => FALSE
    <3>1. room' = [room EXCEPT ![r].armed = FALSE] =>
            \A y \in Room : room'[y].state = room[y].state /\ room'[y].closed = room[y].closed
      BY <1>t DEF RoomRec
    <3> QED BY <1>2, <3>1
  <2> QED BY <1>1, <1>14, <2>1 DEF IdleTask
<1>15. ASSUME NEW r \in Room, IdleClose(r) PROVE FALSE
  BY <1>5, <1>15 DEF IdleClose
<1>16. ASSUME NEW r \in Room \ {q}, RouterClosed(r) PROVE FALSE
  <2>1. room' = [room EXCEPT ![r] = FreeRoom] => FALSE
    <3>1. room' = [room EXCEPT ![r] = FreeRoom] => room'[q] = room[q]
      BY <1>t
    <3> QED BY <1>o, <3>1 DEF Open, IsRoom
  <2> DEFINE R == [room EXCEPT ![r].closed = TRUE, ![r].pending = TRUE]
  <2>2. R \in [Room -> RoomRec] /\ R[q] = room[q]
    <3>1. [room[r] EXCEPT !.closed = TRUE] \in RoomRec
      BY <1>t DEF RoomRec
    <3>2. [[room[r] EXCEPT !.closed = TRUE] EXCEPT !.pending = TRUE] \in RoomRec
      BY <3>1 DEF RoomRec
    <3> QED BY <1>t, <3>2
  <2> HIDE DEF R
  <2>3. ASSUME NEW C, NEW M, NEW S, Commit(WithoutMembers(R, C), M, S, byUuid) PROVE FALSE
    BY <1>o, <2>2, <2>3, LeftRooms, CommitOpen
  <2> QED BY <1>1, <1>16, <2>1, <2>3 DEF RouterClosed, R
<1>17. WorkerExit => FALSE
  BY <1>1 DEF WorkerExit
<1> QED
  BY <1>6, <1>7, <1>8, <1>9, <1>10, <1>11, <1>12, <1>13, <1>14, <1>15, <1>16, <1>17 DEF Next

(* The step that closes a room ends the membership of all who are in it.    *)
THEOREM ClosingAlwaysEmpties == Spec => ClosingEmpties
<1> DEFINE Emptied(r) == Open(r) /\ ~Open(r)' =>
             \A m \in room[r].members : member'[m] = FreeMember \/ member'[m].closed
<1>1. ASSUME IInv, [Next]_vars, NEW r \in Room PROVE [Emptied(r)]_vars
  <2> SUFFICES ASSUME Next, Open(r), ~Open(r)', NEW m \in room[r].members
               PROVE  member'[m] = FreeMember \/ member'[m].closed
    BY <1>1
  <2>1. RouterClosed(r)
    BY <1>1, OnlyEventCloses
  <2>2. \E R, S : Commit(R, ClosedMembers(member, room[r].members), S, byUuid)
    BY <2>1 DEF RouterClosed, Open, IsRoom
  <2>3. m \in Member
    BY <1>1 DEF IInv, Whole, Types, RoomRec
  <2>4. ClosedMembers(member, room[r].members)[m].closed
    BY <1>1, <2>3 DEF ClosedMembers, IInv, Whole, Types, MemberRec
  <2> QED BY <2>2, <2>3, <2>4 DEF Commit
<1>2. IInv /\ [Next]_vars => [\A r \in Room : Emptied(r)]_vars
  BY <1>1
<1>3. Spec => [][\A r \in Room : Emptied(r)]_vars
  BY <1>2, Invariance, PTL DEF Spec
<1> QED BY <1>3 DEF ClosingEmpties
=============================================================================
