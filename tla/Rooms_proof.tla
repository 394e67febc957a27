---------------------------- MODULE Rooms_proof ----------------------------
(***************************************************************************)
(* The two sides of MCRooms.                                               *)
(*                                                                         *)
(* RoomStreams, for any members, transports, producers, consumers and      *)
(* failures: who has asked for the streams of the others gets a consumer   *)
(* for each of them, and what a member leaves behind is closed.            *)
(*                                                                         *)
(* RoomHistory, for any users, uuids, sessions and restarts: what the      *)
(* event thread has logged stays, in the log of its own session, and a     *)
(* user's list shows the rooms it was last in.                             *)
(***************************************************************************)
EXTENDS MCRooms, FiniteSetTheorems, SequenceTheorems, WellFoundedInduction, TLAPS

Taken(r) == st[r] # "free"

\* What is referred to, or about to be closed, was created; what the event thread
\* has collected from, or drops, is closed as far as it is a transport.
Used ==
  /\ \A m \in Member : \A r \in refs[m] : Taken(r)
  /\ \A m \in Member : \A i \in DOMAIN recvs[m] : Taken(recvs[m][i])
  /\ \A r \in closes : Taken(r) /\ r \notin Consumer
  /\ hand.from # None => st[hand.from] = "closed"
  /\ \A i \in DOMAIN hand.ids : hand.ids[i] \in Transport => st[hand.ids[i]] = "closed"

Parents ==
  \A c \in Consumer : Taken(c) =>
    up[c] \in Producer /\ Taken(up[c]) /\ via[c] \in Recv /\ Taken(via[c])

\* Requests work on what they made, for members of this room.
WorksOn(x) ==
  /\ request[x].do = "init" => \A t \in request[x].made : Taken(t) /\ up[t] = x
  /\ request[x].do = "produce" => Taken(request[x].p)
  /\ Now(x) # None =>
       /\ Taken(Now(x).p) /\ Taken(Now(x).t) /\ up[Now(x).t] = Now(x).to
       /\ {Now(x).to, Now(x).of} \subseteq members \union left
       /\ Now(x).c # None =>
            Taken(Now(x).c) /\ up[Now(x).c] = Now(x).p /\ via[Now(x).c] = Now(x).t
Works == \A x \in Member : WorksOn(x)

OwnTransports == \A m \in Member : \A t \in Transport : t \in refs[m] => up[t] = m

Joined ==
  /\ members \cap left = {}
  /\ \A m \in Member \ (members \union left) : refs[m] = {} /\ ~acquired[m] /\ request[m] = Idle

\* Who has left and is not held by a request has nothing.
Gone == \A m \in left : Held(m) \/ refs[m] = {}

\* An open transport is that of its member, or the one its member is about to get,
\* or about to be closed.
Placed ==
  \A t \in Transport : st[t] = "open" =>
    /\ up[t] \in Member
    /\ \/ t \in closes \/ t \in refs[up[t]]
       \/ request[up[t]].do = "init" /\ t \in request[up[t]].made

\* While a member's receiving transport is replaced, those it had are being closed.
Replaced(m) ==
  request[m].do = "init" /\ ("recv" \in request[m].want \/ request[m].made \cap Recv # {})

Replacing ==
  \A m \in Member :
    /\ Replaced(m) => ~acquired[m] /\ \A t \in refs[m] \cap Recv : st[t] = "open" => t \in closes
    /\ request[m].do = "init" =>
         /\ "recv" \in request[m].want => request[m].made \cap Recv = {}
         /\ \A a, b \in request[m].made \cap Recv : a = b
         /\ \A i \in DOMAIN recvs[m] : recvs[m][i] \notin request[m].made

\* The newest is the only one that is neither closed nor about to be.
OnlyFirst ==
  /\ \A m \in Member : \A i \in DOMAIN recvs[m] :
       i > 1 /\ recvs[m][i] \in refs[m] /\ st[recvs[m][i]] = "open" => recvs[m][i] \in closes
  /\ \A m \in Member : \A t \in refs[m] \cap Recv : \E i \in DOMAIN recvs[m] : recvs[m][i] = t

\* A consumer is closed with its producer or its transport, or because its creation
\* failed.
WhyClosed ==
  \A c \in Consumer : st[c] = "closed" =>
    st[up[c]] = "closed" \/ st[via[c]] = "closed" \/ <<up[via[c]], up[c]>> \in missed

\* m has a consumer of p on t, or a request is to create one, on t if it has begun.
Served(m, p, t) ==
  \/ \E c \in Consumer : st[c] = "open" /\ up[c] = p /\ via[c] = t
  \/ \E x \in Member : /\ request[x].do = "offer"
                       /\ \/ <<m, p>> \in request[x].todo
                          \/ Now(x) # None /\ Now(x).to = m /\ Now(x).p = p /\ Now(x).t = t

Wanted(m, y, p, t) ==
  /\ m # y /\ acquired[m] /\ t \in refs[m] /\ p \in refs[y]
  /\ st[t] = "open" /\ t \notin closes /\ st[p] = "open" /\ <<m, p>> \notin missed

Reach ==
  \A m, y \in members : \A p \in Producer : \A t \in Recv : Wanted(m, y, p, t) => Served(m, p, t)

IInv ==
  /\ TypeOK /\ Used /\ Parents /\ Works /\ OwnTransports /\ Joined /\ Gone /\ Placed
  /\ Replacing /\ OnlyFirst /\ WhyClosed /\ Reach
-----------------------------------------------------------------------------
(* What IInv means for the properties.                                     *)

LEMMA Apart ==
  /\ Recv \cap Send = {} /\ Producer \cap Consumer = {}
  /\ Transport \cap Producer = {} /\ Transport \cap Consumer = {}
  /\ None \notin Res /\ None \notin Member
  /\ Recv \subseteq Transport /\ Send \subseteq Transport /\ Transport \subseteq Res
  /\ Producer \subseteq Res /\ Consumer \subseteq Res
BY RoomStreamsAssumption DEF Transport, Res

LEMMA Smallest ==
  ASSUME NEW S \in SUBSET Nat, S # {}
  PROVE  \E i \in S : \A j \in S : i <= j
<1>1. S \subseteq Nat /\ S # {}
  OBVIOUS
<1>2. PICK i \in S : \A j \in S : ~(<<j, i>> \in OpToRel(<, Nat))
  BY <1>1, NatLessThanWellFounded, WFMin
<1>3. \A j \in S : ~(j < i)
  BY <1>1, <1>2 DEF OpToRel
<1> QED BY <1>1, <1>3

Live(m) == {i \in DOMAIN recvs[m] : recvs[m][i] \in refs[m] /\ st[recvs[m][i]] = "open"}

\* The transport that is found for a member is one it has, the first that is open.
LEMMA RelayIsOpen ==
  ASSUME TypeOK, NEW m \in Member, Relay(m) # None
  PROVE  Relay(m) \in Recv /\ Relay(m) \in refs[m] /\ st[Relay(m)] = "open"
<1>1. recvs[m] \in Seq(Recv) /\ DOMAIN recvs[m] \subseteq Nat
  BY DEF TypeOK
<1>2. Live(m) # {} /\ Relay(m) = recvs[m][CHOOSE i \in Live(m) : \A j \in Live(m) : i <= j]
  BY DEF Relay, Live
<1>3. \E i \in Live(m) : \A j \in Live(m) : i <= j
  BY <1>1, <1>2, Smallest DEF Live
<1>4. PICK i \in Live(m) : Relay(m) = recvs[m][i]
  BY <1>2, <1>3
<1>5. recvs[m][i] \in Recv
  BY <1>1, <1>4 DEF Live
<1> QED BY <1>4, <1>5 DEF Live

\* One that is not about to be closed is the one that is found.
LEMMA RelayIsNewest ==
  ASSUME TypeOK, OnlyFirst, NEW m \in Member, NEW t \in Recv, t \in refs[m], st[t] = "open",
         t \notin closes
  PROVE  Relay(m) = t
<1>1. PICK i \in DOMAIN recvs[m] : recvs[m][i] = t
  BY DEF OnlyFirst
<1>2. recvs[m] \in Seq(Recv) /\ DOMAIN recvs[m] = 1..Len(recvs[m]) /\ Len(recvs[m]) \in Nat
  BY DEF TypeOK
<1>3. i = 1
  BY <1>1, <1>2 DEF OnlyFirst
<1>4. 1 \in Live(m) /\ \A j \in Live(m) : 1 <= j
  BY <1>1, <1>2, <1>3 DEF Live
<1>5. \A k \in Live(m) : (\A j \in Live(m) : k <= j) => k = 1
  BY <1>2, <1>4 DEF Live
<1>6. (CHOOSE k \in Live(m) : \A j \in Live(m) : k <= j) = 1
  BY <1>4, <1>5
<1>7. Relay(m) = IF Live(m) = {} THEN None
                 ELSE recvs[m][CHOOSE k \in Live(m) : \A j \in Live(m) : k <= j]
  BY DEF Relay, Live
<1> QED BY <1>1, <1>3, <1>4, <1>6, <1>7

LEMMA IInvReaches == IInv => StreamsReach
<1> SUFFICES ASSUME IInv, NEW m \in members, NEW p \in Producer,
                    acquired[m], Relay(m) # None, Relay(m) \notin closes,
                    p \in Streams(m), ~Pending(m, p), <<m, p>> \notin missed
             PROVE  \E c \in Consumer : st[c] = "open" /\ up[c] = p /\ via[c] = Relay(m)
  BY DEF StreamsReach
<1>1. m \in Member
  BY DEF IInv, TypeOK
<1>2. Relay(m) \in Recv /\ Relay(m) \in refs[m] /\ st[Relay(m)] = "open"
  BY <1>1, RelayIsOpen DEF IInv
<1>3. PICK y \in members \ {m} : p \in refs[y]
  BY DEF Streams
<1>4. st[p] = "open"
  BY DEF Streams
<1>5. Served(m, p, Relay(m))
  BY <1>2, <1>3, <1>4 DEF IInv, Reach, Wanted
<1>6. ASSUME NEW x \in Member, request[x].do = "offer",
             \/ <<m, p>> \in request[x].todo
             \/ Now(x) # None /\ Now(x).to = m /\ Now(x).p = p /\ Now(x).t = Relay(m)
      PROVE  FALSE
  BY <1>6 DEF Pending, Now
<1> QED BY <1>5, <1>6 DEF Served

LEMMA IInvCloses == IInv => LeaversClosed
<1> SUFFICES ASSUME IInv, NEW t \in Transport, st[t] = "open", up[t] \in left
             PROVE  t \in closes \/ Held(up[t])
  BY DEF LeaversClosed
<1>1. up[t] \in Member
  BY DEF IInv, Placed
<1>2. Held(up[t]) \/ refs[up[t]] = {}
  BY DEF IInv, Gone
<1>3. request[up[t]].do = "init" => Held(up[t])
  BY DEF Held
<1> QED BY <1>1, <1>2, <1>3 DEF IInv, Placed
-----------------------------------------------------------------------------
(* What the steps are made of.                                             *)

InitRequest == [do : {"init"}, want : SUBSET {"recv", "send"}, made : SUBSET Transport]
ProduceRequest == [do : {"produce"}, t : Send, p : Producer]
OfferRequest ==
  [do : {"offer"}, todo : SUBSET (Member \X Producer), now : {None} \union Offer,
   pin : {None} \union Producer]

LEMMA Requests == Request = {Idle} \union InitRequest \union ProduceRequest \union OfferRequest
BY DEF Request, InitRequest, ProduceRequest, OfferRequest

\* What a member's request consists of, by what it does.
LEMMA RequestOf ==
  ASSUME TypeOK, NEW m \in Member
  PROVE  /\ request[m].do \in {"idle", "init", "produce", "offer"}
         /\ request[m].do = "idle" => request[m] = Idle
         /\ request[m].do = "init" => request[m] \in InitRequest
         /\ request[m].do = "produce" => request[m] \in ProduceRequest
         /\ request[m].do = "offer" => request[m] \in OfferRequest
<1>1. request[m] \in {Idle} \union InitRequest \union ProduceRequest \union OfferRequest
  BY Requests DEF TypeOK
<1>2. /\ Idle.do = "idle"
      /\ \A r \in InitRequest : r.do = "init"
      /\ \A r \in ProduceRequest : r.do = "produce"
      /\ \A r \in OfferRequest : r.do = "offer"
  BY DEF Idle, InitRequest, ProduceRequest, OfferRequest
<1> QED BY <1>1, <1>2

LEMMA NowOf ==
  ASSUME TypeOK, NEW x \in Member, Now(x) # None
  PROVE  /\ request[x].do = "offer" /\ Now(x) = request[x].now
         /\ Now(x) \in Offer
         /\ Now(x).to \in Member /\ Now(x).of \in Member /\ Now(x).p \in Producer
         /\ Now(x).t \in Recv /\ Now(x).c \in Consumer \union {None}
<1>1. request[x].do = "offer" /\ Now(x) = request[x].now
  BY DEF Now
<1>2. request[x] \in OfferRequest
  BY <1>1, RequestOf
<1>3. Now(x) \in Offer
  BY <1>1, <1>2 DEF OfferRequest
<1> QED BY <1>1, <1>3 DEF Offer

\* What a step does to the references and the close events, R and Q being what they
\* were or became: nothing is added to R, what it loses is about to be closed, and who
\* has left and is not held has nothing.
Settled(R, Q) ==
  /\ \A m \in Member : refs'[m] \subseteq R[m]
  /\ Q \subseteq closes'
  /\ \A m \in Member : \A t \in Transport : t \in R[m] => t \in refs'[m] \/ t \in closes'
  /\ \A r \in closes' : r \in Q \/ (r \in Transport /\ \E m \in Member : r \in R[m])

LEMMA Settles ==
  \A R \in [Member -> SUBSET Res], Q \in SUBSET Res :
    Settle(R, Q) /\ left' \subseteq Member =>
      /\ refs' \in [Member -> SUBSET Res] /\ closes' \in SUBSET Res
      /\ Settled(R, Q) /\ Gone'
<1> SUFFICES ASSUME NEW R \in [Member -> SUBSET Res], NEW Q \in SUBSET Res,
                    Settle(R, Q), left' \subseteq Member
             PROVE  /\ refs' \in [Member -> SUBSET Res] /\ closes' \in SUBSET Res
                    /\ Settled(R, Q) /\ Gone'
  OBVIOUS
<1> DEFINE gone == {m \in Member : m \in left' /\ ~Held(m)'}
<1>1. /\ refs' = [m \in Member |-> IF m \in gone THEN {} ELSE R[m]]
      /\ closes' = Q \union (Transport \intersect UNION {R[m] : m \in gone})
  BY DEF Settle
<1>2. gone \subseteq Member /\ \A m \in left' : Held(m)' \/ m \in gone
  OBVIOUS
<1> HIDE DEF gone
<1>3. \A r : r \in closes' <=> r \in Q \/ (r \in Transport /\ \E m \in gone : r \in R[m])
  BY <1>1
<1>4. refs' \in [Member -> SUBSET Res]
  BY <1>1
<1>5. closes' \in SUBSET Res
  BY <1>3, Apart
<1>6. Settled(R, Q)
  BY <1>1, <1>2, <1>3 DEF Settled
<1>7. \A m \in left' : Held(m)' \/ refs'[m] = {}
  BY <1>1, <1>2
<1> QED BY <1>4, <1>5, <1>6, <1>7 DEF Gone

\* Whoever is held stays held while the requests go on.
LEMMA StillHeld ==
  ASSUME \A x \in Member :
           \/ request'[x] = request[x]
           \/ request[x].do = "idle"
           \/ request[x].do = "init" /\ request'[x].do = "init"
           \/ request[x].do = "offer" /\ request'[x].do = "offer" /\ request'[x].pin = request[x].pin,
         \A x \in Member : Now(x) # None =>
           Now(x)' # None /\ Now(x)'.to = Now(x).to /\ Now(x)'.of = Now(x).of
  PROVE  \A m \in Member : Held(m) => Held(m)'
<1> SUFFICES ASSUME NEW m \in Member, Held(m) PROVE Held(m)'
  OBVIOUS
<1>1. CASE request[m].do \in {"init", "produce"}
  BY <1>1 DEF Held
<1>2. CASE request[m].do = "offer" /\ request[m].pin # None
  BY <1>2 DEF Held
<1>3. ASSUME NEW x \in Member, Now(x) # None /\ m \in {Now(x).to, Now(x).of} PROVE Held(m)'
  BY <1>3 DEF Held
<1> QED BY <1>1, <1>2, <1>3 DEF Held

\* Created resources keep their parents, and no member is forgotten.
Kept ==
  /\ \A r \in Res : Taken(r) => Taken(r)' /\ up'[r] = up[r]
  /\ \A c \in Consumer : Taken(c) => via'[c] = via[c]
  /\ members \union left \subseteq members' \union left'

LEMMA OtherWorks ==
  ASSUME TypeOK, Kept, NEW x \in Member, WorksOn(x), request'[x] = request[x]
  PROVE  WorksOn(x)'
<1>1. Now(x)' = Now(x)
  BY DEF Now
<1>2. ASSUME request[x].do = "init" PROVE \A t \in request[x].made : Taken(t)' /\ up'[t] = x
  <2>1. request[x] \in InitRequest
    BY <1>2, RequestOf
  <2>2. request[x].made \subseteq Res
    BY <2>1, Apart DEF InitRequest
  <2> QED BY <1>2, <2>2 DEF Kept, WorksOn
<1>3. ASSUME request[x].do = "produce" PROVE Taken(request[x].p)'
  <2>1. request[x] \in ProduceRequest
    BY <1>3, RequestOf
  <2>2. request[x].p \in Res
    BY <2>1, Apart DEF ProduceRequest
  <2>3. Taken(request[x].p) => Taken(request[x].p)'
    BY <2>2 DEF Kept, Taken
  <2> QED BY <1>3, <2>3 DEF WorksOn
<1>4. ASSUME Now(x) # None
      PROVE  /\ Taken(Now(x).p)' /\ Taken(Now(x).t)' /\ up'[Now(x).t] = Now(x).to
             /\ {Now(x).to, Now(x).of} \subseteq members' \union left'
             /\ Now(x).c # None =>
                  Taken(Now(x).c)' /\ up'[Now(x).c] = Now(x).p /\ via'[Now(x).c] = Now(x).t
  <2>1. PICK o : o = Now(x)
    OBVIOUS
  <2>2. o.p \in Res /\ o.t \in Res /\ (o.c # None => o.c \in Consumer /\ o.c \in Res)
    BY <1>4, <2>1, NowOf, Apart
  <2>3. /\ Taken(o.p) /\ Taken(o.t) /\ up[o.t] = o.to
        /\ {o.to, o.of} \subseteq members \union left
        /\ o.c # None => Taken(o.c) /\ up[o.c] = o.p /\ via[o.c] = o.t
    BY <1>4, <2>1 DEF WorksOn
  <2>4. /\ Taken(o.p)' /\ Taken(o.t)' /\ up'[o.t] = o.to
        /\ {o.to, o.of} \subseteq members' \union left'
        /\ o.c # None => Taken(o.c)' /\ up'[o.c] = o.p /\ via'[o.c] = o.t
    BY <2>2, <2>3 DEF Kept, Taken
  <2> QED BY <1>1, <2>1, <2>4 DEF Taken
<1> QED BY <1>1, <1>2, <1>3, <1>4 DEF WorksOn, Taken

LEMMA GoneStays ==
  ASSUME TypeOK, Gone, left' = left, \A m \in Member : refs'[m] \subseteq refs[m],
         \A m \in Member : Held(m) => Held(m)'
  PROVE  Gone'
<1>1. \A m \in left : m \in Member
  BY DEF TypeOK
<1> QED BY <1>1 DEF Gone

\* No more is wanted when there are fewer references, open resources and members that
\* have asked, and more close events.
LEMMA LessWanted ==
  ASSUME \A m \in Member : refs'[m] \subseteq refs[m] /\ (acquired'[m] => acquired[m]),
         closes \subseteq closes', missed \subseteq missed',
         \A r \in Recv \union Producer : st'[r] = "open" => st[r] = "open"
  PROVE  \A m, y \in Member, p \in Producer, t \in Recv : Wanted(m, y, p, t)' => Wanted(m, y, p, t)
BY DEF Wanted

\* Who is served stays so while no open consumer is closed and no offer goes on.
LEMMA StillServed ==
  ASSUME \A c \in Consumer : st[c] = "open" =>
           st'[c] = "open" /\ up'[c] = up[c] /\ via'[c] = via[c],
         \A x \in Member : request[x].do = "offer" => request'[x] = request[x]
  PROVE  \A m \in Member, p \in Producer, t \in Recv : Served(m, p, t) => Served(m, p, t)'
<1> SUFFICES ASSUME NEW m \in Member, NEW p \in Producer, NEW t \in Recv, Served(m, p, t)
             PROVE  Served(m, p, t)'
  OBVIOUS
<1>1. ASSUME NEW c \in Consumer, st[c] = "open" /\ up[c] = p /\ via[c] = t PROVE Served(m, p, t)'
  BY <1>1 DEF Served
<1>2. ASSUME NEW x \in Member, request[x].do = "offer",
             \/ <<m, p>> \in request[x].todo
             \/ Now(x) # None /\ Now(x).to = m /\ Now(x).p = p /\ Now(x).t = t
      PROVE  Served(m, p, t)'
  BY <1>2 DEF Served, Now
<1> QED BY <1>1, <1>2 DEF Served

LEMMA ReachStays ==
  ASSUME TypeOK, Reach, members' \subseteq members,
         \A m, y \in Member, p \in Producer, t \in Recv : Wanted(m, y, p, t)' => Wanted(m, y, p, t),
         \A m \in Member, p \in Producer, t \in Recv : Served(m, p, t) => Served(m, p, t)'
  PROVE  Reach'
<1>1. members \subseteq Member
  BY DEF TypeOK
<1> QED BY <1>1 DEF Reach

-----------------------------------------------------------------------------
(* The inductive invariant holds at the start, and each action keeps it.   *)

LEMMA InitIInv == Init => IInv
<1> SUFFICES ASSUME Init PROVE IInv
  OBVIOUS
<1>1. \A m \in Member : request[m].do = "idle" /\ Now(m) = None
  BY DEF Init, Idle, Now
<1>2. TypeOK
  <2>1. recvs \in [Member -> Seq(Recv)] /\ hand \in [from : Res \union {None}, ids : Seq(Res)]
    BY DEF Init
  <2>2. request \in [Member -> Request]
    BY Requests DEF Init
  <2>3. acquired \in [Member -> BOOLEAN] /\ failed \in 0..MaxTroubles
    BY RoomStreamsAssumption DEF Init
  <2> QED BY <2>1, <2>2, <2>3 DEF Init, TypeOK
<1>3. Used /\ Parents /\ OwnTransports /\ Placed /\ WhyClosed
  BY Apart DEF Init, Used, Parents, OwnTransports, Placed, WhyClosed, Taken, Res
<1>4. Works /\ Joined /\ Gone /\ Replacing /\ OnlyFirst
  BY <1>1 DEF Init, Works, WorksOn, Joined, Gone, Replacing, Replaced, OnlyFirst
<1>5. Reach
  BY DEF Init, Reach
<1> QED BY <1>2, <1>3, <1>4, <1>5 DEF IInv

LEMMA JoinKeeps == ASSUME IInv, NEW m \in Member, Join(m) PROVE IInv'
<1>1. TypeOK'
  BY DEF IInv, TypeOK, Join
<1>2. Used' /\ Parents' /\ OwnTransports' /\ Placed' /\ Replacing' /\ OnlyFirst' /\ WhyClosed'
  BY DEF IInv, Join, Used, Parents, OwnTransports, Placed, Replacing, Replaced, OnlyFirst,
         WhyClosed, Taken
<1>3. Works'
  BY DEF IInv, Join, Works, WorksOn, Taken, Now
<1>4. Joined'
  BY DEF IInv, Join, Joined
<1>5. Gone'
  BY DEF IInv, Join, Gone, Held, Now
<1>6. Reach'
  BY DEF IInv, Join, Reach, Wanted, Served, Joined, Now
<1> QED BY <1>1, <1>2, <1>3, <1>4, <1>5, <1>6 DEF IInv

LEMMA LeaveKeeps == ASSUME IInv, NEW m \in Member, Leave(m) PROVE IInv'
<1>1. /\ refs \in [Member -> SUBSET Res] /\ closes \in SUBSET Res /\ left' \subseteq Member
      /\ Settle(refs, closes)
  BY DEF IInv, TypeOK, Leave
<1>2. /\ refs' \in [Member -> SUBSET Res] /\ closes' \in SUBSET Res
      /\ Settled(refs, closes) /\ Gone'
  BY <1>1, Settles
<1>3. TypeOK'
  BY <1>1, <1>2 DEF IInv, TypeOK, Leave
<1>4. Used' /\ OwnTransports' /\ Replacing' /\ OnlyFirst'
  <2>1. Used'
    BY <1>2, Apart DEF IInv, Leave, Settled, Used, Taken
  <2>2. OwnTransports' /\ OnlyFirst'
    BY <1>2, Apart DEF IInv, Leave, Settled, OwnTransports, OnlyFirst
  <2>3. Replacing'
    BY <1>2, Apart DEF IInv, Leave, Settled, Replacing, Replaced
  <2> QED BY <2>1, <2>2, <2>3
<1>5. Placed'
  BY <1>2, Apart DEF IInv, Leave, Settled, Placed
<1>6. Parents' /\ WhyClosed'
  BY DEF IInv, Leave, Parents, WhyClosed, Taken
<1>7. Works'
  BY DEF IInv, Leave, Works, WorksOn, Taken, Now
<1>8. Joined'
  BY <1>2 DEF IInv, Leave, Settled, Joined
<1>9. Reach'
  <2>1. \A k, y \in Member, p \in Producer, t \in Recv : Wanted(k, y, p, t)' => Wanted(k, y, p, t)
    BY <1>2, LessWanted DEF Leave, Settled
  <2>2. \A k \in Member, p \in Producer, t \in Recv : Served(k, p, t) => Served(k, p, t)'
    BY StillServed DEF Leave
  <2>3. members' \subseteq members
    BY DEF Leave
  <2> QED BY <2>1, <2>2, <2>3, ReachStays DEF IInv
<1> QED BY <1>2, <1>3, <1>4, <1>5, <1>6, <1>7, <1>8, <1>9 DEF IInv

LEMMA CloseProducerKeeps ==
  ASSUME IInv, NEW m \in Member, NEW p \in Producer, CloseProducer(m, p) PROVE IInv'
<1>1. TypeOK'
  BY Apart DEF IInv, TypeOK, CloseProducer
<1>2. Used' /\ Parents' /\ OwnTransports' /\ Placed' /\ Replacing' /\ OnlyFirst' /\ WhyClosed'
  BY Apart DEF IInv, CloseProducer, Used, Parents, OwnTransports, Placed, Replacing, Replaced,
         OnlyFirst, WhyClosed, Taken
<1>3. Works'
  BY DEF IInv, CloseProducer, Works, WorksOn, Taken, Now
<1>4. Joined'
  BY DEF IInv, CloseProducer, Joined
<1>5. Gone'
  BY DEF IInv, CloseProducer, Gone, Held, Now
<1>6. Reach'
  BY DEF IInv, CloseProducer, Reach, Wanted, Served, Now
<1> QED BY <1>1, <1>2, <1>3, <1>4, <1>5, <1>6 DEF IInv

LEMMA InitBeginKeeps ==
  ASSUME IInv, NEW m \in Member, NEW want \in Ask[m], InitBegin(m, want) PROVE IInv'
<1> DEFINE dirs == IF m \in Sender THEN want ELSE want \ {"send"}
           new == [do |-> "init", want |-> dirs, made |-> {}]
<1>1. /\ m \in members /\ request[m] = Idle
      /\ request' = [request EXCEPT ![m] = new]
      /\ closes' = closes
           \union {t \in refs[m] \intersect Transport : Directions(t) \in dirs /\ st[t] = "open"}
      /\ acquired' = [acquired EXCEPT ![m] = @ /\ "recv" \notin dirs]
      /\ UNCHANGED <<members, left, refs, recvs, st, up, via, hand, missed, failed>>
  BY DEF InitBegin, Become
<1>2. dirs \in SUBSET {"recv", "send"}
  BY RoomStreamsAssumption
<1> HIDE DEF dirs
<1>3. new \in Request /\ new.do = "init" /\ new.want = dirs /\ new.made = {}
  BY <1>2, Requests DEF InitRequest
<1> HIDE DEF new
<1>4. /\ request'[m] = new /\ \A x \in Member : x # m => request'[x] = request[x]
      /\ \A x \in Member : x # m => acquired'[x] = acquired[x]
      /\ acquired'[m] => acquired[m] /\ "recv" \notin dirs
  BY <1>1 DEF IInv, TypeOK
<1>5. \A x \in Member : Now(x)' = Now(x)
  BY <1>1, <1>3, <1>4 DEF Now, Idle
<1>6. TypeOK'
  <2>1. request' \in [Member -> Request] /\ closes' \subseteq Res
    BY <1>1, <1>3, Apart DEF IInv, TypeOK
  <2>2. acquired' \in [Member -> BOOLEAN]
    BY <1>1 DEF IInv, TypeOK
  <2> QED BY <1>1, <2>1, <2>2 DEF IInv, TypeOK
<1>7. Used' /\ Parents' /\ OwnTransports' /\ OnlyFirst' /\ WhyClosed'
  BY <1>1, Apart DEF IInv, Used, Parents, OwnTransports, OnlyFirst, WhyClosed, Taken
<1>8. Works'
  BY <1>1, <1>3, <1>4, <1>5 DEF IInv, Works, WorksOn, Taken
<1>9. Joined'
  BY <1>1, <1>4 DEF IInv, Joined
<1>10. Gone'
  <2>1. \A x \in Member : Held(x) => Held(x)'
    BY <1>1, <1>4, <1>5, StillHeld DEF Idle
  <2> QED BY <1>1, <2>1, GoneStays DEF IInv
<1>11. Placed'
  BY <1>1, <1>4 DEF IInv, Placed, Idle
<1>12. Replacing'
  BY <1>1, <1>3, <1>4, Apart DEF IInv, Replacing, Replaced, Directions
<1>13. Reach'
  <2>1. \A k, y \in Member, p \in Producer, t \in Recv : Wanted(k, y, p, t)' => Wanted(k, y, p, t)
    BY <1>1, <1>4, LessWanted
  <2>2. \A k \in Member, p \in Producer, t \in Recv : Served(k, p, t) => Served(k, p, t)'
    BY <1>1, <1>4, StillServed DEF Idle
  <2> QED BY <1>1, <2>1, <2>2, ReachStays DEF IInv
<1> QED BY <1>6, <1>7, <1>8, <1>9, <1>10, <1>11, <1>12, <1>13 DEF IInv

LEMMA MakeTransportKeeps ==
  ASSUME IInv, NEW m \in Member, NEW t \in Transport, MakeTransport(m, t) PROVE IInv'
<1> DEFINE new == [request[m] EXCEPT !.want = @ \ {Directions(t)}, !.made = @ \union {t}]
<1>1. /\ request[m].do = "init" /\ Directions(t) \in request[m].want
      /\ st[t] = "free" /\ st' = [st EXCEPT ![t] = "open"] /\ up' = [up EXCEPT ![t] = m]
      /\ request' = [request EXCEPT ![m] = new]
      /\ UNCHANGED <<members, left, refs, recvs, via, closes, hand, acquired, missed, failed>>
  BY DEF MakeTransport, Become, IsFresh
<1>2. request[m] \in InitRequest
  BY <1>1, RequestOf DEF IInv
<1>3. /\ new \in Request /\ new.do = "init"
      /\ new.want = request[m].want \ {Directions(t)} /\ new.made = request[m].made \union {t}
  BY <1>2, Requests DEF InitRequest
<1> HIDE DEF new
<1>4. /\ request'[m] = new /\ \A x \in Member : x # m => request'[x] = request[x]
      /\ \A x \in Member : Now(x)' = Now(x)
  BY <1>1, <1>3 DEF IInv, TypeOK, Now
<1>5. /\ st'[t] = "open" /\ up'[t] = m
      /\ \A r \in Res : r # t => st'[r] = st[r] /\ up'[r] = up[r]
      /\ \A r \in Res : Taken(r) => r # t /\ Taken(r)'
  BY <1>1, Apart DEF IInv, TypeOK, Taken
<1>6. TypeOK'
  <2>1. request' \in [Member -> Request]
    BY <1>1, <1>3 DEF IInv, TypeOK
  <2>2. st' \in [Res -> {"free", "open", "closed"}] /\ up' \in [Res -> Member \union Res \union {None}]
    BY <1>1 DEF IInv, TypeOK
  <2> QED BY <1>1, <2>1, <2>2 DEF IInv, TypeOK
<1>7. Used'
  <2>1. /\ \A k \in Member : \A r \in refs[k] : r \in Res
        /\ \A k \in Member : \A i \in DOMAIN recvs[k] : recvs[k][i] \in Res
        /\ \A r \in closes : r \in Res
        /\ hand.from # None => hand.from \in Res
        /\ \A i \in DOMAIN hand.ids : hand.ids[i] \in Res
    BY Apart DEF IInv, TypeOK
  <2> QED BY <1>1, <1>5, <2>1 DEF IInv, Used, Taken
<1>8. Parents' /\ WhyClosed'
  BY <1>1, <1>5, Apart DEF IInv, Parents, WhyClosed, Taken
<1>9. OwnTransports' /\ OnlyFirst'
  BY <1>1, <1>5, Apart DEF IInv, Used, OwnTransports, OnlyFirst, Taken
<1>10. Works'
  BY <1>1, <1>2, <1>3, <1>4, <1>5, Apart DEF IInv, Works, WorksOn, Taken
<1>11. Joined'
  BY <1>1, <1>4 DEF IInv, Joined, Idle
<1>12. Gone'
  <2>1. \A x \in Member : Held(x) => Held(x)'
    BY <1>1, <1>3, <1>4, StillHeld
  <2> QED BY <1>1, <2>1, GoneStays DEF IInv
<1>13. Placed'
  BY <1>1, <1>3, <1>4, <1>5, Apart DEF IInv, Placed
<1>14. Replacing'
  BY <1>1, <1>2, <1>3, <1>4, <1>5, Apart DEF IInv, Replacing, Replaced, Directions, Used, Taken
<1>15. Reach'
  <2>1. \A k, y \in Member, p \in Producer, v \in Recv : Wanted(k, y, p, v)' => Wanted(k, y, p, v)
    BY <1>1, <1>5 DEF Wanted, IInv, Used, Taken
  <2>2. \A k \in Member, p \in Producer, v \in Recv : Served(k, p, v) => Served(k, p, v)'
    BY <1>1, <1>4, <1>5, StillServed, Apart DEF Taken
  <2> QED BY <1>1, <2>1, <2>2, ReachStays DEF IInv
<1> QED BY <1>6, <1>7, <1>8, <1>9, <1>10, <1>11, <1>12, <1>13, <1>14, <1>15 DEF IInv

LEMMA MakeFailsKeeps == ASSUME IInv, NEW m \in Member, MakeFails(m) PROVE IInv'
<1>1. /\ request[m].do = "init" /\ request' = [request EXCEPT ![m] = Idle]
      /\ failed' \in {failed, failed + 1} /\ (failed' # failed => failed < MaxTroubles)
      /\ Settle(refs, closes \union request[m].made)
      /\ UNCHANGED <<left, members, recvs, st, up, via, hand, acquired, missed>>
  BY DEF MakeFails, Become, Trouble
<1>2. request[m] \in InitRequest
  BY <1>1, RequestOf DEF IInv
<1>3. /\ refs' \in [Member -> SUBSET Res] /\ closes' \in SUBSET Res
      /\ Settled(refs, closes \union request[m].made) /\ Gone'
  <2>1. /\ refs \in [Member -> SUBSET Res] /\ left' \subseteq Member
        /\ closes \union request[m].made \in SUBSET Res
    BY <1>1, <1>2, Apart DEF IInv, TypeOK, InitRequest
  <2> QED BY <1>1, <2>1, Settles
<1>4. /\ request'[m] = Idle /\ Idle.do = "idle"
      /\ \A x \in Member : x # m => request'[x] = request[x]
      /\ \A x \in Member : Now(x)' = Now(x)
  BY <1>1 DEF IInv, TypeOK, Now, Idle
<1>5. TypeOK'
  <2>1. request' \in [Member -> Request]
    BY <1>1, Requests DEF IInv, TypeOK
  <2>2. failed' \in 0..MaxTroubles
    BY <1>1, RoomStreamsAssumption DEF IInv, TypeOK
  <2> QED BY <1>1, <1>3, <2>1, <2>2 DEF IInv, TypeOK
<1>6. Used'
  BY <1>1, <1>2, <1>3, Apart DEF IInv, Settled, Used, Works, WorksOn, InitRequest, Taken
<1>7. Parents' /\ WhyClosed'
  BY <1>1 DEF IInv, Parents, WhyClosed, Taken
<1>8. OwnTransports' /\ OnlyFirst'
  BY <1>1, <1>3, Apart DEF IInv, Settled, OwnTransports, OnlyFirst
<1>9. Works'
  BY <1>1, <1>4 DEF IInv, Works, WorksOn, Taken
<1>10. Joined'
  BY <1>1, <1>3, <1>4 DEF IInv, Settled, Joined
<1>11. Placed'
  BY <1>1, <1>3, <1>4 DEF IInv, Settled, Placed
<1>12. Replacing'
  BY <1>1, <1>3, <1>4 DEF IInv, Settled, Replacing, Replaced
<1>13. Reach'
  <2>1. \A k, y \in Member, p \in Producer, t \in Recv : Wanted(k, y, p, t)' => Wanted(k, y, p, t)
    BY <1>1, <1>3, LessWanted DEF Settled
  <2>2. \A k \in Member, p \in Producer, t \in Recv : Served(k, p, t) => Served(k, p, t)'
    BY <1>1, <1>4, StillServed
  <2> QED BY <1>1, <2>1, <2>2, ReachStays DEF IInv
<1> QED BY <1>3, <1>5, <1>6, <1>7, <1>8, <1>9, <1>10, <1>11, <1>12, <1>13 DEF IInv

\* n is a list with v in front of q.
InFront(n, v, q) ==
  /\ n \in Seq(Recv) /\ 1 \in DOMAIN n /\ n[1] = v
  /\ \A j \in DOMAIN q : \E i \in DOMAIN n : n[i] = q[j]
  /\ \A i \in DOMAIN n : (i = 1 /\ n[i] = v) \/ (\E j \in DOMAIN q : n[i] = q[j])

LEMMA FrontIs == \A q \in Seq(Recv), v \in Recv : InFront(<<v>> \o q, v, q)
<1> SUFFICES ASSUME NEW q \in Seq(Recv), NEW v \in Recv, NEW n, n = <<v>> \o q
             PROVE  InFront(n, v, q)
  OBVIOUS
<1>1. n \in Seq(Recv) /\ Len(q) \in Nat /\ DOMAIN q = 1..Len(q) /\ DOMAIN n = 1..(Len(q) + 1)
  OBVIOUS
<1>2. n[1] = v /\ \A j \in DOMAIN q : n[j + 1] = q[j]
  BY <1>1
<1>3. \A j \in DOMAIN q : j + 1 \in DOMAIN n
  BY <1>1
<1>4. \A i \in DOMAIN n : i = 1 \/ (i - 1 \in DOMAIN q /\ n[i] = q[i - 1])
  <2> SUFFICES ASSUME NEW i \in DOMAIN n, i # 1 PROVE i - 1 \in DOMAIN q /\ n[i] = q[i - 1]
    OBVIOUS
  <2>1. i - 1 \in DOMAIN q /\ (i - 1) + 1 = i
    BY <1>1
  <2> QED BY <1>2, <2>1
<1>5. \A j \in DOMAIN q : \E i \in DOMAIN n : n[i] = q[j]
  BY <1>2, <1>3
<1>6. \A i \in DOMAIN n :
                (i = 1 /\ n[i] = v) \/ (\E j \in DOMAIN q : n[i] = q[j])
  BY <1>2, <1>4
<1>7. 1 \in DOMAIN n
  BY <1>1
<1> QED BY <1>1, <1>2, <1>5, <1>6, <1>7 DEF InFront

LEMMA InitEndKeeps == ASSUME IInv, NEW m \in Member, InitEnd(m) PROVE IInv'
<1> DEFINE good == {t \in request[m].made : TransportFound(t)}
           T == good \intersect Recv
<1>1. /\ request[m].do = "init" /\ request' = [request EXCEPT ![m] = Idle]
      /\ recvs' = Unshift(m, T) /\ Settle(With(m, good), closes)
      /\ UNCHANGED <<left, members, st, up, via, hand, acquired, missed, failed>>
  BY DEF InitEnd, Become
<1>2. request[m] \in InitRequest
  BY <1>1, RequestOf DEF IInv
<1>3. /\ good \subseteq request[m].made /\ good \subseteq Transport
      /\ \A t \in request[m].made : st[t] = "open" => t \in good
      /\ T \subseteq good /\ T \subseteq Recv /\ \A t \in good : t \in Recv => t \in T
      /\ T # {} => Replaced(m)
  BY <1>1, <1>2 DEF InitRequest, TransportFound, Replaced
<1> HIDE DEF good, T
<1>4. /\ With(m, good) \in [Member -> SUBSET Res]
      /\ \A x \in Member : x # m => With(m, good)[x] = refs[x]
      /\ With(m, good)[m] = refs[m] \union good
  BY <1>3, Apart DEF IInv, TypeOK, With
<1>5. /\ refs' \in [Member -> SUBSET Res] /\ closes' \in SUBSET Res
      /\ Settled(With(m, good), closes) /\ Gone'
  <2>1. closes \in SUBSET Res /\ left' \subseteq Member
    BY <1>1 DEF IInv, TypeOK
  <2> QED BY <1>1, <1>4, <2>1, Settles
<1> HIDE DEF With
<1>6. /\ \A x \in Member : x # m => refs'[x] \subseteq refs[x]
      /\ refs'[m] \subseteq refs[m] \union good
  BY <1>4, <1>5 DEF Settled
<1>7. /\ request'[m] = Idle /\ Idle.do = "idle"
      /\ \A x \in Member : x # m => request'[x] = request[x]
      /\ \A x \in Member : Now(x)' = Now(x)
  BY <1>1 DEF IInv, TypeOK, Now, Idle
<1>8. /\ \A x \in Member : x # m => recvs'[x] = recvs[x]
      /\ recvs' \in [Member -> Seq(Recv)]
      /\ T = {} => recvs'[m] = recvs[m]
      /\ T # {} => \E v \in T : InFront(recvs'[m], v, recvs[m])
  <2>1. recvs \in [Member -> Seq(Recv)] /\ recvs[m] \in Seq(Recv)
    BY DEF IInv, TypeOK
  <2>2. CASE T = {}
    BY <1>1, <2>1, <2>2 DEF Unshift
  <2>3. CASE T # {}
    <3>1. PICK v \in T : recvs' = [recvs EXCEPT ![m] = <<v>> \o @]
      BY <1>1, <2>3 DEF Unshift
    <3>2. recvs'[m] = <<v>> \o recvs[m] /\ v \in Recv
      BY <1>3, <2>1, <3>1
    <3>3. InFront(recvs'[m], v, recvs[m])
      BY <2>1, <3>2, FrontIs
    <3>4. recvs' \in [Member -> Seq(Recv)] /\ \A x \in Member : x # m => recvs'[x] = recvs[x]
      <4>1. \A x \in Member : x # m => recvs'[x] = recvs[x]
        BY <2>1, <3>1
      <4>2. \A x \in Member : recvs'[x] \in Seq(Recv)
        BY <2>1, <3>3, <4>1 DEF InFront
      <4>3. recvs' = [x \in Member |-> recvs'[x]]
        BY <2>1, <3>1
      <4> QED BY <4>1, <4>2, <4>3
    <3> QED BY <2>3, <3>3, <3>4
  <2> QED BY <2>2, <2>3
<1>9. TypeOK'
  <2>1. request' \in [Member -> Request]
    BY <1>1, Requests DEF IInv, TypeOK
  <2> QED BY <1>1, <1>5, <1>8, <2>1 DEF IInv, TypeOK
<1>10. \A t \in good : Taken(t) /\ up[t] = m
  BY <1>1, <1>3 DEF IInv, Works, WorksOn
<1>11. Used'
  <2>1. /\ \A r \in closes' : Taken(r)' /\ r \notin Consumer
        /\ \A x \in Member : \A r \in refs'[x] : Taken(r)'
    BY <1>1, <1>4, <1>5, <1>6, <1>10, Apart DEF IInv, Settled, Used, Taken
  <2>2. \A x \in Member : \A i \in DOMAIN recvs[x] : Taken(recvs[x][i])
    BY DEF IInv, Used
  <2>3. \A i \in DOMAIN recvs'[m] : Taken(recvs'[m][i])
    BY <1>3, <1>8, <1>10, <2>2 DEF InFront
  <2>4. \A x \in Member : \A i \in DOMAIN recvs'[x] : Taken(recvs'[x][i])
    BY <1>8, <2>2, <2>3
  <2>5. \A r : Taken(r) => Taken(r)'
    BY <1>1 DEF Taken
  <2> QED BY <1>1, <2>1, <2>4, <2>5 DEF IInv, Used
<1>12. Parents' /\ WhyClosed'
  BY <1>1 DEF IInv, Parents, WhyClosed, Taken
<1>13. OwnTransports'
  BY <1>1, <1>6, <1>10 DEF IInv, OwnTransports
<1>14. Works'
  BY <1>1, <1>7 DEF IInv, Works, WorksOn, Taken
<1>15. Joined'
  BY <1>1, <1>6, <1>7 DEF IInv, Joined, Idle
<1>16. Placed'
  BY <1>1, <1>3, <1>4, <1>5, <1>7 DEF IInv, Settled, Placed
<1>17. Replacing'
  BY <1>1, <1>5, <1>6, <1>7, <1>8 DEF IInv, Settled, Replacing, Replaced
<1>18. \A a, b \in T : a = b
  BY <1>1, <1>3 DEF IInv, Replacing
<1>19. OnlyFirst'
  <2>1. ASSUME NEW x \in Member, x # m
        PROVE  /\ \A i \in DOMAIN recvs'[x] :
                    i > 1 /\ recvs'[x][i] \in refs'[x] /\ st'[recvs'[x][i]] = "open"
                      => recvs'[x][i] \in closes'
               /\ \A t \in refs'[x] \intersect Recv : \E i \in DOMAIN recvs'[x] : recvs'[x][i] = t
    <3>1. recvs'[x] = recvs[x] /\ refs'[x] \subseteq refs[x] /\ closes \subseteq closes' /\ st' = st
      BY <1>1, <1>5, <1>6, <1>8, <2>1 DEF Settled
    <3> QED BY <3>1 DEF IInv, OnlyFirst
  <2>2. ASSUME NEW i \in DOMAIN recvs'[m], i > 1, recvs'[m][i] \in refs'[m],
               st'[recvs'[m][i]] = "open"
        PROVE  recvs'[m][i] \in closes'
    <3>1. CASE T = {}
      <4>1. recvs[m][i] \notin good
        BY <1>1, <1>3, <1>8, <2>2, <3>1 DEF IInv, Replacing
      <4> QED BY <1>1, <1>5, <1>6, <1>8, <2>2, <3>1, <4>1 DEF IInv, Settled, OnlyFirst
    <3>2. CASE T # {}
      <4>1. PICK j \in DOMAIN recvs[m] : recvs'[m][i] = recvs[m][j]
        BY <1>8, <2>2, <3>2 DEF InFront
      <4>2. recvs[m][j] \notin good
        BY <1>1, <1>3, <4>1 DEF IInv, Replacing
      <4>3. recvs[m][j] \in refs[m] \intersect Recv
        BY <1>6, <2>2, <4>1, <4>2 DEF IInv, TypeOK
      <4>4. recvs[m][j] \in closes
        BY <1>1, <1>3, <2>2, <3>2, <4>1, <4>3 DEF IInv, Replacing
      <4> QED BY <1>5, <4>1, <4>4 DEF Settled
    <3> QED BY <3>1, <3>2
  <2>3. ASSUME NEW t \in refs'[m] \intersect Recv PROVE \E i \in DOMAIN recvs'[m] : recvs'[m][i] = t
    <3>1. CASE t \in T
      BY <1>8, <1>18, <3>1 DEF InFront
    <3>2. CASE t \notin T
      <4>1. PICK j \in DOMAIN recvs[m] : recvs[m][j] = t
        BY <1>3, <1>6, <2>3, <3>2 DEF IInv, OnlyFirst
      <4> QED BY <1>8, <4>1 DEF InFront
    <3> QED BY <3>1, <3>2
  <2> QED BY <2>1, <2>2, <2>3 DEF OnlyFirst
<1>20. Reach'
  <2>1. \A k, y \in Member, p \in Producer, t \in Recv : Wanted(k, y, p, t)' => Wanted(k, y, p, t)
    <3>1. closes \subseteq closes'
      BY <1>5 DEF Settled
    <3>2. T # {} => ~acquired[m]
      BY <1>3 DEF IInv, Replacing
    <3>3. \A t \in Recv : t \in refs'[m] => t \in refs[m] \/ ~acquired[m]
      BY <1>3, <1>6, <3>2
    <3>4. \A y \in Member, p \in Producer : p \in refs'[y] => p \in refs[y]
      BY <1>3, <1>6, Apart
    <3>5. \A k \in Member, t \in Recv : k # m /\ t \in refs'[k] => t \in refs[k]
      BY <1>6
    <3> QED BY <1>1, <3>1, <3>3, <3>4, <3>5 DEF Wanted
  <2>2. \A k \in Member, p \in Producer, t \in Recv : Served(k, p, t) => Served(k, p, t)'
    BY <1>1, <1>7, StillServed
  <2> QED BY <1>1, <2>1, <2>2, ReachStays DEF IInv
<1> QED BY <1>5, <1>9, <1>11, <1>12, <1>13, <1>14, <1>15, <1>16, <1>17, <1>19, <1>20 DEF IInv

LEMMA ProduceBeginKeeps ==
  ASSUME IInv, NEW m \in Member, NEW t \in Send, NEW p \in Producer, ProduceBegin(m, t, p)
  PROVE  IInv'
<1> DEFINE new == [do |-> "produce", t |-> t, p |-> p]
<1>1. /\ m \in members /\ request[m] = Idle /\ t \in refs[m]
      /\ st[p] = "free" /\ st' = [st EXCEPT ![p] = "open"] /\ up' = [up EXCEPT ![p] = t]
      /\ request' = [request EXCEPT ![m] = new]
      /\ UNCHANGED <<members, left, refs, recvs, via, closes, hand, acquired, missed, failed>>
  BY DEF ProduceBegin, Become, IsFresh
<1>2. new \in Request /\ new.do = "produce" /\ new.p = p /\ Idle.do = "idle"
  BY Requests DEF ProduceRequest, Idle
<1> HIDE DEF new
<1>3. /\ request'[m] = new /\ \A x \in Member : x # m => request'[x] = request[x]
      /\ \A x \in Member : Now(x)' = Now(x)
  BY <1>1, <1>2 DEF IInv, TypeOK, Now
<1>4. /\ st'[p] = "open" /\ up'[p] = t
      /\ \A r \in Res : r # p => st'[r] = st[r] /\ up'[r] = up[r]
      /\ \A r \in Res : Taken(r) => r # p /\ Taken(r)'
      /\ \A r \in Transport \union Consumer : r # p /\ r \in Res
  BY <1>1, Apart DEF IInv, TypeOK, Taken
<1>5. TypeOK'
  <2>1. request' \in [Member -> Request]
    BY <1>1, <1>2 DEF IInv, TypeOK
  <2>2. st' \in [Res -> {"free", "open", "closed"}] /\ up' \in [Res -> Member \union Res \union {None}]
    BY <1>1, Apart DEF IInv, TypeOK
  <2> QED BY <1>1, <2>1, <2>2 DEF IInv, TypeOK
<1>6. Used'
  <2>1. /\ \A k \in Member : \A r \in refs[k] : r \in Res
        /\ \A k \in Member : \A i \in DOMAIN recvs[k] : recvs[k][i] \in Res
        /\ \A r \in closes : r \in Res
        /\ hand.from # None => hand.from \in Res
        /\ \A i \in DOMAIN hand.ids : hand.ids[i] \in Res
    BY Apart DEF IInv, TypeOK
  <2> QED BY <1>1, <1>4, <2>1 DEF IInv, Used, Taken
<1>7. Parents'
  BY <1>1, <1>4, Apart DEF IInv, Parents, Taken
<1>8. WhyClosed'
  BY <1>1, <1>4, Apart DEF IInv, Parents, WhyClosed, Taken
<1>9. OwnTransports' /\ OnlyFirst'
  BY <1>1, <1>4, Apart DEF IInv, TypeOK, OwnTransports, OnlyFirst
<1>10. Works'
  <2>1. Kept
    BY <1>1, <1>4 DEF Kept
  <2>2. \A x \in Member : x # m => WorksOn(x)'
    BY <1>3, <2>1, OtherWorks DEF IInv, Works
  <2>3. WorksOn(m)'
    BY <1>2, <1>3, <1>4, <1>1 DEF WorksOn, Taken, Now
  <2> QED BY <2>2, <2>3 DEF Works
<1>11. Joined'
  BY <1>1, <1>3 DEF IInv, Joined
<1>12. Gone'
  <2>1. \A x \in Member : Held(x) => Held(x)'
    BY <1>1, <1>2, <1>3, StillHeld
  <2> QED BY <1>1, <2>1, GoneStays DEF IInv
<1>13. Placed'
  BY <1>1, <1>2, <1>3, <1>4 DEF IInv, Placed
<1>14. Replacing'
  BY <1>1, <1>2, <1>3, <1>4, Apart DEF IInv, Replacing, Replaced
<1>15. Reach'
  <2>1. \A k, y \in Member, q \in Producer, v \in Recv : Wanted(k, y, q, v)' => Wanted(k, y, q, v)
    BY <1>1, <1>4, Apart DEF Wanted, IInv, Used, Taken
  <2>2. \A k \in Member, q \in Producer, v \in Recv : Served(k, q, v) => Served(k, q, v)'
    BY <1>1, <1>2, <1>3, <1>4, StillServed
  <2> QED BY <1>1, <2>1, <2>2, ReachStays DEF IInv
<1> QED BY <1>5, <1>6, <1>7, <1>8, <1>9, <1>10, <1>11, <1>12, <1>13, <1>14, <1>15 DEF IInv

LEMMA ProduceFailsKeeps == ASSUME IInv, NEW m \in Member, ProduceFails(m) PROVE IInv'
<1> DEFINE p == request[m].p
<1>1. /\ request[m].do = "produce" /\ request' = [request EXCEPT ![m] = Idle]
      /\ failed < MaxTroubles /\ failed' = failed + 1 /\ st' = [st EXCEPT ![p] = "closed"]
      /\ Settle(refs, closes)
      /\ UNCHANGED <<left, members, recvs, up, via, hand, acquired, missed>>
  BY DEF ProduceFails, Become, Trouble
<1>2. p \in Producer /\ p \in Res /\ Taken(p)
  <2>1. request[m] \in ProduceRequest
    BY <1>1, RequestOf DEF IInv
  <2> QED BY <1>1, <2>1, Apart DEF ProduceRequest, IInv, Works, WorksOn
<1> HIDE DEF p
<1>3. /\ refs' \in [Member -> SUBSET Res] /\ closes' \in SUBSET Res
      /\ Settled(refs, closes) /\ Gone'
  <2>1. refs \in [Member -> SUBSET Res] /\ left' \subseteq Member /\ closes \in SUBSET Res
    BY <1>1 DEF IInv, TypeOK
  <2> QED BY <1>1, <2>1, Settles
<1>4. /\ request'[m] = Idle /\ Idle.do = "idle"
      /\ \A x \in Member : x # m => request'[x] = request[x]
      /\ \A x \in Member : Now(x)' = Now(x)
  BY <1>1 DEF IInv, TypeOK, Now, Idle
<1>5. /\ \A r \in Res : r # p => st'[r] = st[r]
      /\ \A r \in Res : Taken(r)' <=> Taken(r)
      /\ \A r \in Res : st[r] = "closed" => st'[r] = "closed"
      /\ \A r \in Res : st'[r] = "open" => st[r] = "open"
      /\ \A r \in Transport \union Consumer : r # p /\ r \in Res
  BY <1>1, <1>2, Apart DEF IInv, TypeOK, Taken
<1>6. TypeOK'
  <2>1. request' \in [Member -> Request]
    BY <1>1, Requests DEF IInv, TypeOK
  <2>2. failed' \in 0..MaxTroubles
    BY <1>1, RoomStreamsAssumption DEF IInv, TypeOK
  <2>3. st' \in [Res -> {"free", "open", "closed"}]
    BY <1>1 DEF IInv, TypeOK
  <2> QED BY <1>1, <1>3, <2>1, <2>2, <2>3 DEF IInv, TypeOK
<1>7. Used'
  <2>1. /\ \A k \in Member : \A r \in refs[k] : r \in Res
        /\ \A k \in Member : \A i \in DOMAIN recvs[k] : recvs[k][i] \in Res
        /\ \A r \in closes : r \in Res
        /\ hand.from # None => hand.from \in Res
        /\ \A i \in DOMAIN hand.ids : hand.ids[i] \in Res
    BY Apart DEF IInv, TypeOK
  <2> QED BY <1>1, <1>3, <1>5, <2>1, Apart DEF IInv, Settled, Used
<1>8. Parents' /\ WhyClosed'
  BY <1>1, <1>5, Apart DEF IInv, Parents, WhyClosed, Taken
<1>9. OwnTransports' /\ OnlyFirst'
  BY <1>1, <1>3, <1>5, Apart DEF IInv, TypeOK, Settled, OwnTransports, OnlyFirst
<1>10. Works'
  <2>1. Kept
    BY <1>1, <1>5 DEF Kept
  <2>2. \A x \in Member : x # m => WorksOn(x)'
    BY <1>4, <2>1, OtherWorks DEF IInv, Works
  <2>3. WorksOn(m)'
    BY <1>4 DEF WorksOn, Now
  <2> QED BY <2>2, <2>3 DEF Works
<1>11. Joined'
  BY <1>1, <1>3, <1>4 DEF IInv, Settled, Joined
<1>12. Placed'
  BY <1>1, <1>3, <1>4, <1>5 DEF IInv, Settled, Placed
<1>13. Replacing'
  BY <1>1, <1>3, <1>4, <1>5, Apart DEF IInv, Settled, Replacing, Replaced
<1>14. Reach'
  <2>1. \A k, y \in Member, q \in Producer, v \in Recv : Wanted(k, y, q, v)' => Wanted(k, y, q, v)
    BY <1>1, <1>3, <1>5, LessWanted, Apart DEF Settled
  <2>2. \A k \in Member, q \in Producer, v \in Recv : Served(k, q, v) => Served(k, q, v)'
    BY <1>1, <1>4, <1>5, StillServed
  <2> QED BY <1>1, <2>1, <2>2, ReachStays DEF IInv
<1> QED BY <1>3, <1>6, <1>7, <1>8, <1>9, <1>10, <1>11, <1>12, <1>13, <1>14 DEF IInv

LEMMA ProduceDoneKeeps == ASSUME IInv, NEW m \in Member, ProduceDone(m) PROVE IInv'
<1> DEFINE p == request[m].p
           offer == [do |-> "offer", todo |-> Audience(m) \X {p}, now |-> None, pin |-> p]
           new == IF st[p] = "open" THEN offer ELSE Idle
           R == IF st[p] = "open" THEN With(m, {p}) ELSE refs
<1>1. /\ request[m].do = "produce" /\ request' = [request EXCEPT ![m] = new] /\ Settle(R, closes)
      /\ UNCHANGED <<left, members, recvs, st, up, via, hand, acquired, missed, failed>>
  <2>1. CASE st[p] = "open"
    BY <2>1 DEF ProduceDone, Become
  <2>2. CASE st[p] # "open"
    BY <2>2 DEF ProduceDone, Become
  <2> QED BY <2>1, <2>2
<1>2. p \in Producer /\ Taken(p)
  <2>1. request[m] \in ProduceRequest
    BY <1>1, RequestOf DEF IInv
  <2> QED BY <1>1, <2>1 DEF ProduceRequest, IInv, Works, WorksOn
<1> HIDE DEF p
<1>3. /\ offer \in Request /\ offer.do = "offer" /\ offer.now = None
      /\ \A x \in members \ {m} : <<x, p>> \in offer.todo
  BY <1>2, Requests DEF OfferRequest, Audience, IInv, TypeOK
<1> HIDE DEF offer
<1>4. /\ new \in Request /\ new.do \in {"idle", "offer"} /\ (new.do = "offer" => new.now = None)
      /\ (st[p] = "open" => new = offer)
  BY <1>3, Requests DEF Idle
<1>5. /\ R \in [Member -> SUBSET Res]
      /\ \A x \in Member : x # m => R[x] = refs[x]
      /\ R[m] \in {refs[m], refs[m] \union {p}} /\ (p \in R[m] => p \in refs[m] \/ st[p] = "open")
  BY <1>2, Apart DEF IInv, TypeOK, With
<1> HIDE DEF new, R
<1>6. /\ refs' \in [Member -> SUBSET Res] /\ closes' \in SUBSET Res
      /\ Settled(R, closes) /\ Gone'
  <2>1. left' \subseteq Member /\ closes \in SUBSET Res
    BY <1>1 DEF IInv, TypeOK
  <2> QED BY <1>1, <1>5, <2>1, Settles
<1>7. /\ \A x \in Member : x # m => refs'[x] \subseteq refs[x]
      /\ refs'[m] \subseteq refs[m] \union {p}
      /\ \A x \in Member : \A t \in Transport : t \in refs[x] => t \in refs'[x] \/ t \in closes'
      /\ \A x \in Member : \A t \in Transport : t \in refs'[x] => t \in refs[x]
      /\ \A t \in closes' : t \in closes \/ (t \in Transport /\ \E x \in Member : t \in refs[x])
      /\ closes \subseteq closes'
  BY <1>2, <1>5, <1>6, Apart DEF Settled
<1>8. /\ request'[m] = new /\ \A x \in Member : x # m => request'[x] = request[x]
      /\ \A x \in Member : Now(x)' = Now(x)
  BY <1>1, <1>4 DEF IInv, TypeOK, Now
<1>9. TypeOK'
  <2>1. request' \in [Member -> Request]
    BY <1>1, <1>4 DEF IInv, TypeOK
  <2> QED BY <1>1, <1>6, <2>1 DEF IInv, TypeOK
<1>10. Used'
  BY <1>1, <1>2, <1>7, Apart DEF IInv, Used, Taken
<1>11. Parents' /\ WhyClosed'
  BY <1>1 DEF IInv, Parents, WhyClosed, Taken
<1>12. OwnTransports' /\ OnlyFirst'
  BY <1>1, <1>7, Apart DEF IInv, TypeOK, OwnTransports, OnlyFirst
<1>13. Works'
  <2>1. Kept
    BY <1>1 DEF Kept, Taken
  <2>2. \A x \in Member : x # m => WorksOn(x)'
    BY <1>8, <2>1, OtherWorks DEF IInv, Works
  <2>3. WorksOn(m)'
    BY <1>4, <1>8 DEF WorksOn, Now
  <2> QED BY <2>2, <2>3 DEF Works
<1>14. Joined'
  BY <1>1, <1>7, <1>8 DEF IInv, Joined, Idle
<1>15. Placed'
  BY <1>1, <1>4, <1>7, <1>8 DEF IInv, Placed
<1>16. Replacing'
  BY <1>1, <1>4, <1>7, <1>8, Apart DEF IInv, Replacing, Replaced
<1>17. Reach'
  <2>1. \A k \in Member, q \in Producer, v \in Recv : Served(k, q, v) => Served(k, q, v)'
    BY <1>1, <1>8, StillServed
  <2> SUFFICES ASSUME NEW k \in members, NEW y \in members, NEW q \in Producer, NEW t \in Recv,
                      Wanted(k, y, q, t)'
               PROVE  Served(k, q, t)'
    BY <1>1 DEF Reach
  <2>2. k \in Member /\ y \in Member
    BY DEF IInv, TypeOK
  <2>3. CASE q \in refs[y]
    <3>1. Wanted(k, y, q, t)
      BY <1>1, <1>7, <2>2, <2>3, Apart DEF Wanted
    <3> QED BY <2>1, <2>2, <3>1 DEF IInv, Reach
  <2>4. CASE q \notin refs[y]
    <3>1. y = m /\ q = p /\ k # m
      BY <1>7, <2>2, <2>4 DEF Wanted
    <3>2. st[p] = "open"
      BY <1>1, <3>1 DEF Wanted
    <3>3. <<k, p>> \in request'[m].todo /\ request'[m].do = "offer"
      BY <1>3, <1>4, <1>8, <3>1, <3>2
    <3> QED BY <3>1, <3>3 DEF Served
  <2> QED BY <2>3, <2>4
<1> QED BY <1>6, <1>9, <1>10, <1>11, <1>12, <1>13, <1>14, <1>15, <1>16, <1>17 DEF IInv

LEMMA AcquireKeeps == ASSUME IInv, NEW m \in Member, Acquire(m) PROVE IInv'
<1> DEFINE new == [do |-> "offer", todo |-> {m} \X Streams(m), now |-> None, pin |-> None]
<1>1. /\ m \in members /\ request[m] = Idle
      /\ request' = [request EXCEPT ![m] = new]
      /\ acquired' = [acquired EXCEPT ![m] = Relay(m) # None]
      /\ UNCHANGED <<members, left, refs, recvs, st, up, via, closes, hand, missed, failed>>
  BY DEF Acquire, Become
<1>2. /\ new \in Request /\ new.do = "offer" /\ new.now = None
      /\ \A p \in Streams(m) : <<m, p>> \in new.todo
  BY Requests DEF OfferRequest, Streams
<1> HIDE DEF new
<1>3. /\ request'[m] = new /\ \A x \in Member : x # m => request'[x] = request[x]
      /\ \A x \in Member : x # m => acquired'[x] = acquired[x]
      /\ Idle.do = "idle"
      /\ \A x \in Member : Now(x)' = Now(x)
  BY <1>1, <1>2 DEF IInv, TypeOK, Now, Idle
<1>4. TypeOK'
  <2>1. request' \in [Member -> Request]
    BY <1>1, <1>2 DEF IInv, TypeOK
  <2>2. acquired' \in [Member -> BOOLEAN]
    BY <1>1 DEF IInv, TypeOK
  <2> QED BY <1>1, <2>1, <2>2 DEF IInv, TypeOK
<1>5. Used' /\ Parents' /\ OwnTransports' /\ OnlyFirst' /\ WhyClosed'
  BY <1>1 DEF IInv, Used, Parents, OwnTransports, OnlyFirst, WhyClosed, Taken
<1>6. Works'
  <2>1. Kept
    BY <1>1 DEF Kept, Taken
  <2>2. \A x \in Member : x # m => WorksOn(x)'
    BY <1>3, <2>1, OtherWorks DEF IInv, Works
  <2>3. WorksOn(m)'
    BY <1>2, <1>3 DEF WorksOn, Now
  <2> QED BY <2>2, <2>3 DEF Works
<1>7. Joined'
  BY <1>1, <1>3 DEF IInv, Joined
<1>8. Gone'
  <2>1. \A x \in Member : Held(x) => Held(x)'
    BY <1>1, <1>3, StillHeld
  <2> QED BY <1>1, <2>1, GoneStays DEF IInv
<1>9. Placed'
  BY <1>1, <1>2, <1>3 DEF IInv, Placed
<1>10. Replacing'
  BY <1>1, <1>2, <1>3 DEF IInv, Replacing, Replaced
<1>11. Reach'
  <2>1. \A k \in Member, q \in Producer, v \in Recv : Served(k, q, v) => Served(k, q, v)'
    BY <1>1, <1>3, StillServed
  <2> SUFFICES ASSUME NEW k \in members, NEW y \in members, NEW q \in Producer, NEW t \in Recv,
                      Wanted(k, y, q, t)'
               PROVE  Served(k, q, t)'
    BY <1>1 DEF Reach
  <2>2. k \in Member /\ y \in Member
    BY DEF IInv, TypeOK
  <2>3. CASE k = m
    <3>1. q \in Streams(m)
      BY <1>1, <2>3 DEF Wanted, Streams
    <3> QED BY <1>2, <1>3, <2>3, <3>1 DEF Served
  <2>4. CASE k # m
    <3>1. Wanted(k, y, q, t)
      BY <1>1, <1>3, <2>2, <2>4 DEF Wanted
    <3> QED BY <2>1, <2>2, <3>1 DEF IInv, Reach
  <2> QED BY <2>3, <2>4
<1> QED BY <1>4, <1>5, <1>6, <1>7, <1>8, <1>9, <1>10, <1>11 DEF IInv

\* Whoever is found in the room has joined it.
LEMMA FoundJoined ==
  ASSUME IInv, NEW m \in Member, MemberFound(m) PROVE m \in members \union left
<1>1. CASE m \in members
  BY <1>1
<1>2. CASE request[m].do \in {"init", "produce", "offer"}
  BY <1>2 DEF IInv, Joined, Idle
<1>3. ASSUME NEW x \in Member, Now(x) # None /\ m \in {Now(x).to, Now(x).of}
      PROVE  m \in members \union left
  BY <1>3 DEF IInv, Works, WorksOn
<1> QED BY <1>1, <1>2, <1>3 DEF MemberFound, Held

LEMMA OfferBeginKeeps == ASSUME IInv, NEW x \in Member, OfferBegin(x) PROVE IInv'
<1>1. /\ request[x].do = "offer" /\ request[x].now = None
      /\ UNCHANGED <<members, left, refs, recvs, st, up, via, closes, hand, acquired, missed, failed>>
  BY DEF OfferBegin
<1>2. request[x] \in OfferRequest
  BY <1>1, RequestOf DEF IInv
<1>3. PICK o \in request[x].todo :
        LET rest == [request[x] EXCEPT !.todo = @ \ {o}]
        IN  IF MemberFound(o[1]) /\ OwnersFound(o[2]) # {} /\ Relay(o[1]) # None
            THEN \E m \in OwnersFound(o[2]) :
                   Become(x, [rest EXCEPT !.now =
                     [to |-> o[1], p |-> o[2], of |-> m, t |-> Relay(o[1]), c |-> None]])
            ELSE Become(x, rest)
  BY DEF OfferBegin
<1>4. o[1] \in Member /\ o[2] \in Producer /\ o = <<o[1], o[2]>>
  BY <1>2 DEF OfferRequest
<1> DEFINE Begins == MemberFound(o[1]) /\ OwnersFound(o[2]) # {} /\ Relay(o[1]) # None
           Starts(n) ==
             /\ n.to = o[1] /\ n.p = o[2] /\ n.of \in OwnersFound(o[2]) /\ n.t = Relay(o[1])
             /\ n.c = None
<1>5. PICK new :
        /\ request' = [request EXCEPT ![x] = new] /\ new \in OfferRequest
        /\ new.todo = request[x].todo \ {o} /\ new.pin = request[x].pin
        /\ IF Begins THEN new.now \in Offer /\ Starts(new.now) ELSE new.now = None
  <2> DEFINE rest == [request[x] EXCEPT !.todo = @ \ {o}]
  <2>1. /\ rest \in OfferRequest /\ rest.todo = request[x].todo \ {o}
        /\ rest.pin = request[x].pin /\ rest.now = None
    BY <1>1, <1>2 DEF OfferRequest
  <2>2. CASE Begins
    <3>1. PICK m \in OwnersFound(o[2]) :
            Become(x, [rest EXCEPT !.now =
              [to |-> o[1], p |-> o[2], of |-> m, t |-> Relay(o[1]), c |-> None]])
      BY <1>3, <2>2
    <3> DEFINE n == [to |-> o[1], p |-> o[2], of |-> m, t |-> Relay(o[1]), c |-> None]
    <3>2. m \in Member /\ Relay(o[1]) \in Recv
      BY <1>4, <2>2, RelayIsOpen DEF IInv, OwnersFound
    <3>3. n \in Offer /\ Starts(n)
      BY <1>4, <3>1, <3>2 DEF Offer
    <3> HIDE DEF n, rest
    <3> DEFINE new == [rest EXCEPT !.now = n]
    <3>4. /\ new \in OfferRequest /\ new.todo = rest.todo /\ new.pin = rest.pin /\ new.now = n
      BY <2>1, <3>3 DEF OfferRequest
    <3>5. request' = [request EXCEPT ![x] = new]
      BY <3>1 DEF Become, n
    <3> HIDE DEF new
    <3> QED BY <2>1, <2>2, <3>3, <3>4, <3>5
  <2>3. CASE ~Begins
    <3>1. request' = [request EXCEPT ![x] = rest]
      BY <1>3, <2>3 DEF Become
    <3> HIDE DEF rest
    <3> QED BY <2>1, <2>3, <3>1
  <2> QED BY <2>2, <2>3
<1> HIDE DEF Begins, Starts
<1>6. /\ request'[x] = new /\ new.do = "offer"
      /\ \A y \in Member : y # x => request'[y] = request[y]
      /\ \A y \in Member : y # x => Now(y)' = Now(y)
      /\ Now(x) = None /\ Now(x)' = new.now
  BY <1>1, <1>5 DEF IInv, TypeOK, OfferRequest, Now
<1>7. TypeOK'
  <2>1. request' \in [Member -> Request]
    BY <1>5, Requests DEF IInv, TypeOK
  <2> QED BY <1>1, <2>1 DEF IInv, TypeOK
<1>8. Used' /\ Parents' /\ OwnTransports' /\ OnlyFirst' /\ WhyClosed'
  BY <1>1 DEF IInv, Used, Parents, OwnTransports, OnlyFirst, WhyClosed, Taken
<1>9. Works'
  <2>1. Kept
    BY <1>1 DEF Kept, Taken
  <2>2. \A y \in Member : y # x => WorksOn(y)'
    BY <1>6, <2>1, OtherWorks DEF IInv, Works
  <2>3. WorksOn(x)'
    <3>1. CASE ~Begins
      BY <1>5, <1>6, <3>1 DEF WorksOn
    <3>2. CASE Begins
      <4>1. PICK n : n = new.now /\ n \in Offer /\ Starts(n)
        BY <1>5, <3>2
      <4>2. /\ Relay(o[1]) \in Recv /\ Relay(o[1]) \in refs[o[1]] /\ st[Relay(o[1])] = "open"
        BY <1>4, <3>2, RelayIsOpen DEF IInv, Begins
      <4>3. Taken(n.t) /\ up[n.t] = n.to
        BY <1>4, <4>1, <4>2, Apart DEF IInv, OwnTransports, Taken, Starts
      <4>4. n.of \in Member /\ Taken(n.p)
        BY <4>1 DEF IInv, Used, OwnersFound, Starts
      <4>5. {n.to, n.of} \subseteq members \union left
        BY <1>4, <3>2, <4>1, <4>4, FoundJoined DEF OwnersFound, Starts, Begins
      <4> QED BY <1>1, <1>6, <4>1, <4>3, <4>4, <4>5 DEF WorksOn, Taken, Starts
    <3> QED BY <3>1, <3>2
  <2> QED BY <2>2, <2>3 DEF Works
<1>10. Joined'
  BY <1>1, <1>6 DEF IInv, Joined, Idle
<1>11. Gone'
  <2>1. \A y \in Member : Held(y) => Held(y)'
    BY <1>1, <1>5, <1>6, StillHeld
  <2> QED BY <1>1, <2>1, GoneStays DEF IInv
<1>12. Placed'
  BY <1>1, <1>6 DEF IInv, Placed
<1>13. Replacing'
  BY <1>1, <1>6 DEF IInv, Replacing, Replaced
<1>14. Reach'
  <2> SUFFICES ASSUME NEW k \in members, NEW y \in members, NEW q \in Producer, NEW t \in Recv,
                      Wanted(k, y, q, t)
               PROVE  Served(k, q, t)'
    BY <1>1 DEF Reach, Wanted
  <2>1. k \in Member /\ y \in Member /\ Served(k, q, t)
    BY DEF IInv, TypeOK, Reach
  <2>2. ASSUME NEW c \in Consumer, st[c] = "open" /\ up[c] = q /\ via[c] = t PROVE Served(k, q, t)'
    BY <1>1, <2>2 DEF Served
  <2>3. ASSUME NEW z \in Member, z # x, request[z].do = "offer",
               \/ <<k, q>> \in request[z].todo
               \/ Now(z) # None /\ Now(z).to = k /\ Now(z).p = q /\ Now(z).t = t
        PROVE  Served(k, q, t)'
    BY <1>6, <2>3 DEF Served
  <2>4. CASE <<k, q>> \in request[x].todo /\ <<k, q>> # o
    BY <1>5, <1>6, <2>4 DEF Served
  <2>5. CASE <<k, q>> = o
    <3>1. Relay(k) = t
      BY <2>1, RelayIsNewest DEF IInv, Wanted
    <3>2. o[1] = k /\ o[2] = q
      BY <2>5
    <3>3. Begins
      BY <2>1, <3>1, <3>2, Apart DEF Begins, MemberFound, OwnersFound, Wanted
    <3>4. /\ new.now # None /\ new.now.to = k /\ new.now.p = q /\ new.now.t = t
      <4>1. new.now \in Offer /\ Starts(new.now)
        BY <1>5, <3>3
      <4> QED BY <3>1, <3>2, <4>1, NoneAssumption DEF Starts
    <3> QED BY <1>6, <3>4 DEF Served
  <2> QED BY <1>6, <2>1, <2>2, <2>3, <2>4, <2>5 DEF Served
<1> QED BY <1>7, <1>8, <1>9, <1>10, <1>11, <1>12, <1>13, <1>14 DEF IInv

LEMMA OfferBuildKeeps ==
  ASSUME IInv, NEW x \in Member, NEW c \in Consumer, OfferBuild(x, c) PROVE IInv'
<1> DEFINE new == [request[x] EXCEPT !.now.c = c]
<1>1. PICK o : o = Now(x)
  OBVIOUS
<1>2. /\ o # None /\ o.c = None /\ st[c] = "free" /\ st' = [st EXCEPT ![c] = "open"]
      /\ up' = [up EXCEPT ![c] = o.p] /\ via' = [via EXCEPT ![c] = o.t]
      /\ request' = [request EXCEPT ![x] = new]
      /\ UNCHANGED <<members, left, refs, recvs, closes, hand, acquired, missed, failed>>
  BY <1>1 DEF OfferBuild, Become, IsFresh
<1>3. /\ request[x].do = "offer" /\ request[x] \in OfferRequest /\ o = request[x].now /\ o \in Offer
      /\ o.to \in Member /\ o.of \in Member /\ o.p \in Producer /\ o.t \in Recv
      /\ o.p \in Res /\ o.t \in Res
  BY <1>1, <1>2, NowOf, RequestOf, Apart DEF IInv
<1>4. PICK n : /\ n = new.now /\ n \in Offer /\ n # None
               /\ n.to = o.to /\ n.of = o.of /\ n.p = o.p /\ n.t = o.t /\ n.c = c
  <2> DEFINE n == [o EXCEPT !.c = c]
  <2>1. n \in Offer /\ n.to = o.to /\ n.of = o.of /\ n.p = o.p /\ n.t = o.t /\ n.c = c
    BY <1>3 DEF Offer
  <2>2. new.now = n
    BY <1>3 DEF OfferRequest
  <2> HIDE DEF n
  <2> QED BY <2>1, <2>2, NoneAssumption
<1>5. /\ new \in OfferRequest /\ new.do = "offer" /\ new.todo = request[x].todo
      /\ new.pin = request[x].pin
  <2>1. new = [request[x] EXCEPT !.now = new.now]
    BY <1>3 DEF OfferRequest
  <2> HIDE DEF new
  <2> QED BY <1>3, <1>4, <2>1 DEF OfferRequest
<1> HIDE DEF new
<1>6. /\ request'[x] = new /\ \A y \in Member : y # x => request'[y] = request[y]
      /\ \A y \in Member : y # x => Now(y)' = Now(y)
      /\ Now(x)' = n
  BY <1>2, <1>4, <1>5 DEF IInv, TypeOK, Now
<1>7. /\ st'[c] = "open" /\ up'[c] = o.p /\ via'[c] = o.t
      /\ \A r \in Res : r # c => st'[r] = st[r] /\ up'[r] = up[r]
      /\ \A d \in Consumer : d # c => via'[d] = via[d]
      /\ \A r \in Res : Taken(r) => r # c /\ Taken(r)'
      /\ \A r \in Transport \union Producer : r # c /\ r \in Res
  BY <1>2, Apart DEF IInv, TypeOK, Taken
<1>8. TypeOK'
  <2>1. request' \in [Member -> Request]
    BY <1>2, <1>5, Requests DEF IInv, TypeOK
  <2>2. st' \in [Res -> {"free", "open", "closed"}]
    BY <1>2 DEF IInv, TypeOK
  <2>3. up' \in [Res -> Member \union Res \union {None}]
    BY <1>2, <1>3 DEF IInv, TypeOK
  <2>4. via' \in [Consumer -> Recv \union {None}]
    BY <1>2, <1>3 DEF IInv, TypeOK
  <2> QED BY <1>2, <2>1, <2>2, <2>3, <2>4 DEF IInv, TypeOK
<1>9. Used'
  <2>1. /\ \A k \in Member : \A r \in refs[k] : r \in Res
        /\ \A k \in Member : \A i \in DOMAIN recvs[k] : recvs[k][i] \in Res
        /\ \A r \in closes : r \in Res
        /\ hand.from # None => hand.from \in Res
        /\ \A i \in DOMAIN hand.ids : hand.ids[i] \in Res
    BY Apart DEF IInv, TypeOK
  <2> QED BY <1>2, <1>7, <2>1 DEF IInv, Used, Taken
<1>10. Taken(o.p) /\ Taken(o.t) /\ up[o.t] = o.to /\ {o.to, o.of} \subseteq members \union left
  BY <1>1, <1>2 DEF IInv, Works, WorksOn
<1>11. Taken(o.p)' /\ Taken(o.t)' /\ up'[o.t] = o.to
  BY <1>3, <1>7, <1>10 DEF Taken
<1>12. Parents'
  <2>1. ASSUME NEW d \in Consumer, d # c, Taken(d)'
        PROVE  up'[d] \in Producer /\ Taken(up[d])' /\ via'[d] \in Recv /\ Taken(via[d])'
    <3>1. /\ d \in Res /\ Taken(d) /\ up'[d] = up[d] /\ via'[d] = via[d]
      BY <1>7, <2>1, Apart DEF Taken
    <3>2. up[d] \in Producer /\ Taken(up[d]) /\ via[d] \in Recv /\ Taken(via[d])
      BY <3>1 DEF IInv, Parents
    <3>3. up[d] \in Res /\ via[d] \in Res
      BY <3>2, Apart
    <3> QED BY <1>7, <3>1, <3>2, <3>3 DEF Taken
  <2>2. up'[c] \in Producer /\ Taken(up[c])' /\ via'[c] \in Recv /\ Taken(via[c])'
    BY <1>3, <1>7, <1>11 DEF Taken
  <2> QED BY <2>1, <2>2 DEF Parents
<1>13. WhyClosed'
  <2> SUFFICES ASSUME NEW d \in Consumer, st'[d] = "closed"
               PROVE  \/ st'[up'[d]] = "closed" \/ st'[via'[d]] = "closed"
                      \/ <<up'[via'[d]], up'[d]>> \in missed'
    BY DEF WhyClosed
  <2>1. /\ d # c /\ d \in Res /\ Taken(d) /\ up'[d] = up[d] /\ via'[d] = via[d] /\ st[d] = "closed"
    BY <1>7, Apart DEF Taken
  <2>2. up[d] \in Producer /\ via[d] \in Recv
    BY <2>1 DEF IInv, Parents
  <2>3. /\ st'[up[d]] = st[up[d]] /\ st'[via[d]] = st[via[d]] /\ up'[via[d]] = up[via[d]]
    BY <1>7, <2>2, Apart
  <2> QED BY <1>2, <2>1, <2>3 DEF IInv, WhyClosed
<1>14. OwnTransports' /\ OnlyFirst'
  BY <1>2, <1>7, Apart DEF IInv, TypeOK, OwnTransports, OnlyFirst
<1>15. Works'
  <2>1. Kept
    BY <1>2, <1>7, Apart DEF Kept
  <2>2. \A y \in Member : y # x => WorksOn(y)'
    BY <1>6, <2>1, OtherWorks DEF IInv, Works
  <2>3. WorksOn(x)'
    BY <1>2, <1>4, <1>5, <1>6, <1>7, <1>10, <1>11 DEF WorksOn, Taken
  <2> QED BY <2>2, <2>3 DEF Works
<1>16. Joined'
  BY <1>2, <1>3, <1>6 DEF IInv, Joined, Idle
<1>17. Gone'
  <2>1. \A y \in Member : Held(y) => Held(y)'
    BY <1>1, <1>3, <1>4, <1>5, <1>6, StillHeld
  <2> QED BY <1>2, <2>1, GoneStays DEF IInv
<1>18. Placed'
  BY <1>2, <1>3, <1>5, <1>6, <1>7 DEF IInv, Placed
<1>19. Replacing'
  BY <1>2, <1>3, <1>5, <1>6, <1>7, Apart DEF IInv, Replacing, Replaced
<1>20. Reach'
  <2>1. \A k, y \in Member, q \in Producer, v \in Recv : Wanted(k, y, q, v)' => Wanted(k, y, q, v)
    BY <1>2, <1>7, LessWanted, Apart
  <2>2. ASSUME NEW k \in Member, NEW q \in Producer, NEW v \in Recv, Served(k, q, v)
        PROVE  Served(k, q, v)'
    <3>1. ASSUME NEW d \in Consumer, st[d] = "open" /\ up[d] = q /\ via[d] = v PROVE Served(k, q, v)'
      BY <1>2, <1>7, <3>1, Apart DEF Served
    <3>2. ASSUME NEW z \in Member, request[z].do = "offer",
                 \/ <<k, q>> \in request[z].todo
                 \/ Now(z) # None /\ Now(z).to = k /\ Now(z).p = q /\ Now(z).t = v
          PROVE  Served(k, q, v)'
      <4>1. CASE z # x
        BY <1>6, <3>2, <4>1 DEF Served
      <4>2. CASE z = x
        <5>1. request'[x].do = "offer" /\ request'[x].todo = request[x].todo
          BY <1>5, <1>6
        <5>2. CASE <<k, q>> \in request[x].todo
          BY <5>1, <5>2 DEF Served
        <5>3. CASE o.to = k /\ o.p = q /\ o.t = v
          <6>1. Now(x)' # None /\ Now(x)'.to = k /\ Now(x)'.p = q /\ Now(x)'.t = v
            BY <1>4, <1>6, <5>3
          <6> QED BY <5>1, <6>1 DEF Served
        <5> QED BY <1>1, <3>2, <4>2, <5>2, <5>3
      <4> QED BY <4>1, <4>2
    <3> QED BY <2>2, <3>1, <3>2 DEF Served
  <2> QED BY <1>2, <2>1, <2>2, ReachStays DEF IInv
<1> QED BY <1>8, <1>9, <1>12, <1>13, <1>14, <1>15, <1>16, <1>17, <1>18, <1>19, <1>20 DEF IInv

LEMMA OfferFailsKeeps == ASSUME IInv, NEW x \in Member, OfferFails(x) PROVE IInv'
<1> DEFINE new == [request[x] EXCEPT !.now = None]
<1>1. PICK o : o = Now(x)
  OBVIOUS
<1>2. /\ o # None /\ failed' \in {failed, failed + 1} /\ (failed' # failed => failed < MaxTroubles)
      /\ st' = [r \in Res |-> IF r = o.c THEN "closed" ELSE st[r]]
      /\ request' = [request EXCEPT ![x] = new]
      /\ missed' = missed \union {<<o.to, o.p>>}
      /\ Settle(refs, closes)
      /\ UNCHANGED <<left, members, recvs, up, via, hand, acquired>>
  BY <1>1 DEF OfferFails, Become, Trouble
<1>3. /\ request[x].do = "offer" /\ request[x] \in OfferRequest /\ o = request[x].now
      /\ o.to \in Member /\ o.p \in Producer /\ o.t \in Recv /\ o.c \in Consumer \union {None}
  BY <1>1, <1>2, NowOf, RequestOf DEF IInv
<1>4. /\ new \in OfferRequest /\ new.do = "offer" /\ new.now = None /\ new.todo = request[x].todo
  BY <1>3 DEF OfferRequest
<1> HIDE DEF new
<1>5. /\ refs' \in [Member -> SUBSET Res] /\ closes' \in SUBSET Res
      /\ Settled(refs, closes) /\ Gone'
  <2>1. refs \in [Member -> SUBSET Res] /\ left' \subseteq Member /\ closes \in SUBSET Res
    BY <1>2 DEF IInv, TypeOK
  <2> QED BY <1>2, <2>1, Settles
<1>6. /\ request'[x] = new /\ \A y \in Member : y # x => request'[y] = request[y]
      /\ \A y \in Member : y # x => Now(y)' = Now(y)
      /\ Now(x)' = None
  BY <1>2, <1>4 DEF IInv, TypeOK, Now
<1>7. o.c # None => Taken(o.c) /\ up[o.c] = o.p /\ via[o.c] = o.t /\ up[o.t] = o.to
  BY <1>1, <1>2 DEF IInv, Works, WorksOn
<1>8. /\ \A r \in Res : r # o.c => st'[r] = st[r]
      /\ \A r \in Res : Taken(r)' <=> Taken(r)
      /\ \A r \in Res : st[r] = "closed" => st'[r] = "closed"
      /\ \A r \in Res : st'[r] = "open" => st[r] = "open"
      /\ \A r \in Transport \union Producer : r # o.c /\ r \in Res
  BY <1>2, <1>3, <1>7, Apart DEF IInv, TypeOK, Taken
<1>9. TypeOK'
  <2>1. request' \in [Member -> Request]
    BY <1>2, <1>4, Requests DEF IInv, TypeOK
  <2>2. failed' \in 0..MaxTroubles
    BY <1>2, RoomStreamsAssumption DEF IInv, TypeOK
  <2>3. st' \in [Res -> {"free", "open", "closed"}] /\ missed' \subseteq Member \X Producer
    BY <1>2, <1>3 DEF IInv, TypeOK
  <2> QED BY <1>2, <1>5, <2>1, <2>2, <2>3 DEF IInv, TypeOK
<1>10. Used'
  <2>1. /\ \A k \in Member : \A r \in refs[k] : r \in Res
        /\ \A k \in Member : \A i \in DOMAIN recvs[k] : recvs[k][i] \in Res
        /\ \A r \in closes : r \in Res
        /\ hand.from # None => hand.from \in Res
        /\ \A i \in DOMAIN hand.ids : hand.ids[i] \in Res
    BY Apart DEF IInv, TypeOK
  <2> QED BY <1>2, <1>5, <1>8, <2>1, Apart DEF IInv, Settled, Used
<1>11. Parents'
  BY <1>2, <1>8, Apart DEF IInv, Parents, Taken
<1>12. WhyClosed'
  <2> SUFFICES ASSUME NEW c \in Consumer, st'[c] = "closed"
               PROVE  \/ st'[up[c]] = "closed" \/ st'[via[c]] = "closed"
                      \/ <<up[via[c]], up[c]>> \in missed'
    BY <1>2 DEF WhyClosed
  <2>1. CASE c = o.c
    BY <1>2, <1>3, <1>7, <2>1, Apart
  <2>2. CASE c # o.c
    <3>1. c \in Res /\ st[c] = "closed"
      BY <1>8, <2>2, Apart
    <3>2. up[c] \in Res /\ via[c] \in Res
      BY <3>1, Apart DEF IInv, Parents, Taken
    <3> QED BY <1>2, <1>8, <3>1, <3>2 DEF IInv, WhyClosed
  <2> QED BY <2>1, <2>2
<1>13. OwnTransports' /\ OnlyFirst'
  BY <1>2, <1>5, <1>8, Apart DEF IInv, TypeOK, Settled, OwnTransports, OnlyFirst
<1>14. Works'
  <2>1. Kept
    BY <1>2, <1>8 DEF Kept
  <2>2. \A y \in Member : y # x => WorksOn(y)'
    BY <1>6, <2>1, OtherWorks DEF IInv, Works
  <2>3. WorksOn(x)'
    BY <1>4, <1>6 DEF WorksOn
  <2> QED BY <2>2, <2>3 DEF Works
<1>15. Joined'
  BY <1>2, <1>3, <1>5, <1>6 DEF IInv, Settled, Joined, Idle
<1>16. Placed'
  BY <1>2, <1>3, <1>5, <1>6, <1>8 DEF IInv, Settled, Placed
<1>17. Replacing'
  BY <1>2, <1>4, <1>5, <1>6, <1>8, Apart DEF IInv, Settled, Replacing, Replaced
<1>18. Reach'
  <2> SUFFICES ASSUME NEW k \in members, NEW y \in members, NEW q \in Producer, NEW t \in Recv,
                      Wanted(k, y, q, t)'
               PROVE  Served(k, q, t)'
    BY <1>2 DEF Reach
  <2>1. k \in Member /\ y \in Member
    BY DEF IInv, TypeOK
  <2>2. Wanted(k, y, q, t) /\ <<k, q>> # <<o.to, o.p>>
    <3>1. refs'[k] \subseteq refs[k] /\ refs'[y] \subseteq refs[y] /\ closes \subseteq closes'
      BY <1>5, <2>1 DEF Settled
    <3> QED BY <1>2, <1>8, <3>1, Apart DEF Wanted
  <2>3. Served(k, q, t)
    BY <2>2 DEF IInv, Reach
  <2>4. ASSUME NEW c \in Consumer, st[c] = "open" /\ up[c] = q /\ via[c] = t PROVE Served(k, q, t)'
    <3>1. up[t] = k
      BY <2>1, <2>2, Apart DEF IInv, OwnTransports, Wanted
    <3>2. c # o.c
      BY <1>3, <1>7, <2>2, <2>4, <3>1, Apart
    <3> QED BY <1>2, <1>8, <2>4, <3>2, Apart DEF Served
  <2>5. ASSUME NEW z \in Member, request[z].do = "offer",
               \/ <<k, q>> \in request[z].todo
               \/ Now(z) # None /\ Now(z).to = k /\ Now(z).p = q /\ Now(z).t = t
        PROVE  Served(k, q, t)'
    <3>1. CASE z # x
      BY <1>6, <2>5, <3>1 DEF Served
    <3>2. CASE z = x
      BY <1>1, <1>4, <1>6, <2>2, <2>5, <3>2 DEF Served
    <3> QED BY <3>1, <3>2
  <2> QED BY <2>3, <2>4, <2>5 DEF Served
<1> QED BY <1>5, <1>9, <1>10, <1>11, <1>12, <1>13, <1>14, <1>15, <1>16, <1>17, <1>18 DEF IInv

LEMMA OfferDoneKeeps == ASSUME IInv, NEW x \in Member, OfferDone(x) PROVE IInv'
<1> DEFINE new == [request[x] EXCEPT !.now = None]
<1>1. PICK o : o = Now(x)
  OBVIOUS
<1> DEFINE R == IF st[o.c] = "open" THEN With(o.to, {o.c}) ELSE refs
<1>2. /\ o # None /\ o.c # None
      /\ request' = [request EXCEPT ![x] = new]
      /\ Settle(R, closes)
      /\ UNCHANGED <<left, members, recvs, st, up, via, hand, acquired, missed, failed>>
  BY <1>1 DEF OfferDone, Become
<1>3. /\ request[x].do = "offer" /\ request[x] \in OfferRequest /\ o = request[x].now
      /\ o.to \in Member /\ o.p \in Producer /\ o.t \in Recv /\ o.c \in Consumer
      /\ Taken(o.c) /\ up[o.c] = o.p /\ via[o.c] = o.t /\ up[o.t] = o.to
      /\ o.to \in members \union left
  <2>1. /\ request[x].do = "offer" /\ request[x] \in OfferRequest /\ o = request[x].now
        /\ o.to \in Member /\ o.p \in Producer /\ o.t \in Recv /\ o.c \in Consumer
    BY <1>1, <1>2, NowOf, RequestOf DEF IInv
  <2> QED BY <1>1, <1>2, <2>1 DEF IInv, Works, WorksOn
<1>4. /\ new \in OfferRequest /\ new.do = "offer" /\ new.now = None /\ new.todo = request[x].todo
  BY <1>3 DEF OfferRequest
<1>5. /\ R \in [Member -> SUBSET Res]
      /\ \A m \in Member : R[m] = refs[m] \/ (m = o.to /\ R[m] = refs[m] \union {o.c})
  <2>1. refs \in [Member -> SUBSET Res] /\ {o.c} \subseteq Res
    BY <1>3, Apart DEF IInv, TypeOK
  <2>2. With(o.to, {o.c}) = [refs EXCEPT ![o.to] = @ \union {o.c}]
    BY DEF With
  <2>3. CASE st[o.c] = "open"
    <3>1. R = [refs EXCEPT ![o.to] = @ \union {o.c}]
      BY <2>2, <2>3
    <3> HIDE DEF R
    <3>2. R \in [Member -> SUBSET Res]
      BY <1>3, <2>1, <3>1
    <3>3. \A m \in Member : m # o.to => R[m] = refs[m]
      BY <2>1, <3>1
    <3>4. R[o.to] = refs[o.to] \union {o.c}
      BY <1>3, <2>1, <3>1
    <3> QED BY <3>2, <3>3, <3>4
  <2>4. CASE st[o.c] # "open"
    BY <2>1, <2>4
  <2> QED BY <2>3, <2>4
<1> HIDE DEF new, R
<1>6. /\ refs' \in [Member -> SUBSET Res] /\ closes' \in SUBSET Res
      /\ Settled(R, closes) /\ Gone'
  <2>1. left' \subseteq Member /\ closes \in SUBSET Res
    BY <1>2 DEF IInv, TypeOK
  <2> QED BY <1>2, <1>5, <2>1, Settles
<1>7. /\ \A m \in Member : \A r \in refs'[m] : r \in refs[m] \/ (m = o.to /\ r = o.c)
      /\ \A m \in Member : \A t \in Transport : t \in refs[m] => t \in refs'[m] \/ t \in closes'
      /\ \A m \in Member : \A r \in Transport \union Producer : r \in refs'[m] => r \in refs[m]
      /\ \A t \in closes' : t \in closes \/ (t \in Transport /\ \E m \in Member : t \in refs[m])
      /\ closes \subseteq closes'
  BY <1>3, <1>5, <1>6, Apart DEF Settled
<1>8. /\ request'[x] = new /\ \A y \in Member : y # x => request'[y] = request[y]
      /\ \A y \in Member : y # x => Now(y)' = Now(y)
      /\ Now(x)' = None
  BY <1>2, <1>4 DEF IInv, TypeOK, Now
<1>9. TypeOK'
  <2>1. request' \in [Member -> Request]
    BY <1>2, <1>4, Requests DEF IInv, TypeOK
  <2> QED BY <1>2, <1>6, <2>1 DEF IInv, TypeOK
<1>10. Used'
  BY <1>2, <1>3, <1>7, Apart DEF IInv, Used, Taken
<1>11. Parents' /\ WhyClosed'
  BY <1>2 DEF IInv, Parents, WhyClosed, Taken
<1>12. OwnTransports' /\ OnlyFirst'
  BY <1>2, <1>7, Apart DEF IInv, TypeOK, OwnTransports, OnlyFirst
<1>13. Works'
  <2>1. Kept
    BY <1>2 DEF Kept, Taken
  <2>2. \A y \in Member : y # x => WorksOn(y)'
    BY <1>8, <2>1, OtherWorks DEF IInv, Works
  <2>3. WorksOn(x)'
    BY <1>4, <1>8 DEF WorksOn
  <2> QED BY <2>2, <2>3 DEF Works
<1>14. Joined'
  BY <1>2, <1>3, <1>7, <1>8 DEF IInv, Joined, Idle
<1>15. Placed'
  BY <1>2, <1>3, <1>7, <1>8 DEF IInv, Placed
<1>16. Replacing'
  BY <1>2, <1>4, <1>7, <1>8, Apart DEF IInv, Replacing, Replaced
<1>17. Reach'
  <2> SUFFICES ASSUME NEW k \in members, NEW y \in members, NEW q \in Producer, NEW t \in Recv,
                      Wanted(k, y, q, t)'
               PROVE  Served(k, q, t)'
    BY <1>2 DEF Reach
  <2>1. k \in Member /\ y \in Member
    BY DEF IInv, TypeOK
  <2>2. Wanted(k, y, q, t)
    BY <1>2, <1>7, <2>1, Apart DEF Wanted
  <2>3. Served(k, q, t)
    BY <2>2 DEF IInv, Reach
  <2>4. ASSUME NEW c \in Consumer, st[c] = "open" /\ up[c] = q /\ via[c] = t PROVE Served(k, q, t)'
    BY <1>2, <2>4 DEF Served
  <2>5. ASSUME NEW z \in Member, request[z].do = "offer", z # x \/ <<k, q>> \in request[x].todo,
               \/ <<k, q>> \in request[z].todo
               \/ Now(z) # None /\ Now(z).to = k /\ Now(z).p = q /\ Now(z).t = t
        PROVE  Served(k, q, t)'
    BY <1>3, <1>4, <1>8, <2>5 DEF Served
  <2>6. CASE o.to = k /\ o.p = q /\ o.t = t
    <3>1. st[o.c] # "closed"
      BY <1>3, <2>2, <2>6 DEF IInv, WhyClosed, Wanted
    <3>2. st[o.c] = "open"
      BY <1>3, <3>1, Apart DEF IInv, TypeOK, Taken
    <3> QED BY <1>3, <2>4, <2>6, <3>2
  <2> QED BY <1>1, <2>3, <2>4, <2>5, <2>6 DEF Served
<1> QED BY <1>6, <1>9, <1>10, <1>11, <1>12, <1>13, <1>14, <1>15, <1>16, <1>17 DEF IInv

LEMMA OfferEndKeeps == ASSUME IInv, NEW x \in Member, OfferEnd(x) PROVE IInv'
<1>1. /\ request[x].do = "offer" /\ request[x].todo = {} /\ request[x].now = None
      /\ request' = [request EXCEPT ![x] = Idle] /\ Settle(refs, closes)
      /\ UNCHANGED <<left, members, recvs, st, up, via, hand, acquired, missed, failed>>
  BY DEF OfferEnd, Become
<1>2. /\ refs' \in [Member -> SUBSET Res] /\ closes' \in SUBSET Res
      /\ Settled(refs, closes) /\ Gone'
  <2>1. refs \in [Member -> SUBSET Res] /\ left' \subseteq Member /\ closes \in SUBSET Res
    BY <1>1 DEF IInv, TypeOK
  <2> QED BY <1>1, <2>1, Settles
<1>3. /\ request'[x] = Idle /\ Idle.do = "idle"
      /\ \A y \in Member : y # x => request'[y] = request[y]
      /\ \A y \in Member : Now(y)' = Now(y)
      /\ Now(x) = None
  BY <1>1 DEF IInv, TypeOK, Now, Idle
<1>4. TypeOK'
  <2>1. request' \in [Member -> Request]
    BY <1>1, Requests DEF IInv, TypeOK
  <2> QED BY <1>1, <1>2, <2>1 DEF IInv, TypeOK
<1>5. Used'
  BY <1>1, <1>2, Apart DEF IInv, Settled, Used, Taken
<1>6. Parents' /\ WhyClosed'
  BY <1>1 DEF IInv, Parents, WhyClosed, Taken
<1>7. OwnTransports' /\ OnlyFirst'
  BY <1>1, <1>2, Apart DEF IInv, Settled, OwnTransports, OnlyFirst
<1>8. Works'
  <2>1. Kept
    BY <1>1 DEF Kept, Taken
  <2>2. \A y \in Member : y # x => WorksOn(y)'
    BY <1>3, <2>1, OtherWorks DEF IInv, Works
  <2>3. WorksOn(x)'
    BY <1>3 DEF WorksOn
  <2> QED BY <2>2, <2>3 DEF Works
<1>9. Joined'
  BY <1>1, <1>2, <1>3 DEF IInv, Settled, Joined
<1>10. Placed'
  BY <1>1, <1>2, <1>3 DEF IInv, Settled, Placed
<1>11. Replacing'
  BY <1>1, <1>2, <1>3, Apart DEF IInv, Settled, Replacing, Replaced
<1>12. Reach'
  <2>1. \A k, y \in Member, q \in Producer, v \in Recv : Wanted(k, y, q, v)' => Wanted(k, y, q, v)
    BY <1>1, <1>2, LessWanted DEF Settled
  <2>2. ASSUME NEW k \in Member, NEW q \in Producer, NEW v \in Recv, Served(k, q, v)
        PROVE  Served(k, q, v)'
    BY <1>1, <1>3, <2>2 DEF Served
  <2> QED BY <1>1, <2>1, <2>2, ReachStays DEF IInv
<1> QED BY <1>2, <1>4, <1>5, <1>6, <1>7, <1>8, <1>9, <1>10, <1>11, <1>12 DEF IInv

LEMMA EventCloseKeeps == ASSUME IInv, NEW r \in Res, EventClose(r) PROVE IInv'
<1>1. /\ r \in closes /\ closes' = closes \ {r}
      /\ st' = [x \in Res |-> IF x \in Reached(r) THEN "closed" ELSE st[x]]
      /\ hand' = [from |-> r, ids |-> <<>>]
      /\ UNCHANGED <<members, left, refs, recvs, up, via, request, acquired, missed, failed>>
  BY DEF EventClose
<1>2. /\ \A x \in Res : st'[x] = IF x \in Reached(r) THEN "closed" ELSE st[x]
      /\ \A x \in Reached(r) : x \in Res /\ st[x] = "open"
      /\ \A x \in Res : Taken(x)' <=> Taken(x)
      /\ \A x \in Res : st[x] = "closed" => st'[x] = "closed"
      /\ \A x \in Res : st'[x] = "open" => st[x] = "open"
  <2>1. \A x \in Reached(r) : x \in Res /\ st[x] = "open"
    BY Apart DEF Reached
  <2> QED BY <1>1, <2>1 DEF Taken
<1>3. st'[r] = "closed" /\ Taken(r) /\ r \notin Consumer
  <2>1. Taken(r) /\ r \notin Consumer
    BY <1>1 DEF IInv, Used
  <2>2. st[r] = "open" => r \in Reached(r)
    BY DEF Reached
  <2> QED BY <1>2, <2>1, <2>2 DEF IInv, TypeOK, Taken
<1>4. \A c \in Consumer : st[c] = "open" /\ st'[c] # "open" => st'[up[c]] = "closed" \/ via[c] = r
  <2> SUFFICES ASSUME NEW c \in Consumer, st[c] = "open", st'[c] # "open", via[c] # r
               PROVE  st'[up[c]] = "closed"
    OBVIOUS
  <2>1. c \in Reached(r) /\ c # r /\ c \notin Producer
    BY <1>2, <1>3, Apart
  <2>2. up[c] \in Reached(r) /\ up[c] \in Res
    BY <2>1, Apart DEF Reached
  <2> QED BY <1>2, <2>2
<1>5. TypeOK'
  <2>1. st' \in [Res -> {"free", "open", "closed"}]
    BY <1>1 DEF IInv, TypeOK
  <2>2. hand' \in [from : Res \union {None}, ids : Seq(Res)]
    BY <1>1
  <2> QED BY <1>1, <2>1, <2>2 DEF IInv, TypeOK
<1>6. Used'
  <2>1. /\ \A k \in Member : \A x \in refs[k] : x \in Res
        /\ \A k \in Member : \A i \in DOMAIN recvs[k] : recvs[k][i] \in Res
        /\ \A x \in closes : x \in Res
    BY Apart DEF IInv, TypeOK
  <2>2. hand'.from = r /\ DOMAIN hand'.ids = {}
    BY <1>1
  <2>3. /\ \A k \in Member : \A x \in refs'[k] : Taken(x)'
        /\ \A k \in Member : \A i \in DOMAIN recvs'[k] : Taken(recvs[k][i])'
        /\ \A x \in closes' : Taken(x)' /\ x \notin Consumer
    BY <1>1, <1>2, <2>1 DEF IInv, Used, Taken
  <2> QED BY <1>3, <2>2, <2>3 DEF Used
<1>7. Parents'
  BY <1>1, <1>2, Apart DEF IInv, Parents, Taken
<1>8. WhyClosed'
  <2> SUFFICES ASSUME NEW c \in Consumer, st'[c] = "closed"
               PROVE  \/ st'[up[c]] = "closed" \/ st'[via[c]] = "closed"
                      \/ <<up[via[c]], up[c]>> \in missed
    BY <1>1 DEF WhyClosed
  <2>1. c \in Res /\ Taken(c)
    BY <1>2, Apart DEF Taken
  <2>2. up[c] \in Res /\ via[c] \in Res
    BY <2>1, Apart DEF IInv, Parents
  <2>3. CASE st[c] = "closed"
    BY <1>2, <2>2, <2>3 DEF IInv, WhyClosed
  <2>4. CASE st[c] = "open"
    BY <1>3, <1>4, <2>4
  <2> QED BY <2>1, <2>3, <2>4 DEF IInv, TypeOK, Taken
<1>9. OwnTransports' /\ OnlyFirst'
  <2>1. OwnTransports'
    BY <1>1 DEF IInv, OwnTransports
  <2>2. \A m \in Member : \A i \in DOMAIN recvs[m] : recvs[m][i] \in Res
    BY Apart DEF IInv, TypeOK
  <2>3. OnlyFirst'
    BY <1>1, <1>2, <1>3, <2>2 DEF IInv, OnlyFirst
  <2> QED BY <2>1, <2>3
<1>10. Works'
  <2>1. Kept
    BY <1>1, <1>2 DEF Kept
  <2>2. \A y \in Member : WorksOn(y)'
    BY <1>1, <2>1, OtherWorks DEF IInv, Works
  <2> QED BY <2>2 DEF Works
<1>11. Joined'
  BY <1>1 DEF IInv, Joined
<1>12. Gone'
  <2>1. \A y \in Member : Held(y) => Held(y)'
    BY <1>1, StillHeld DEF Now
  <2> QED BY <1>1, <2>1, GoneStays DEF IInv
<1>13. Placed'
  BY <1>1, <1>2, <1>3, Apart DEF IInv, Placed
<1>14. Replacing'
  BY <1>1, <1>2, <1>3, Apart DEF IInv, Replacing, Replaced
<1>15. Reach'
  <2> SUFFICES ASSUME NEW k \in members, NEW y \in members, NEW q \in Producer, NEW t \in Recv,
                      Wanted(k, y, q, t)'
               PROVE  Served(k, q, t)'
    BY <1>1 DEF Reach
  <2>1. k \in Member /\ y \in Member
    BY DEF IInv, TypeOK
  <2>2. st'[t] = "open" /\ st'[q] = "open" /\ t # r /\ t \in Res /\ q \in Res
    BY <1>3, Apart DEF Wanted
  <2>3. Wanted(k, y, q, t)
    BY <1>1, <1>2, <2>2 DEF Wanted
  <2>4. Served(k, q, t)
    BY <2>3 DEF IInv, Reach
  <2>5. ASSUME NEW c \in Consumer, st[c] = "open" /\ up[c] = q /\ via[c] = t PROVE Served(k, q, t)'
    BY <1>1, <1>4, <2>2, <2>5 DEF Served
  <2> QED BY <1>1, <2>4, <2>5 DEF Served, Now
<1> QED BY <1>5, <1>6, <1>7, <1>8, <1>9, <1>10, <1>11, <1>12, <1>13, <1>14, <1>15 DEF IInv

\* A finite set of resources in some order.
LEMMA SequenceOf ==
  ASSUME NEW S \in SUBSET (Producer \union Consumer)
  PROVE  SetToSeq(S) \in Seq(S)
<1>1. IsFiniteSet(S)
  BY RoomStreamsAssumption, FS_Union, FS_Subset
<1>2. Cardinality(S) \in Nat /\ ExistsBijection(1..Cardinality(S), S)
  BY <1>1, FS_CardinalityType
<1>3. \E f \in [1..Cardinality(S) -> S] : IsInjective(f)
  BY <1>2 DEF ExistsBijection, Bijection, Injection
<1>4. SetToSeq(S) \in [1..Cardinality(S) -> S]
  BY <1>3 DEF SetToSeq
<1> QED BY <1>2, <1>4

LEMMA EventCollectKeeps == ASSUME IInv, EventCollect PROVE IInv'
<1> DEFINE ids == IF Found(hand.from) THEN SetToSeq(Dependents(hand.from)) ELSE <<>>
<1>1. /\ hand.from # None /\ hand' = [from |-> None, ids |-> <<hand.from>> \o ids]
      /\ UNCHANGED <<members, left, refs, recvs, st, up, via, request, closes, acquired, missed,
                     failed>>
  BY DEF EventCollect
<1>2. ids \in Seq(Producer \union Consumer)
  <2>1. Dependents(hand.from) \subseteq Producer \union Consumer
    BY DEF Dependents
  <2>2. SetToSeq(Dependents(hand.from)) \in Seq(Dependents(hand.from))
    BY <2>1, SequenceOf
  <2>3. SetToSeq(Dependents(hand.from)) \in Seq(Producer \union Consumer)
    BY <2>1, <2>2
  <2> QED BY <2>3
<1> HIDE DEF ids
<1>3. hand.from \in Res /\ st[hand.from] = "closed"
  BY <1>1 DEF IInv, TypeOK, Used
<1>4. /\ <<hand.from>> \o ids \in Seq(Res)
      /\ \A i \in DOMAIN (<<hand.from>> \o ids) :
           \/ (<<hand.from>> \o ids)[i] = hand.from
           \/ (<<hand.from>> \o ids)[i] \in Producer \union Consumer
  BY <1>2, <1>3, Apart
<1>5. TypeOK'
  BY <1>1, <1>4 DEF IInv, TypeOK
<1>6. Used'
  <2>1. hand'.from = None /\ hand'.ids = <<hand.from>> \o ids
    BY <1>1
  <2>2. \A i \in DOMAIN hand'.ids : hand'.ids[i] \in Transport => st[hand'.ids[i]] = "closed"
    BY <1>3, <1>4, <2>1, Apart
  <2> QED BY <1>1, <2>1, <2>2 DEF IInv, Used, Taken
<1>7. Parents' /\ OwnTransports' /\ Placed' /\ Replacing' /\ OnlyFirst' /\ WhyClosed'
  <2>1. Parents' /\ OwnTransports'
    BY <1>1 DEF IInv, Parents, OwnTransports, Taken
  <2>2. Placed' /\ Replacing'
    BY <1>1 DEF IInv, Placed, Replacing, Replaced
  <2>3. OnlyFirst' /\ WhyClosed'
    BY <1>1 DEF IInv, OnlyFirst, WhyClosed
  <2> QED BY <2>1, <2>2, <2>3
<1>8. Works' /\ Joined'
  <2>1. Works'
    BY <1>1 DEF IInv, Works, WorksOn, Taken, Now
  <2>2. Joined'
    BY <1>1 DEF IInv, Joined
  <2> QED BY <2>1, <2>2
<1>9. Gone'
  BY <1>1 DEF IInv, Gone, Held, Now
<1>10. Reach'
  BY <1>1 DEF IInv, Reach, Wanted, Served, Now
<1> QED BY <1>5, <1>6, <1>7, <1>8, <1>9, <1>10 DEF IInv

LEMMA EventDropKeeps == ASSUME IInv, EventDrop PROVE IInv'
<1>1. /\ hand.ids # <<>> /\ hand' = [hand EXCEPT !.ids = Tail(@)]
      /\ refs' = [m \in Member |-> refs[m] \ {Head(hand.ids)}]
      /\ UNCHANGED <<members, left, recvs, st, up, via, request, closes, acquired, missed, failed>>
  BY DEF EventDrop
<1>2. PICK d : d = Head(hand.ids)
  OBVIOUS
<1>3. /\ hand.ids \in Seq(Res) /\ Tail(hand.ids) \in Seq(Res)
      /\ 1 \in DOMAIN hand.ids /\ d = hand.ids[1]
      /\ \A i \in DOMAIN Tail(hand.ids) :
           i + 1 \in DOMAIN hand.ids /\ Tail(hand.ids)[i] = hand.ids[i + 1]
  BY <1>1, <1>2 DEF IInv, TypeOK
<1>4. d \in Transport => st[d] = "closed"
  BY <1>3 DEF IInv, Used
<1>5. /\ refs' \in [Member -> SUBSET Res]
      /\ \A m \in Member : refs'[m] = refs[m] \ {d}
  BY <1>1, <1>2 DEF IInv, TypeOK
<1>6. hand'.from = hand.from /\ hand'.ids = Tail(hand.ids)
      /\ hand' \in [from : Res \union {None}, ids : Seq(Res)]
  BY <1>1, <1>3 DEF IInv, TypeOK
<1>7. TypeOK'
  BY <1>1, <1>5, <1>6 DEF IInv, TypeOK
<1>8. Used'
  <2>1. \A i \in DOMAIN hand'.ids : hand'.ids[i] \in Transport => st[hand'.ids[i]] = "closed"
    BY <1>3, <1>6 DEF IInv, Used
  <2> QED BY <1>1, <1>5, <1>6, <2>1 DEF IInv, Used, Taken
<1>9. Parents' /\ WhyClosed'
  BY <1>1 DEF IInv, Parents, WhyClosed, Taken
<1>10. OwnTransports' /\ OnlyFirst'
  BY <1>1, <1>5 DEF IInv, OwnTransports, OnlyFirst
<1>11. Works'
  BY <1>1 DEF IInv, Works, WorksOn, Taken, Now
<1>12. Joined'
  BY <1>1, <1>5 DEF IInv, Joined
<1>13. Gone'
  <2>1. \A y \in Member : Held(y) => Held(y)'
    BY <1>1, StillHeld DEF Now
  <2> QED BY <1>1, <1>5, <2>1, GoneStays DEF IInv
<1>14. Placed'
  BY <1>1, <1>4, <1>5 DEF IInv, Placed
<1>15. Replacing'
  BY <1>1, <1>5 DEF IInv, Replacing, Replaced
<1>16. Reach'
  <2>1. \A k, y \in Member, q \in Producer, v \in Recv : Wanted(k, y, q, v)' => Wanted(k, y, q, v)
    BY <1>1, <1>5, LessWanted
  <2>2. \A k \in Member, q \in Producer, v \in Recv : Served(k, q, v) => Served(k, q, v)'
    BY <1>1, StillServed
  <2> QED BY <1>1, <2>1, <2>2, ReachStays DEF IInv
<1> QED BY <1>7, <1>8, <1>9, <1>10, <1>11, <1>12, <1>13, <1>14, <1>15, <1>16 DEF IInv
-----------------------------------------------------------------------------
(* The steps of the room.                                                  *)

LEMMA StepKeeps == ASSUME IInv, NEW m \in Member, Step(m) PROVE IInv'
<1>1. ASSUME NEW t \in Transport, MakeTransport(m, t) PROVE IInv'
  BY <1>1, MakeTransportKeeps
<1>2. ASSUME NEW c \in Consumer, OfferBuild(m, c) PROVE IInv'
  BY <1>2, OfferBuildKeeps
<1> QED BY <1>1, <1>2, MakeFailsKeeps, InitEndKeeps, ProduceFailsKeeps, ProduceDoneKeeps,
           OfferBeginKeeps, OfferFailsKeeps, OfferDoneKeeps, OfferEndKeeps DEF Step

LEMMA NextIInv == IInv /\ [Next]_vars => IInv'
<1> SUFFICES ASSUME IInv, [Next]_vars PROVE IInv'
  OBVIOUS
<1>1. ASSUME NEW m \in Member, Join(m) \/ Leave(m) \/ Step(m) \/ Acquire(m) PROVE IInv'
  BY <1>1, JoinKeeps, LeaveKeeps, StepKeeps, AcquireKeeps
<1>2. ASSUME NEW m \in Member, NEW want \in Ask[m], InitBegin(m, want) PROVE IInv'
  BY <1>2, InitBeginKeeps
<1>3. ASSUME NEW m \in Member, NEW t \in Send, NEW p \in Producer, ProduceBegin(m, t, p) PROVE IInv'
  BY <1>3, ProduceBeginKeeps
<1>4. ASSUME NEW m \in Member, NEW p \in Producer, CloseProducer(m, p) PROVE IInv'
  BY <1>4, CloseProducerKeeps
<1>5. ASSUME Event PROVE IInv'
  BY <1>5, EventCloseKeeps, EventCollectKeeps, EventDropKeeps DEF Event
<1>6. CASE UNCHANGED vars
  <2>1. /\ UNCHANGED <<members, left, refs, recvs, st, up, via, request, closes, hand, acquired>>
        /\ UNCHANGED <<missed, failed>>
    BY <1>6 DEF vars
  <2>2. TypeOK'
    BY <2>1 DEF IInv, TypeOK
  <2>3. Used' /\ Parents' /\ OwnTransports'
    BY <2>1 DEF IInv, Used, Parents, OwnTransports, Taken
  <2>4. Joined' /\ Placed' /\ Replacing'
    BY <2>1 DEF IInv, Joined, Placed, Replacing, Replaced
  <2>5. OnlyFirst' /\ WhyClosed'
    BY <2>1 DEF IInv, OnlyFirst, WhyClosed
  <2>6. Works'
    BY <2>1 DEF IInv, Works, WorksOn, Taken, Now
  <2>7. Gone'
    BY <2>1 DEF IInv, Gone, Held, Now
  <2>8. Reach'
    BY <2>1 DEF IInv, Reach, Wanted, Served, Now
  <2> QED BY <2>2, <2>3, <2>4, <2>5, <2>6, <2>7, <2>8 DEF IInv
<1> QED BY <1>1, <1>2, <1>3, <1>4, <1>5, <1>6 DEF Next
-----------------------------------------------------------------------------
(* What holds in every state.                                              *)

\* Members, references, transports, requests and events have the types of the code's
\* structures, whatever is interleaved with what.
THEOREM TypeCorrect == Spec => []TypeOK
<1>1. IInv => TypeOK
  BY DEF IInv
<1>2. IInv /\ [Next]_vars => IInv'
  BY NextIInv
<1> QED BY <1>1, <1>2, InitIInv, PTL DEF Spec

\* Whoever asked for the streams on its receiving transport has, or is about to get,
\* a consumer there for every open stream of the others, unless its creation failed:
\* the list of who produces and that of who asks miss nobody between them.
THEOREM StreamsAlwaysReach == Spec => []StreamsReach
<1>1. IInv => StreamsReach
  BY IInvReaches
<1>2. IInv /\ [Next]_vars => IInv'
  BY NextIInv
<1> QED BY <1>1, <1>2, InitIInv, PTL DEF Spec

\* The open transports of a member that has left are about to be closed, or one of the
\* requests that still hold the member will see to it.
THEOREM LeaversAlwaysClosed == Spec => []LeaversClosed
<1>1. IInv => LeaversClosed
  BY IInvCloses
<1>2. IInv /\ [Next]_vars => IInv'
  BY NextIInv
<1> QED BY <1>1, <1>2, InitIInv, PTL DEF Spec
-----------------------------------------------------------------------------
(***************************************************************************)
(* Room history.                                                           *)
(***************************************************************************)

\* What waits for the event thread.
EventRec ==
  [k : {"created", "closed", "router"}, s : Nat \ {0}]
    \union [k : {"joined", "left"}, s : Nat \ {0}, m : [id : Nat, user : User]]
SessRec == [uuid : Uuid, owner : User, webinar : BOOLEAN,
            members : SUBSET [id : Nat, user : User],
            state : {"open", "pending", "closed", "gone"}]
Starting == {queue[i].s : i \in {i \in DOMAIN queue : queue[i].k = "created"}}

HistoryTypes ==
  /\ sess \in Seq(SessRec) /\ Len(sess) <= MaxSess
  /\ \A s \in H!Sess : IsFiniteSet(sess[s].members)
  /\ found \in [Uuid -> Nat] /\ enters \in Nat
  /\ queue \in Seq(EventRec) /\ \A i \in DOMAIN queue : queue[i].s \in H!Sess
  /\ DOMAIN doc = Uuid /\ \A r \in Uuid : doc[r] = [of |-> doc[r].of, log |-> doc[r].log]
  /\ \A r \in Uuid : doc[r].of \in Nat
  /\ archive = [s \in 1..MaxSess |-> archive[s]]

\* A session that is gone has nobody, and its uuid leads to another one.
Present ==
  /\ \A s \in H!Sess : sess[s].members # {} => H!Registered(s)
  /\ \A r \in Uuid : found[r] # 0 =>
       found[r] \in H!Sess /\ H!Registered(found[r]) /\ sess[found[r]].uuid = r

\* Whoever is there when a session of its uuid is created is beside it.
Neighbours ==
  \A s, t \in H!Sess : s < t /\ sess[s].uuid = sess[t].uuid /\ H!Registered(s) => <<s, t>> \in beside

\* Sessions are created in the order of their numbers, before anything happens to them.
InOrder ==
  /\ \A i, j \in DOMAIN queue : i < j /\ queue[j].k = "created" => queue[i].s < queue[j].s
  /\ \A s, t \in H!Sess : s < t /\ s \in Starting => t \in Starting

\* What happens to a session happens before the next of its uuid is created, unless
\* that one was created beside it.
InTurn ==
  \A i \in DOMAIN queue : \A t \in H!Sess :
    queue[i].s < t /\ sess[queue[i].s].uuid = sess[t].uuid =>
      \/ <<queue[i].s, t>> \in beside
      \/ \E j \in DOMAIN queue : i < j /\ queue[j].k = "created" /\ queue[j].s = t

\* A uuid has the document of its newest session that got one.
Newest ==
  /\ \A r \in Uuid :
       /\ doc[r].of # 0 => doc[r].of \in H!Sess \ Starting /\ sess[doc[r].of].uuid = r
       /\ doc[r].of = 0 => H!Events(doc[r].log) = {}
  /\ \A s \in 1..MaxSess : archive[s] # {} =>
       s \in H!Sess \ Starting /\ s <= doc[sess[s].uuid].of

\* Logs tell of sessions whose creation has been handled.
Logs ==
  /\ \A r \in Uuid : \A e \in H!Events(doc[r].log) : e.s \in H!Sess \ Starting
  /\ \A s \in 1..MaxSess : \A e \in H!Events(archive[s]) : e.s \in H!Sess \ Starting

\* A document is replaced only when its log is kept.
Copied ==
  /\ event # H!Idle => queue # <<>>
  /\ event.k = "created" =>
       /\ queue # <<>> /\ Head(queue).k = "created" /\ Head(queue).s = event.s
       /\ LET d == doc[sess[event.s].uuid] IN d.of # 0 => H!Events(d.log) \subseteq archive[d.of]

HistoryInv ==
  /\ HistoryTypes /\ Present /\ Neighbours /\ InOrder /\ InTurn /\ Newest /\ Logs /\ Copied
  /\ H!OwnLog
-----------------------------------------------------------------------------
(* The queue.                                                              *)

LEMMA Dropped ==
  ASSUME NEW q \in Seq(EventRec), q # <<>>
  PROVE  /\ Tail(q) \in Seq(EventRec) /\ DOMAIN q = 1..Len(q) /\ Len(q) \in Nat
         /\ DOMAIN Tail(q) = 1..Len(Tail(q)) /\ Len(Tail(q)) = Len(q) - 1
         /\ 1 \in DOMAIN q /\ Head(q) = q[1]
         /\ \A i \in DOMAIN Tail(q) : i + 1 \in DOMAIN q /\ Tail(q)[i] = q[i + 1]
OBVIOUS

LEMMA Appended ==
  ASSUME NEW q \in Seq(EventRec), NEW p \in Seq(EventRec)
  PROVE  /\ q \o p \in Seq(EventRec) /\ DOMAIN q = 1..Len(q) /\ DOMAIN p = 1..Len(p)
         /\ Len(q) \in Nat /\ Len(p) \in Nat
         /\ DOMAIN (q \o p) = 1..Len(q) + Len(p)
         /\ \A i \in DOMAIN (q \o p) :
              \/ i \in DOMAIN q /\ (q \o p)[i] = q[i]
              \/ i \notin DOMAIN q /\ i - Len(q) \in DOMAIN p /\ (q \o p)[i] = p[i - Len(q)]
<1>1. /\ q \o p \in Seq(EventRec) /\ Len(q \o p) = Len(q) + Len(p)
      /\ \A i \in 1..Len(q) + Len(p) : (q \o p)[i] = IF i <= Len(q) THEN q[i] ELSE p[i - Len(q)]
  OBVIOUS
<1>2. DOMAIN (q \o p) = 1..Len(q) + Len(p) /\ DOMAIN q = 1..Len(q) /\ DOMAIN p = 1..Len(p)
      /\ Len(q) \in Nat /\ Len(p) \in Nat
  BY <1>1
<1> QED BY <1>1, <1>2

\* Of n events handled, and some appended that are of a session that is there.
Moved(n, x) ==
  /\ DOMAIN queue' = 1..Len(queue') /\ Len(queue') \in Nat
  /\ \A j \in DOMAIN queue' :
       \/ j + n \in DOMAIN queue /\ queue'[j] = queue[j + n]
       \/ /\ j + n \notin DOMAIN queue /\ queue'[j].k # "created"
          /\ queue'[j].s = x /\ x \in H!Sess /\ H!Registered(x)
  /\ \A i \in DOMAIN queue : n < i => i - n \in DOMAIN queue'

SameSessions ==
  /\ Len(sess') = Len(sess) /\ beside' = beside
  /\ \A s \in H!Sess : sess'[s].uuid = sess[s].uuid
                       /\ (sess'[s].state # "gone" => sess[s].state # "gone")

LEMMA MovedKeepsOrder ==
  ASSUME HistoryInv, SameSessions, NEW n \in {0, 1}, NEW x, Moved(n, x)
  PROVE  /\ InOrder' /\ InTurn' /\ Starting' \subseteq Starting
         /\ \A i \in DOMAIN queue' : queue'[i].s \in H!Sess
         /\ n = 0 => Starting' = Starting
         /\ n = 1 /\ queue # <<>> /\ Head(queue).k = "created" => Head(queue).s \notin Starting'
<1> USE DEF HistoryInv
<1>0. DOMAIN queue = 1..Len(queue) /\ Len(queue) \in Nat /\ (queue # <<>> => Head(queue) = queue[1] /\ 1 \in DOMAIN queue)
  BY Dropped DEF HistoryTypes
<1>1. H!Sess' = H!Sess /\ H!Sess \subseteq Nat /\ \A s \in H!Sess : sess'[s].uuid = sess[s].uuid
  BY DEF SameSessions, H!Sess
<1>2. \A i \in DOMAIN queue : queue[i].s \in H!Sess
  BY DEF HistoryTypes
<1>3. \A s : s \in Starting <=> \E i \in DOMAIN queue : queue[i].k = "created" /\ queue[i].s = s
  BY DEF Starting
<1>4. \A s : s \in Starting' <=> \E i \in DOMAIN queue' : queue'[i].k = "created" /\ queue'[i].s = s
  BY DEF Starting
<1>5. \A j \in DOMAIN queue' : queue'[j].k = "created" => j + n \in DOMAIN queue /\ queue'[j] = queue[j + n]
  BY DEF Moved
<1>6. Starting' \subseteq Starting
  BY <1>3, <1>4, <1>5
<1>7. \A i \in DOMAIN queue' : queue'[i].s \in H!Sess
  BY <1>2 DEF Moved
<1>8. \A s \in Starting : s \in Starting' \/ (n = 1 /\ queue[1].k = "created" /\ queue[1].s = s)
  <2>1. ASSUME NEW i \in DOMAIN queue, queue[i].k = "created", n < i
        PROVE  queue[i].s \in Starting'
    <3>1. i - n \in DOMAIN queue' /\ i - n + n = i
      BY <1>0, <2>1 DEF Moved
    <3>2. queue'[i - n] = queue[i]
      BY <3>1 DEF Moved
    <3> QED BY <1>4, <2>1, <3>1, <3>2
  <2>2. \A i \in DOMAIN queue : n < i \/ (n = 1 /\ i = 1)
    BY <1>0
  <2> QED BY <1>3, <2>1, <2>2
<1>9. \A i, j \in DOMAIN queue' : i < j /\ queue'[j].k = "created" => queue'[i].s < queue'[j].s
  <2>1. ASSUME NEW i \in DOMAIN queue', NEW j \in DOMAIN queue', i < j, queue'[j].k = "created"
        PROVE  queue'[i].s < queue'[j].s
    <3>1. j + n \in DOMAIN queue /\ queue'[j] = queue[j + n]
      BY <1>5, <2>1
    <3>2. i + n \in DOMAIN queue /\ i + n < j + n
      BY <1>0, <2>1, <3>1 DEF Moved
    <3>3. queue'[i] = queue[i + n]
      BY <3>2 DEF Moved
    <3> QED BY <2>1, <3>1, <3>2, <3>3 DEF InOrder
  <2> QED BY <2>1
<1>10. \A s, t \in H!Sess : s < t /\ s \in Starting' => t \in Starting'
  <2>1. ASSUME NEW s \in H!Sess, NEW t \in H!Sess, s < t, s \in Starting', t \notin Starting'
        PROVE  FALSE
    <3>1. t \in Starting
      BY <1>6, <2>1 DEF InOrder
    <3>2. n = 1 /\ queue[1].k = "created" /\ queue[1].s = t
      BY <1>8, <2>1, <3>1
    <3>3. PICK j \in DOMAIN queue' : queue'[j].k = "created" /\ queue'[j].s = s
      BY <1>4, <2>1
    <3>4. j + 1 \in DOMAIN queue /\ queue[j + 1].k = "created" /\ queue[j + 1].s = s
      BY <1>5, <3>2, <3>3
    <3>5. 1 \in DOMAIN queue /\ 1 < j + 1
      BY <1>0, <3>3, <3>4 DEF Moved
    <3>6. queue[1].s < queue[j + 1].s
      BY <3>4, <3>5 DEF InOrder
    <3> QED BY <1>1, <2>1, <3>2, <3>4, <3>6
  <2> QED BY <2>1
<1>11. InOrder'
  BY <1>1, <1>9, <1>10 DEF InOrder
<1>12. InTurn'
  <2>1. ASSUME NEW i \in DOMAIN queue', NEW t \in H!Sess, queue'[i].s < t,
               sess[queue'[i].s].uuid = sess[t].uuid
        PROVE  \/ <<queue'[i].s, t>> \in beside
               \/ \E j \in DOMAIN queue' : i < j /\ queue'[j].k = "created" /\ queue'[j].s = t
    <3>1. CASE i + n \in DOMAIN queue /\ queue'[i] = queue[i + n]
      <4>1. \/ <<queue[i + n].s, t>> \in beside
            \/ \E j \in DOMAIN queue : i + n < j /\ queue[j].k = "created" /\ queue[j].s = t
        BY <2>1, <3>1 DEF InTurn
      <4>2. ASSUME NEW j \in DOMAIN queue, i + n < j, queue[j].k = "created", queue[j].s = t
            PROVE  \E l \in DOMAIN queue' : i < l /\ queue'[l].k = "created" /\ queue'[l].s = t
        <5>1. n < j /\ i < j - n /\ j - n + n = j
          BY <1>0, <4>2 DEF Moved
        <5>2. j - n \in DOMAIN queue'
          BY <5>1 DEF Moved
        <5>3. queue'[j - n] = queue[j]
          BY <5>1, <5>2 DEF Moved
        <5> QED BY <4>2, <5>1, <5>2, <5>3
      <4> QED BY <3>1, <4>1, <4>2
    <3>2. CASE x \in H!Sess /\ H!Registered(x) /\ queue'[i].s = x
      BY <2>1, <3>2 DEF Neighbours
    <3> QED BY <3>1, <3>2 DEF Moved
  <2>2. \A i \in DOMAIN queue' : sess'[queue'[i].s].uuid = sess[queue'[i].s].uuid
    BY <1>1, <1>7
  <2>3. \A i \in DOMAIN queue' : \A t \in H!Sess :
          queue'[i].s < t /\ sess'[queue'[i].s].uuid = sess'[t].uuid =>
            \/ <<queue'[i].s, t>> \in beside'
            \/ \E j \in DOMAIN queue' : i < j /\ queue'[j].k = "created" /\ queue'[j].s = t
    BY <1>1, <2>1, <2>2 DEF SameSessions
  <2> QED BY <1>1, <2>3 DEF InTurn
<1>13. ASSUME n = 0 PROVE Starting' = Starting
  <2>1. Starting \subseteq Starting'
    BY <1>8, <1>13
  <2> QED BY <1>6, <2>1
<1>14. ASSUME n = 1, queue # <<>>, Head(queue).k = "created", Head(queue).s \in Starting'
       PROVE  FALSE
  <2>1. PICK j \in DOMAIN queue' : queue'[j].k = "created" /\ queue'[j].s = Head(queue).s
    BY <1>4, <1>14
  <2>2. j + 1 \in DOMAIN queue /\ queue[j + 1].k = "created" /\ queue[j + 1].s = queue[1].s
    BY <1>0, <1>5, <1>14, <2>1
  <2>3. 1 \in DOMAIN queue /\ 1 < j + 1
    BY <1>0, <1>14, <2>1, <2>2 DEF Moved
  <2>4. queue[1].s < queue[j + 1].s
    BY <2>2, <2>3 DEF InOrder
  <2>5. queue[1].s \in Nat
    BY <1>1, <1>2, <2>3
  <2> QED BY <2>2, <2>4, <2>5
<1> QED BY <1>6, <1>7, <1>11, <1>12, <1>13, <1>14
-----------------------------------------------------------------------------
(* The logs.                                                               *)

LEMMA LoggedIs ==
  ASSUME DOMAIN doc = Uuid, \A r \in Uuid : doc[r] = [of |-> doc[r].of, log |-> doc[r].log],
         NEW e, doc' = H!Logged(e)
  PROVE  /\ DOMAIN doc' = Uuid /\ \A r \in Uuid : doc'[r] = [of |-> doc'[r].of, log |-> doc'[r].log]
         /\ \A r \in Uuid :
              /\ doc'[r].of = doc[r].of
              /\ \/ doc'[r].log = doc[r].log
                 \/ /\ doc'[r].log = doc[r].log \union {e}
                    /\ r = sess[e.s].uuid /\ doc[r].of # 0
<1>1. PICK x : x = sess[e.s].uuid
  OBVIOUS
<1>2. doc' = doc \/ (doc[x].of # 0 /\ doc' = [doc EXCEPT ![x].log = @ \union {e}])
  BY <1>1 DEF H!Logged
<1>3. CASE doc' = doc \/ x \notin Uuid
  <2>1. DOMAIN doc' = DOMAIN doc /\ \A r \in Uuid : doc'[r] = doc[r]
    BY <1>2, <1>3
  <2> QED BY <2>1
<1>4. CASE x \in Uuid /\ doc[x].of # 0 /\ doc' = [doc EXCEPT ![x].log = @ \union {e}]
  <2>1. DOMAIN doc' = Uuid /\ \A r \in Uuid : r # x => doc'[r] = doc[r]
    BY <1>4
  <2>2. doc'[x] = [doc[x] EXCEPT !.log = doc[x].log \union {e}]
    BY <1>4
  <2>3. doc[x] = [of |-> doc[x].of, log |-> doc[x].log]
    BY <1>4
  <2>4. doc'[x] = [of |-> doc[x].of, log |-> doc[x].log \union {e}]
    BY <2>2, <2>3
  <2>5. doc'[x].of = doc[x].of /\ doc'[x].log = doc[x].log \union {e}
    BY <2>4
  <2> QED BY <1>1, <1>4, <2>1, <2>4, <2>5
<1> QED BY <1>2, <1>3, <1>4

\* Nothing is logged but what happened to a session whose creation has been handled,
\* in the document of its uuid, in turn.
LogsGrow(e) ==
  /\ archive' = archive
  /\ \A r \in Uuid :
       /\ doc'[r].of = doc[r].of
       /\ \A x \in H!Events(doc'[r].log) :
            \/ x \in H!Events(doc[r].log)
            \/ /\ x = e /\ doc[r].of # 0 /\ e.s \in H!Sess \ Starting /\ sess[e.s].uuid = r
               /\ e.s < doc[r].of => <<e.s, doc[r].of>> \in beside

LEMMA SessionIs ==
  ASSUME HistoryTypes, H!HistoryAssumption, NEW s \in H!Sess
  PROVE  sess[s] \in SessRec /\ sess[s].uuid \in Uuid /\ s \in 1..MaxSess /\ s \in Nat
<1>1. sess[s] \in SessRec
  BY DEF HistoryTypes, H!Sess
<1>2. s \in 1..Len(sess) /\ Len(sess) \in Nat /\ Len(sess) <= MaxSess
  BY DEF HistoryTypes, H!Sess
<1>3. MaxSess \in Nat
  BY DEF H!HistoryAssumption
<1>4. s \in 1..MaxSess /\ s \in Nat
  BY <1>2, <1>3
<1> QED BY <1>1, <1>4 DEF SessRec

LEMMA SessionsKept ==
  ASSUME HistoryInv, SameSessions PROVE Neighbours' /\ H!Sess' = H!Sess
BY DEF HistoryInv, SameSessions, Neighbours, H!Sess, H!Registered

LEMMA LogsKept ==
  ASSUME H!HistoryAssumption, HistoryInv, SameSessions, Starting' \subseteq Starting, NEW e, LogsGrow(e)
  PROVE  Newest' /\ Logs' /\ (H!OwnLog)'
<1> USE DEF HistoryInv
<1>1. H!Sess' = H!Sess /\ H!Sess \subseteq Nat
      /\ (\A s \in H!Sess : sess'[s].uuid = sess[s].uuid) /\ beside' = beside
  BY DEF SameSessions, H!Sess
<1>2. /\ \A r \in Uuid : doc[r].of # 0 => doc[r].of \in H!Sess \ Starting /\ sess[doc[r].of].uuid = r
      /\ \A r \in Uuid : doc[r].of = 0 => H!Events(doc[r].log) = {}
      /\ \A s \in 1..MaxSess : archive[s] # {} =>
           s \in H!Sess \ Starting /\ s <= doc[sess[s].uuid].of
      /\ \A r \in Uuid : doc[r].of \in Nat
  BY DEF Newest, HistoryTypes
<1>3. Newest'
  <2>1. ASSUME NEW r \in Uuid
        PROVE  /\ doc'[r].of # 0 => doc'[r].of \in H!Sess \ Starting' /\ sess'[doc'[r].of].uuid = r
               /\ doc'[r].of = 0 => H!Events(doc'[r].log) = {}
    <3>1. doc'[r].of = doc[r].of /\ (doc[r].of = 0 => \A x \in H!Events(doc'[r].log) : FALSE)
      BY <1>2 DEF LogsGrow
    <3>2. doc[r].of # 0 => doc[r].of \in H!Sess \ Starting /\ sess'[doc[r].of].uuid = r
      BY <1>1, <1>2
    <3> QED BY <3>1, <3>2
  <2>2. ASSUME NEW s \in 1..MaxSess, archive'[s] # {}
        PROVE  s \in H!Sess \ Starting' /\ s <= doc'[sess'[s].uuid].of
    <3>1. s \in H!Sess \ Starting /\ s <= doc[sess[s].uuid].of /\ sess'[s].uuid = sess[s].uuid
      BY <1>1, <1>2, <2>2 DEF LogsGrow
    <3>2. sess[s].uuid \in Uuid
      BY <3>1, SessionIs
    <3> QED BY <3>1, <3>2 DEF LogsGrow
  <2> QED BY <1>1, <2>1, <2>2 DEF Newest
<1>4. Logs'
  <2>1. \A r \in Uuid : \A x \in H!Events(doc'[r].log) : x.s \in H!Sess \ Starting
    BY DEF Logs, LogsGrow
  <2>2. \A s \in 1..MaxSess : \A x \in H!Events(archive'[s]) : x.s \in H!Sess \ Starting
    BY DEF Logs, LogsGrow
  <2> QED BY <1>1, <2>1, <2>2 DEF Logs
<1>5. \A s : H!HasDocument(s)' => H!HasDocument(s)
  BY DEF H!HasDocument, LogsGrow
<1>6. ASSUME NEW r \in Uuid, doc[r].of # 0, NEW x \in H!Sess, sess[x].uuid = r, doc[r].of < x
      PROVE  ~H!HasDocument(x)
  <2>1. archive[x] = {}
    <3>1. x \in 1..MaxSess
      BY <1>6, SessionIs
    <3> QED BY <1>1, <1>2, <1>6, <3>1
  <2>2. \A q \in Uuid : doc[q].of # x
    BY <1>1, <1>2, <1>6
  <2> QED BY <2>1, <2>2 DEF H!HasDocument
<1>7. ASSUME NEW r \in Uuid, NEW x \in H!Events(doc'[r].log)
      PROVE  x.s = doc[r].of \/ <<x.s, doc[r].of>> \in beside \/ ~H!HasDocument(x.s)
  <2>1. CASE x \in H!Events(doc[r].log)
    BY <2>1 DEF H!OwnLog, H!Own
  <2>2. CASE x = e /\ doc[r].of # 0 /\ e.s \in H!Sess /\ sess[e.s].uuid = r
             /\ (e.s < doc[r].of => <<e.s, doc[r].of>> \in beside)
    <3>1. e.s \in Nat /\ doc[r].of \in Nat
      BY <1>1, <1>2, <2>2
    <3> QED BY <1>6, <2>2, <3>1
  <2> QED BY <2>1, <2>2 DEF LogsGrow
<1>8. \A r \in Uuid : H!Own(doc[r].of, doc[r].log)'
  BY <1>1, <1>5, <1>7 DEF H!Own, LogsGrow
<1>9. \A s \in DOMAIN archive : H!Own(s, archive[s])'
  BY <1>1, <1>5 DEF H!OwnLog, H!Own, LogsGrow
<1> QED BY <1>3, <1>4, <1>8, <1>9 DEF H!OwnLog, LogsGrow
-----------------------------------------------------------------------------
(* Steps.                                                                  *)

\* Moves of rooms and members: they post, and touch nothing that is stored.
LEMMA MoveKeeps ==
  ASSUME H!HistoryAssumption, HistoryInv, SameSessions, NEW x, Moved(0, x),
         queue' \in Seq(EventRec),
         sess' \in Seq(SessRec), \A s \in H!Sess : IsFiniteSet(sess'[s].members),
         found' \in [Uuid -> Nat], enters' \in Nat,
         event' = event, doc' = doc, archive' = archive, Present'
  PROVE  HistoryInv'
<1>1. /\ InOrder' /\ InTurn' /\ Starting' = Starting
      /\ \A i \in DOMAIN queue' : queue'[i].s \in H!Sess
  BY MovedKeepsOrder
<1>2. Neighbours' /\ H!Sess' = H!Sess
  BY SessionsKept
<1>3. LogsGrow(None)
  BY DEF LogsGrow, H!Events
<1>4. Newest' /\ Logs' /\ (H!OwnLog)'
  BY <1>1, <1>3, LogsKept
<1>5. HistoryTypes'
  BY <1>1, <1>2 DEF HistoryInv, HistoryTypes, SameSessions
<1>6. Copied'
  <2>1. ASSUME queue # <<>>
        PROVE  /\ queue' # <<>> /\ Head(queue') = Head(queue)
               /\ Head(queue).s \in H!Sess
    <3>1. queue \in Seq(EventRec)
      BY DEF HistoryInv, HistoryTypes
    <3>2. DOMAIN queue = 1..Len(queue) /\ 1 \in DOMAIN queue /\ Head(queue) = queue[1]
      BY <2>1, <3>1, Dropped
    <3>3. Head(queue).s \in H!Sess
      BY <3>2 DEF HistoryInv, HistoryTypes
    <3>4. 1 \in DOMAIN queue' /\ 1 - 0 = 1 /\ 1 + 0 = 1
      BY <3>2 DEF Moved
    <3>5. queue'[1] = queue[1]
      BY <3>2, <3>4 DEF Moved
    <3> QED BY <3>2, <3>3, <3>4, <3>5
  <2>2. event.k = "created" => sess'[event.s].uuid = sess[event.s].uuid
    BY <2>1 DEF HistoryInv, Copied, SameSessions
  <2> QED BY <2>1, <2>2 DEF HistoryInv, Copied
<1> QED BY <1>1, <1>2, <1>4, <1>5, <1>6 DEF HistoryInv
LEMMA PostedIs ==
  ASSUME HistoryTypes, NEW p \in Seq(EventRec), NEW x \in H!Sess, H!Registered(x),
         \A i \in DOMAIN p : p[i].k # "created" /\ p[i].s = x,
         queue' = queue \o p
  PROVE  Moved(0, x) /\ queue' \in Seq(EventRec)
<1>1. queue \in Seq(EventRec)
  BY DEF HistoryTypes
<1>2. /\ queue \o p \in Seq(EventRec) /\ DOMAIN queue = 1..Len(queue) /\ DOMAIN p = 1..Len(p)
      /\ Len(queue) \in Nat /\ Len(p) \in Nat
      /\ DOMAIN (queue \o p) = 1..Len(queue) + Len(p)
      /\ \A i \in DOMAIN (queue \o p) :
           \/ i \in DOMAIN queue /\ (queue \o p)[i] = queue[i]
           \/ i \notin DOMAIN queue /\ i - Len(queue) \in DOMAIN p
              /\ (queue \o p)[i] = p[i - Len(queue)]
  BY <1>1, Appended
<1>3. DOMAIN queue' = 1..Len(queue') /\ Len(queue') \in Nat /\ queue' \in Seq(EventRec)
  BY <1>2
<1>4. ASSUME NEW j \in DOMAIN queue'
      PROVE  \/ j + 0 \in DOMAIN queue /\ queue'[j] = queue[j + 0]
             \/ /\ j + 0 \notin DOMAIN queue /\ queue'[j].k # "created"
                /\ queue'[j].s = x /\ x \in H!Sess /\ H!Registered(x)
  <2>1. j + 0 = j
    BY <1>3
  <2> QED BY <1>2, <2>1
<1>5. \A i \in DOMAIN queue : i - 0 \in DOMAIN queue'
  BY <1>2
<1> QED BY <1>3, <1>4, <1>5 DEF Moved

LEMMA SessionBecomes ==
  ASSUME HistoryTypes, NEW s \in H!Sess, NEW r \in SessRec, r.uuid = sess[s].uuid,
         r.state # "gone" => sess[s].state # "gone", IsFiniteSet(r.members),
         sess' = [sess EXCEPT ![s] = r], beside' = beside
  PROVE  /\ SameSessions /\ sess' \in Seq(SessRec) /\ H!Sess' = H!Sess
         /\ \A t \in H!Sess : IsFiniteSet(sess'[t].members)
         /\ sess'[s] = r /\ \A t \in H!Sess : t # s => sess'[t] = sess[t]
<1>1. sess \in Seq(SessRec) /\ DOMAIN sess = 1..Len(sess) /\ H!Sess = 1..Len(sess)
  BY DEF HistoryTypes, H!Sess
<1>2. /\ sess' \in Seq(SessRec) /\ Len(sess') = Len(sess)
      /\ sess'[s] = r /\ \A t \in H!Sess : t # s => sess'[t] = sess[t]
  BY <1>1
<1>3. SameSessions
  BY <1>2 DEF SameSessions
<1> QED BY <1>2, <1>3 DEF HistoryTypes, H!Sess

LEMMA Members ==
  ASSUME HistoryTypes, NEW s \in H!Sess
  PROVE  /\ sess[s] \in SessRec /\ sess[s].members \subseteq [id : Nat, user : User]
         /\ IsFiniteSet(sess[s].members)
<1>1. sess[s] \in SessRec
  BY DEF HistoryTypes, H!Sess
<1> QED BY <1>1 DEF HistoryTypes, SessRec

LEMMA EnterStep ==
  ASSUME H!HistoryAssumption, HistoryInv, NEW u \in User, NEW r \in Uuid, H!Enter(u, r)
  PROVE  HistoryInv'
<1>1. PICK s : s = found[r]
  OBVIOUS
<1>2. s \in H!Sess /\ H!Registered(s)
  BY <1>1 DEF H!Enter, HistoryInv, Present
<1>3. PICK old : old = {m \in sess[s].members : m.user = u}
  OBVIOUS
<1>4. PICK j : j = [id |-> enters + 1, user |-> u]
  OBVIOUS
<1>5. PICK n : n = Cardinality(old)
  OBVIOUS
<1>6. PICK M : M = (sess[s].members \ old) \union {j}
  OBVIOUS
<1>7. PICK c : c = CHOOSE m \in old : TRUE
  OBVIOUS
<1>8. PICK a : a = [i \in 1..n |-> H!Left(s, c)]
  OBVIOUS
<1>9. PICK b : b = <<H!Joined(s, j)>>
  OBVIOUS
<1>10. H!Cardinality(old) = n
  BY <1>5 DEF H!Cardinality, Cardinality, H!IsFiniteSet, IsFiniteSet
<1>11. H!Joiner(u) = j
  BY <1>4 DEF H!Joiner
<1>12. /\ sess' = [sess EXCEPT ![s].members = M] /\ enters' = enters + 1
       /\ queue' = (queue \o a) \o b
       /\ UNCHANGED <<found, beside, event, doc, archive>>
  <2>1. sess' = [sess EXCEPT ![s].members = (@ \ old) \union {j}]
    BY <1>1, <1>3, <1>11 DEF H!Enter
  <2>2. queue' = queue \o [i \in 1..H!Cardinality(old) |-> H!Left(s, CHOOSE m \in old : TRUE)]
                       \o <<H!Joined(s, j)>>
    BY <1>1, <1>3, <1>11 DEF H!Enter
  <2>3. queue' = (queue \o a) \o b
    BY <1>7, <1>8, <1>9, <1>10, <2>2
  <2>4. sess' = [sess EXCEPT ![s].members = M]
    BY <1>6, <2>1
  <2> QED BY <2>3, <2>4 DEF H!Enter, H!UnchangedStored
<1>13. /\ sess[s] \in SessRec /\ sess[s].members \subseteq [id : Nat, user : User]
       /\ IsFiniteSet(sess[s].members)
  BY <1>2, Members DEF HistoryInv
<1>14. enters \in Nat /\ enters' \in Nat /\ j \in [id : Nat, user : User]
  BY <1>4, <1>12 DEF HistoryInv, HistoryTypes
<1>15. IsFiniteSet(old) /\ IsFiniteSet(M) /\ M \subseteq [id : Nat, user : User]
  <2>1. old \subseteq sess[s].members /\ sess[s].members \ old \subseteq sess[s].members
    BY <1>3
  <2>2. IsFiniteSet(old) /\ IsFiniteSet(sess[s].members \ old)
    BY <1>13, <2>1, FS_Subset
  <2>3. IsFiniteSet(M)
    BY <1>6, <2>2, FS_AddElement
  <2> QED BY <1>6, <1>13, <1>14, <2>2, <2>3
<1>16. n \in Nat /\ (n # 0 => c \in [id : Nat, user : User])
  <2>1. n \in Nat /\ (n # 0 => old # {})
    BY <1>5, <1>15, FS_CardinalityType, FS_EmptySet
  <2>2. old # {} => c \in old
    BY <1>7
  <2> QED BY <1>3, <1>13, <2>1, <2>2
<1>17. PICK r1 : r1 = [sess[s] EXCEPT !.members = M]
  OBVIOUS
<1>18. /\ r1 \in SessRec /\ r1.uuid = sess[s].uuid /\ r1.state = sess[s].state /\ r1.members = M
  BY <1>13, <1>15, <1>17 DEF SessRec
<1>19. sess' = [sess EXCEPT ![s] = r1]
  BY <1>12, <1>17
<1>20. /\ SameSessions /\ sess' \in Seq(SessRec) /\ H!Sess' = H!Sess
       /\ \A t \in H!Sess : IsFiniteSet(sess'[t].members)
       /\ sess'[s] = r1 /\ \A t \in H!Sess : t # s => sess'[t] = sess[t]
  BY <1>2, <1>12, <1>15, <1>18, <1>19, SessionBecomes DEF HistoryInv
<1>21. PICK p : p = a \o b
  OBVIOUS
<1>22. /\ p \in Seq(EventRec) /\ \A i \in DOMAIN p : p[i].k # "created" /\ p[i].s = s
       /\ queue' = queue \o p
  <2>1. s \in Nat \ {0}
    BY <1>2 DEF H!Sess
  <2>2. a \in Seq(EventRec) /\ \A i \in DOMAIN a : a[i].k = "left" /\ a[i].s = s
    <3>1. ASSUME NEW i \in 1..n PROVE H!Left(s, c) \in EventRec
      <4>1. n # 0
        BY <1>16
      <4> QED BY <1>16, <2>1, <4>1 DEF H!Left, EventRec
    <3>2. H!Left(s, c).k = "left" /\ H!Left(s, c).s = s
      BY DEF H!Left
    <3> QED BY <1>8, <1>16, <3>1, <3>2
  <2>3. b \in Seq(EventRec) /\ \A i \in DOMAIN b : b[i].k = "joined" /\ b[i].s = s
    <3>1. H!Joined(s, j) \in EventRec /\ H!Joined(s, j).k = "joined" /\ H!Joined(s, j).s = s
      BY <1>14, <2>1 DEF H!Joined, EventRec
    <3> QED BY <1>9, <3>1
  <2>4. p \in Seq(EventRec) /\ \A i \in DOMAIN p : p[i].k # "created" /\ p[i].s = s
    BY <1>21, <2>2, <2>3, Appended
  <2>5. queue \in Seq(EventRec)
    BY DEF HistoryInv, HistoryTypes
  <2> QED BY <1>12, <1>21, <2>2, <2>3, <2>4, <2>5
<1>23. Moved(0, s) /\ queue' \in Seq(EventRec)
  BY <1>2, <1>22, PostedIs DEF HistoryInv
<1>24. Present'
  BY <1>2, <1>12, <1>18, <1>20 DEF HistoryInv, Present, H!Registered
<1>25. found' \in [Uuid -> Nat]
  BY <1>12 DEF HistoryInv, HistoryTypes
<1> QED BY <1>12, <1>14, <1>20, <1>23, <1>24, <1>25, MoveKeeps

LEMMA OnePosted ==
  ASSUME HistoryTypes, NEW x \in H!Sess, H!Registered(x), NEW v \in EventRec,
         v.k # "created", v.s = x, queue' = Append(queue, v)
  PROVE  Moved(0, x) /\ queue' \in Seq(EventRec)
<1>1. PICK p : p = <<v>>
  OBVIOUS
<1>2. p \in Seq(EventRec) /\ \A i \in DOMAIN p : p[i].k # "created" /\ p[i].s = x
  BY <1>1
<1>3. queue \in Seq(EventRec)
  BY DEF HistoryTypes
<1>4. queue' = queue \o p
  BY <1>1, <1>3
<1> QED BY <1>2, <1>4, PostedIs

LEMMA LeaveStep ==
  ASSUME H!HistoryAssumption, HistoryInv, NEW s \in H!Sess, NEW m \in sess[s].members, H!Leave(s, m)
  PROVE  HistoryInv'
<1>1. PICK v : v = H!Left(s, m)
  OBVIOUS
<1>2. PICK M : M = sess[s].members \ {m}
  OBVIOUS
<1>3. /\ sess' = [sess EXCEPT ![s].members = M] /\ queue' = Append(queue, v)
      /\ UNCHANGED <<found, enters, beside, event, doc, archive>>
  BY <1>1, <1>2 DEF H!Leave, H!UnchangedStored
<1>4. /\ sess[s] \in SessRec /\ sess[s].members \subseteq [id : Nat, user : User]
      /\ IsFiniteSet(sess[s].members)
  BY Members DEF HistoryInv
<1>5. H!Registered(s)
  BY DEF HistoryInv, Present
<1>6. M \subseteq sess[s].members /\ IsFiniteSet(M)
  BY <1>2, <1>4, FS_Subset
<1>7. PICK r : r = [sess[s] EXCEPT !.members = M]
  OBVIOUS
<1>8. r \in SessRec /\ r.uuid = sess[s].uuid /\ r.state = sess[s].state /\ r.members = M
  BY <1>4, <1>6, <1>7 DEF SessRec
<1>9. sess' = [sess EXCEPT ![s] = r]
  BY <1>3, <1>7
<1>10. /\ SameSessions /\ sess' \in Seq(SessRec) /\ H!Sess' = H!Sess
       /\ \A t \in H!Sess : IsFiniteSet(sess'[t].members)
       /\ sess'[s] = r /\ \A t \in H!Sess : t # s => sess'[t] = sess[t]
  BY <1>3, <1>6, <1>8, <1>9, SessionBecomes DEF HistoryInv
<1>11. v \in EventRec /\ v.k # "created" /\ v.s = s
  <2>1. s \in Nat \ {0}
    BY DEF H!Sess
  <2> QED BY <1>1, <1>4, <2>1 DEF H!Left, EventRec
<1>12. Moved(0, s) /\ queue' \in Seq(EventRec)
  BY <1>3, <1>5, <1>11, OnePosted DEF HistoryInv
<1>13. Present'
  BY <1>3, <1>5, <1>8, <1>10 DEF HistoryInv, Present, H!Registered
<1>14. found' \in [Uuid -> Nat] /\ enters' \in Nat
  BY <1>3 DEF HistoryInv, HistoryTypes
<1> QED BY <1>3, <1>10, <1>12, <1>13, <1>14, MoveKeeps

LEMMA AskCloseStep ==
  ASSUME H!HistoryAssumption, HistoryInv, NEW s \in H!Sess, H!AskClose(s)
  PROVE  HistoryInv'
<1>1. PICK v : v = H!RouterClosed(s)
  OBVIOUS
<1>2. PICK r : r = [sess[s] EXCEPT !.state = "pending"]
  OBVIOUS
<1>3. /\ sess' = [sess EXCEPT ![s] = r] /\ queue' = Append(queue, v) /\ sess[s].state = "open"
      /\ UNCHANGED <<found, enters, beside, event, doc, archive>>
  BY <1>1, <1>2 DEF H!AskClose, H!UnchangedStored
<1>4. sess[s] \in SessRec /\ IsFiniteSet(sess[s].members)
  BY Members DEF HistoryInv
<1>5. H!Registered(s)
  BY <1>3 DEF H!Registered
<1>6. /\ r \in SessRec /\ r.uuid = sess[s].uuid /\ r.state = "pending"
      /\ r.members = sess[s].members
  BY <1>2, <1>4 DEF SessRec
<1>7. /\ SameSessions /\ sess' \in Seq(SessRec) /\ H!Sess' = H!Sess
      /\ \A t \in H!Sess : IsFiniteSet(sess'[t].members)
      /\ sess'[s] = r /\ \A t \in H!Sess : t # s => sess'[t] = sess[t]
  BY <1>3, <1>4, <1>6, SessionBecomes DEF HistoryInv
<1>8. v \in EventRec /\ v.k # "created" /\ v.s = s
  <2>1. s \in Nat \ {0}
    BY DEF H!Sess
  <2> QED BY <1>1, <2>1 DEF H!RouterClosed, EventRec
<1>9. Moved(0, s) /\ queue' \in Seq(EventRec)
  BY <1>3, <1>5, <1>8, OnePosted DEF HistoryInv
<1>10. Present'
  BY <1>3, <1>5, <1>6, <1>7 DEF HistoryInv, Present, H!Registered
<1>11. found' \in [Uuid -> Nat] /\ enters' \in Nat
  BY <1>3 DEF HistoryInv, HistoryTypes
<1> QED BY <1>3, <1>7, <1>9, <1>10, <1>11, MoveKeeps

LEMMA NonePosted ==
  ASSUME HistoryTypes, queue' = queue, NEW x PROVE Moved(0, x) /\ queue' \in Seq(EventRec)
<1>1. queue \in Seq(EventRec)
  BY DEF HistoryTypes
<1>2. DOMAIN queue = 1..Len(queue) /\ Len(queue) \in Nat
  BY <1>1
<1>3. \A i \in DOMAIN queue : i + 0 = i /\ i - 0 = i
  BY <1>2
<1> QED BY <1>1, <1>2, <1>3 DEF Moved

LEMMA DisposeStep ==
  ASSUME H!HistoryAssumption, HistoryInv, NEW s \in H!Sess, H!Dispose(s)
  PROVE  HistoryInv'
<1>1. PICK r : r = [sess[s] EXCEPT !.state = "gone"]
  OBVIOUS
<1>2. /\ sess' = [sess EXCEPT ![s] = r] /\ sess[s].members = {}
      /\ found' = [found EXCEPT ![sess[s].uuid] = 0]
      /\ UNCHANGED <<queue, enters, beside, event, doc, archive>>
  BY <1>1 DEF H!Dispose, H!UnchangedStored
<1>3. sess[s] \in SessRec /\ IsFiniteSet(sess[s].members)
  BY Members DEF HistoryInv
<1>4. /\ r \in SessRec /\ r.uuid = sess[s].uuid /\ r.state = "gone"
      /\ r.members = sess[s].members
  BY <1>1, <1>3 DEF SessRec
<1>5. /\ SameSessions /\ sess' \in Seq(SessRec) /\ H!Sess' = H!Sess
      /\ \A t \in H!Sess : IsFiniteSet(sess'[t].members)
      /\ sess'[s] = r /\ \A t \in H!Sess : t # s => sess'[t] = sess[t]
  BY <1>2, <1>3, <1>4, SessionBecomes DEF HistoryInv
<1>6. Moved(0, s) /\ queue' \in Seq(EventRec)
  BY <1>2, NonePosted DEF HistoryInv
<1>7. found' \in [Uuid -> Nat] /\ enters' \in Nat
  BY <1>2 DEF HistoryInv, HistoryTypes
<1>8. Present'
  <2>1. \A t \in H!Sess : sess'[t].members # {} => sess'[t].state # "gone"
    BY <1>2, <1>4, <1>5 DEF HistoryInv, Present, H!Registered
  <2>2. ASSUME NEW q \in Uuid, found'[q] # 0
        PROVE  found'[q] \in H!Sess /\ sess'[found'[q]].state # "gone" /\ sess'[found'[q]].uuid = q
    <3>1. found'[q] = found[q] /\ q # sess[s].uuid
      BY <1>2, <2>2 DEF HistoryInv, HistoryTypes
    <3>2. found[q] \in H!Sess /\ sess[found[q]].state # "gone" /\ sess[found[q]].uuid = q
      BY <2>2, <3>1 DEF HistoryInv, Present, H!Registered
    <3>3. sess'[found[q]] = sess[found[q]]
      BY <1>5, <3>1, <3>2
    <3> QED BY <3>1, <3>2, <3>3
  <2> QED BY <1>5, <2>1, <2>2 DEF Present, H!Registered
<1> QED BY <1>2, <1>5, <1>6, <1>7, <1>8, MoveKeeps

LEMMA Keeps ==
  ASSUME H!HistoryAssumption, HistoryInv, SameSessions, NEW e, LogsGrow(e),
         InOrder', InTurn', Starting' \subseteq Starting,
         queue' \in Seq(EventRec), \A i \in DOMAIN queue' : queue'[i].s \in H!Sess,
         sess' \in Seq(SessRec), \A s \in H!Sess : IsFiniteSet(sess'[s].members),
         found' \in [Uuid -> Nat], enters' \in Nat,
         DOMAIN doc' = Uuid /\ \A r \in Uuid : doc'[r] = [of |-> doc'[r].of, log |-> doc'[r].log],
         Present', Copied'
  PROVE  HistoryInv'
<1>1. Neighbours' /\ H!Sess' = H!Sess
  BY SessionsKept
<1>2. Newest' /\ Logs' /\ (H!OwnLog)'
  BY LogsKept
<1>3. HistoryTypes'
  <2>1. /\ \A r \in Uuid : doc[r].of \in Nat /\ doc'[r].of = doc[r].of
        /\ archive' = archive /\ archive = [s \in 1..MaxSess |-> archive[s]]
        /\ Len(sess') = Len(sess) /\ Len(sess) <= MaxSess
    BY DEF HistoryInv, HistoryTypes, LogsGrow, SameSessions
  <2> QED BY <1>1, <2>1 DEF HistoryTypes
<1> QED BY <1>1, <1>2, <1>3 DEF HistoryInv

LEMMA RestartStep == ASSUME H!HistoryAssumption, HistoryInv, H!Restart PROVE HistoryInv'
<1>1. /\ sess' = [s \in H!Sess |-> [sess[s] EXCEPT !.state = "gone", !.members = {}]]
      /\ found' = [r \in Uuid |-> 0] /\ queue' = <<>> /\ event' = H!Idle
      /\ UNCHANGED <<doc, archive, enters, beside>>
  BY DEF H!Restart
<1>2. \A s \in H!Sess : sess[s] \in SessRec
  BY Members DEF HistoryInv
<1>3. \A s \in H!Sess : /\ sess'[s] \in SessRec /\ sess'[s].uuid = sess[s].uuid
                        /\ sess'[s].state = "gone" /\ sess'[s].members = {}
  <2>1. ASSUME NEW r \in SessRec, NEW g, g = [r EXCEPT !.state = "gone", !.members = {}]
        PROVE  g \in SessRec /\ g.uuid = r.uuid /\ g.state = "gone" /\ g.members = {}
    BY <2>1 DEF SessRec
  <2>2. ASSUME NEW s \in H!Sess
        PROVE  /\ sess'[s] \in SessRec /\ sess'[s].uuid = sess[s].uuid
               /\ sess'[s].state = "gone" /\ sess'[s].members = {}
    <3>1. sess'[s] = [sess[s] EXCEPT !.state = "gone", !.members = {}]
      BY <1>1
    <3>2. sess[s] \in SessRec
      BY <1>2
    <3> QED BY <2>1, <3>1, <3>2
  <2> QED BY <2>2
<1>4. sess' \in Seq(SessRec) /\ Len(sess') = Len(sess) /\ DOMAIN sess' = H!Sess
  <2>1. Len(sess) \in Nat /\ H!Sess = 1..Len(sess)
    BY DEF HistoryInv, HistoryTypes, H!Sess
  <2>2. sess' \in [1..Len(sess) -> SessRec]
    BY <1>1, <1>3, <2>1
  <2> QED BY <2>1, <2>2
<1>5. SameSessions
  BY <1>1, <1>3, <1>4 DEF SameSessions
<1>6. queue' \in Seq(EventRec) /\ DOMAIN queue' = {}
  <2>1. <<>> \in Seq(EventRec) /\ DOMAIN <<>> = {}
    OBVIOUS
  <2> QED BY <1>1, <2>1
<1>7. Starting' = {}
  BY <1>6 DEF Starting
<1>8. InOrder' /\ InTurn'
  BY <1>6, <1>7 DEF InOrder, InTurn
<1>9. H!Sess' = H!Sess
  BY <1>5, SessionsKept
<1>10. Present'
  BY <1>1, <1>3, <1>9 DEF Present
<1>11. Copied'
  BY <1>1 DEF Copied, H!Idle
<1>12. LogsGrow(None)
  BY <1>1 DEF LogsGrow
<1>13. \A s \in H!Sess : IsFiniteSet(sess'[s].members)
  BY <1>3, FS_EmptySet
<1>14. /\ found' \in [Uuid -> Nat] /\ enters' \in Nat
       /\ DOMAIN doc' = Uuid /\ \A r \in Uuid : doc'[r] = [of |-> doc'[r].of, log |-> doc'[r].log]
  BY <1>1 DEF HistoryInv, HistoryTypes
<1> QED BY <1>4, <1>5, <1>6, <1>7, <1>8, <1>10, <1>11, <1>12, <1>13, <1>14, Keeps

\* What the event thread has at the head of the queue.
LEMMA HeadIs ==
  ASSUME HistoryInv, queue # <<>>
  PROVE  /\ queue \in Seq(EventRec) /\ 1 \in DOMAIN queue /\ Head(queue) = queue[1]
         /\ Head(queue).s \in H!Sess /\ DOMAIN queue = 1..Len(queue) /\ Len(queue) \in Nat
         /\ Head(queue).k # "created" => Head(queue).s \notin Starting
<1>1. /\ queue \in Seq(EventRec) /\ 1 \in DOMAIN queue /\ Head(queue) = queue[1]
      /\ Head(queue).s \in H!Sess /\ DOMAIN queue = 1..Len(queue) /\ Len(queue) \in Nat
  BY Dropped DEF HistoryInv, HistoryTypes
<1>2. ASSUME Head(queue).k # "created", NEW i \in DOMAIN queue, queue[i].k = "created",
             queue[i].s = Head(queue).s
      PROVE  FALSE
  <2>1. 1 < i
    BY <1>1, <1>2
  <2>2. queue[1].s < queue[i].s
    BY <1>1, <1>2, <2>1 DEF HistoryInv, InOrder
  <2>3. queue[1].s \in Nat
    BY <1>1 DEF H!Sess
  <2> QED BY <1>1, <1>2, <2>2, <2>3
<1> QED BY <1>1, <1>2 DEF Starting

\* An event that is handled: it may be logged, and leaves the queue or stays at its head.
LEMMA HandledIs ==
  ASSUME H!HistoryAssumption, HistoryInv, queue # <<>>, queue' = Tail(queue)
  PROVE  \A x : Moved(1, x) /\ queue' \in Seq(EventRec)
<1>1. queue \in Seq(EventRec)
  BY HeadIs
<1>2. /\ queue' \in Seq(EventRec) /\ DOMAIN queue = 1..Len(queue) /\ Len(queue) \in Nat
      /\ DOMAIN queue' = 1..Len(queue') /\ Len(queue') = Len(queue) - 1
      /\ 1 \in DOMAIN queue
      /\ \A i \in DOMAIN queue' : i + 1 \in DOMAIN queue /\ queue'[i] = queue[i + 1]
  BY <1>1, Dropped
<1>3. \A i \in DOMAIN queue : 1 < i => i - 1 \in DOMAIN queue'
  BY <1>2
<1>4. Len(queue') \in Nat
  BY <1>2
<1> QED BY <1>2, <1>3, <1>4 DEF Moved

\* The event at the head may be logged for its session.
LEMMA HeadLogged ==
  ASSUME H!HistoryAssumption, HistoryInv, queue # <<>>, Head(queue).k # "created",
         NEW k, NEW u, doc' = doc \/ doc' = H!Logged(H!Entry(k, Head(queue).s, u)), archive' = archive
  PROVE  /\ LogsGrow(H!Entry(k, Head(queue).s, u))
         /\ DOMAIN doc' = Uuid /\ \A r \in Uuid : doc'[r] = [of |-> doc'[r].of, log |-> doc'[r].log]
<1>1. PICK e : e = H!Entry(k, Head(queue).s, u)
  OBVIOUS
<1>2. e.s = Head(queue).s
  BY <1>1 DEF H!Entry
<1>3. /\ e.s \in H!Sess \ Starting /\ 1 \in DOMAIN queue /\ queue[1].s = e.s
      /\ DOMAIN queue = 1..Len(queue)
  BY <1>2, HeadIs
<1>4. DOMAIN doc = Uuid /\ \A r \in Uuid : doc[r] = [of |-> doc[r].of, log |-> doc[r].log]
  BY DEF HistoryInv, HistoryTypes
<1>5. /\ DOMAIN doc' = Uuid /\ \A r \in Uuid : doc'[r] = [of |-> doc'[r].of, log |-> doc'[r].log]
      /\ \A r \in Uuid :
           /\ doc'[r].of = doc[r].of
           /\ \/ doc'[r].log = doc[r].log
              \/ doc'[r].log = doc[r].log \union {e} /\ r = sess[e.s].uuid /\ doc[r].of # 0
  <2>1. CASE doc' = doc
    BY <1>4, <2>1
  <2>2. CASE doc' = H!Logged(e)
    BY <1>4, <2>2, LoggedIs
  <2> QED BY <1>1, <2>1, <2>2
<1>6. ASSUME NEW r \in Uuid, doc[r].of # 0, r = sess[e.s].uuid, e.s < doc[r].of
      PROVE  <<e.s, doc[r].of>> \in beside
  <2>1. doc[r].of \in H!Sess \ Starting /\ sess[doc[r].of].uuid = r
    BY <1>6 DEF HistoryInv, Newest
  <2>2. PICK o : o = doc[r].of
    OBVIOUS
  <2>3. 1 \in DOMAIN queue /\ o \in H!Sess /\ queue[1].s < o /\ sess[queue[1].s].uuid = sess[o].uuid
    BY <1>3, <1>6, <2>1, <2>2
  <2>4. InTurn
    BY DEF HistoryInv
  <2>5. \/ <<queue[1].s, o>> \in beside
        \/ \E i \in DOMAIN queue : 1 < i /\ queue[i].k = "created" /\ queue[i].s = o
    BY <2>3, <2>4 DEF InTurn
  <2> QED BY <1>3, <2>1, <2>2, <2>5 DEF Starting
<1>7. LogsGrow(e)
  BY <1>3, <1>5, <1>6 DEF LogsGrow, H!Events
<1> QED BY <1>1, <1>5, <1>7

\* A step of the event thread that drops its event, or has logged it.
LEMMA DropStep ==
  ASSUME H!HistoryAssumption, HistoryInv, queue # <<>>, NEW e, LogsGrow(e),
         DOMAIN doc' = Uuid /\ \A r \in Uuid : doc'[r] = [of |-> doc'[r].of, log |-> doc'[r].log],
         event' = H!Idle, queue' = Tail(queue), UNCHANGED <<sess, found, enters, beside>>
  PROVE  HistoryInv'
<1>1. Moved(1, None) /\ queue' \in Seq(EventRec)
  BY HandledIs
<1>2. SameSessions /\ H!Sess' = H!Sess
  BY DEF SameSessions, H!Sess
<1>3. /\ InOrder' /\ InTurn' /\ Starting' \subseteq Starting
      /\ \A i \in DOMAIN queue' : queue'[i].s \in H!Sess
  BY <1>1, <1>2, MovedKeepsOrder
<1>4. Present' /\ Copied'
  BY <1>2 DEF HistoryInv, Present, Copied, H!Registered, H!Idle
<1>5. /\ sess' \in Seq(SessRec) /\ found' \in [Uuid -> Nat] /\ enters' \in Nat
      /\ \A s \in H!Sess : IsFiniteSet(sess'[s].members)
  BY DEF HistoryInv, HistoryTypes
<1> QED BY <1>1, <1>2, <1>3, <1>4, <1>5, Keeps

\* A step of the event thread that leaves its event where it is.
LEMMA StayStep ==
  ASSUME H!HistoryAssumption, HistoryInv, NEW e, LogsGrow(e),
         DOMAIN doc' = Uuid /\ \A r \in Uuid : doc'[r] = [of |-> doc'[r].of, log |-> doc'[r].log],
         Copied', UNCHANGED <<sess, found, queue, enters, beside>>
  PROVE  HistoryInv'
<1>1. SameSessions /\ H!Sess' = H!Sess /\ Starting' = Starting
  BY DEF SameSessions, H!Sess, Starting
<1>2. InOrder' /\ InTurn' /\ Present'
  BY <1>1 DEF HistoryInv, InOrder, InTurn, Present, H!Registered
<1>3. /\ sess' \in Seq(SessRec) /\ found' \in [Uuid -> Nat] /\ enters' \in Nat
      /\ queue' \in Seq(EventRec) /\ \A i \in DOMAIN queue' : queue'[i].s \in H!Sess
      /\ \A s \in H!Sess : IsFiniteSet(sess'[s].members)
  BY DEF HistoryInv, HistoryTypes
<1> QED BY <1>1, <1>2, <1>3, Keeps

LEMMA UnloggedIs ==
  ASSUME HistoryInv, doc' = doc, archive' = archive
  PROVE  /\ LogsGrow(None)
         /\ DOMAIN doc' = Uuid /\ \A r \in Uuid : doc'[r] = [of |-> doc'[r].of, log |-> doc'[r].log]
BY DEF LogsGrow, HistoryInv, HistoryTypes

LEMMA OnClosedStep == ASSUME H!HistoryAssumption, HistoryInv, H!OnClosed PROVE HistoryInv'
<1>1. /\ queue # <<>> /\ Head(queue).k = "closed" /\ queue' = Tail(queue)
      /\ doc' = H!Logged(H!Entry("closed", Head(queue).s, 0))
      /\ event' = H!Idle /\ UNCHANGED <<archive, sess, found, enters, beside>>
  BY DEF H!OnClosed, H!Next1, H!Done, H!UnchangedRooms
<1>2. /\ LogsGrow(H!Entry("closed", Head(queue).s, 0))
      /\ DOMAIN doc' = Uuid /\ \A r \in Uuid : doc'[r] = [of |-> doc'[r].of, log |-> doc'[r].log]
  BY <1>1, HeadLogged
<1> QED BY <1>1, <1>2, DropStep

LEMMA OnLeftStep == ASSUME H!HistoryAssumption, HistoryInv, H!OnLeft PROVE HistoryInv'
<1>1. PICK u : u = Head(queue).m.user
  OBVIOUS
<1>2. /\ queue # <<>> /\ Head(queue).k = "left" /\ queue' = Tail(queue)
      /\ doc' = doc \/ doc' = H!Logged(H!Entry("left", Head(queue).s, u))
      /\ event' = H!Idle /\ UNCHANGED <<archive, sess, found, enters, beside>>
  BY <1>1 DEF H!OnLeft, H!Next1, H!Done, H!UnchangedRooms
<1>3. /\ LogsGrow(H!Entry("left", Head(queue).s, u))
      /\ DOMAIN doc' = Uuid /\ \A r \in Uuid : doc'[r] = [of |-> doc'[r].of, log |-> doc'[r].log]
  BY <1>2, HeadLogged
<1> QED BY <1>2, <1>3, DropStep

LEMMA OnJoinedStep == ASSUME H!HistoryAssumption, HistoryInv, H!OnJoined PROVE HistoryInv'
<1>1. PICK u : u = Head(queue).m.user
  OBVIOUS
<1>2. /\ queue # <<>> /\ Head(queue).k = "joined"
      /\ doc' = doc \/ doc' = H!Logged(H!Entry("joined", Head(queue).s, u))
      /\ event' = [k |-> "joined", s |-> Head(queue).s, m |-> Head(queue).m]
      /\ UNCHANGED <<archive, sess, found, queue, enters, beside>>
  BY <1>1 DEF H!OnJoined, H!Next1, H!UnchangedRooms
<1>3. /\ LogsGrow(H!Entry("joined", Head(queue).s, u))
      /\ DOMAIN doc' = Uuid /\ \A r \in Uuid : doc'[r] = [of |-> doc'[r].of, log |-> doc'[r].log]
  BY <1>2, HeadLogged
<1>4. Copied'
  BY <1>2 DEF Copied
<1> QED BY <1>2, <1>3, <1>4, StayStep

LEMMA RoomsSteps ==
  ASSUME H!HistoryAssumption, HistoryInv, H!ReadRooms \/ H!WriteRooms PROVE HistoryInv'
<1>1. /\ event.k \in {"joined", "rooms"}
      /\ \/ event' = H!Idle /\ queue' = Tail(queue)
         \/ event'.k = "rooms" /\ queue' = queue
      /\ UNCHANGED <<doc, archive, sess, found, enters, beside>>
  BY DEF H!ReadRooms, H!WriteRooms, H!Done, H!UnchangedRooms
<1>2. queue # <<>>
  BY <1>1 DEF HistoryInv, Copied, H!Idle
<1>3. /\ LogsGrow(None)
      /\ DOMAIN doc' = Uuid /\ \A r \in Uuid : doc'[r] = [of |-> doc'[r].of, log |-> doc'[r].log]
  BY <1>1, UnloggedIs
<1>4. CASE event' = H!Idle /\ queue' = Tail(queue)
  BY <1>1, <1>2, <1>3, <1>4, DropStep
<1>5. CASE event'.k = "rooms" /\ queue' = queue
  <2>1. Copied'
    BY <1>2, <1>5 DEF Copied
  <2> QED BY <1>1, <1>3, <1>5, <2>1, StayStep
<1> QED BY <1>1, <1>4, <1>5

\* Requests log no event.
RequestLogs ==
  \/ doc' = doc
  \/ \E e : e.k \notin H!OfEvents /\ doc' = H!Logged(e)

LEMMA RequestIs ==
  ASSUME HistoryInv, RequestLogs, archive' = archive
  PROVE  /\ DOMAIN doc' = Uuid /\ \A r \in Uuid : doc'[r] = [of |-> doc'[r].of, log |-> doc'[r].log]
         /\ \A r \in Uuid : doc'[r].of = doc[r].of /\ H!Events(doc'[r].log) = H!Events(doc[r].log)
<1>1. DOMAIN doc = Uuid /\ \A r \in Uuid : doc[r] = [of |-> doc[r].of, log |-> doc[r].log]
  BY DEF HistoryInv, HistoryTypes
<1>2. ASSUME NEW e, e.k \notin H!OfEvents, doc' = H!Logged(e)
      PROVE  /\ DOMAIN doc' = Uuid /\ \A r \in Uuid : doc'[r] = [of |-> doc'[r].of, log |-> doc'[r].log]
             /\ \A r \in Uuid :
                  doc'[r].of = doc[r].of /\ H!Events(doc'[r].log) = H!Events(doc[r].log)
  <2>1. /\ DOMAIN doc' = Uuid /\ \A r \in Uuid : doc'[r] = [of |-> doc'[r].of, log |-> doc'[r].log]
        /\ \A r \in Uuid :
             doc'[r].of = doc[r].of
             /\ (doc'[r].log = doc[r].log \/ doc'[r].log = doc[r].log \union {e})
    BY <1>1, <1>2, LoggedIs
  <2>2. \A r \in Uuid : H!Events(doc'[r].log) = H!Events(doc[r].log)
    BY <1>2, <2>1 DEF H!Events
  <2> QED BY <2>1, <2>2
<1> QED BY <1>1, <1>2 DEF RequestLogs

LEMMA RequestKeeps ==
  ASSUME H!HistoryAssumption, HistoryInv, RequestLogs,
         UNCHANGED <<archive, sess, found, queue, event, enters, beside>>
  PROVE  HistoryInv'
<1>1. /\ DOMAIN doc' = Uuid /\ \A r \in Uuid : doc'[r] = [of |-> doc'[r].of, log |-> doc'[r].log]
      /\ \A r \in Uuid : doc'[r].of = doc[r].of /\ H!Events(doc'[r].log) = H!Events(doc[r].log)
  BY RequestIs
<1>2. LogsGrow(None)
  BY <1>1 DEF LogsGrow
<1>3. Copied'
  <2>1. ASSUME event.k = "created" PROVE sess[event.s].uuid \in Uuid
    BY <2>1, HeadIs, SessionIs DEF HistoryInv, Copied
  <2> QED BY <1>1, <2>1 DEF HistoryInv, Copied
<1> QED BY <1>1, <1>2, <1>3, StayStep

LEMMA RequestSteps ==
  ASSUME H!HistoryAssumption, HistoryInv,
         \/ \E u \in User, s \in H!Sess : H!Message(u, s) \/ H!Rename(u, s) \/ H!RemoveRoom(u, s)
         \/ \E u \in User : H!WriteRenamed(u) \/ H!NextRenamed(u) \/ H!WriteNamed(u) \/ H!WriteRemoved(u)
  PROVE  RequestLogs /\ UNCHANGED <<archive, sess, found, queue, event, enters, beside>>
<1> USE DEF H!UnchangedByRequest
<1>1. ASSUME NEW u \in User, NEW s \in H!Sess, H!Message(u, s)
      PROVE  RequestLogs /\ UNCHANGED <<archive, sess, found, queue, event, enters, beside>>
  BY <1>1 DEF H!Message, RequestLogs, H!Entry, H!OfEvents
<1>2. ASSUME NEW u \in User, NEW s \in H!Sess, H!Rename(u, s) \/ H!RemoveRoom(u, s)
      PROVE  RequestLogs /\ UNCHANGED <<archive, sess, found, queue, event, enters, beside>>
  BY <1>2 DEF H!Rename, H!RemoveRoom, RequestLogs
<1>3. ASSUME NEW u \in User, H!WriteRenamed(u)
      PROVE  RequestLogs /\ UNCHANGED <<archive, sess, found, queue, event, enters, beside>>
  BY <1>3 DEF H!WriteRenamed, RequestLogs, H!Entry, H!OfEvents
<1>4. ASSUME NEW u \in User, H!NextRenamed(u) \/ H!WriteNamed(u) \/ H!WriteRemoved(u)
      PROVE  RequestLogs /\ UNCHANGED <<archive, sess, found, queue, event, enters, beside>>
  BY <1>4 DEF H!NextRenamed, H!WriteNamed, H!WriteRemoved, RequestLogs
<1> QED BY <1>1, <1>2, <1>3, <1>4
-----------------------------------------------------------------------------
(* The start.                                                              *)

LEMMA HistoryStarts == ASSUME H!HistoryAssumption, H!Init PROVE HistoryInv
<1>1. PICK log : log = {H!Entry("created", 1, 0), H!Entry("closed", 1, 0)}
  OBVIOUS
<1>2. \A e \in H!Events(log) : e.s = 1
  BY <1>1 DEF H!Events, H!Entry
<1>3. /\ sess \in Seq(SessRec) /\ Len(sess) \in {0, 1} /\ H!Sess \subseteq {1}
      /\ \A s \in H!Sess : sess[s].state = "gone" /\ sess[s].members = {} /\ sess[s].uuid \in Uuid
  <2>1. CASE sess = <<>>
    BY <2>1 DEF H!Sess
  <2>2. ASSUME NEW r \in Uuid, NEW u \in User,
               sess = <<[uuid |-> r, owner |-> u, webinar |-> FALSE, members |-> {},
                         state |-> "gone"]>>
        PROVE  /\ sess \in Seq(SessRec) /\ Len(sess) \in {0, 1} /\ H!Sess \subseteq {1}
               /\ \A s \in H!Sess : sess[s].state = "gone" /\ sess[s].members = {}
                                    /\ sess[s].uuid \in Uuid
    <3>1. PICK g : g = [uuid |-> r, owner |-> u, webinar |-> FALSE, members |-> {},
                        state |-> "gone"]
      OBVIOUS
    <3>2. g \in SessRec /\ g.state = "gone" /\ g.members = {} /\ g.uuid \in Uuid
      BY <3>1 DEF SessRec
    <3>3. sess = <<g>> /\ Len(sess) = 1 /\ sess[1] = g /\ sess \in Seq(SessRec)
      BY <2>2, <3>1, <3>2
    <3>4. H!Sess \subseteq {1}
      BY <3>3 DEF H!Sess
    <3> QED BY <3>2, <3>3, <3>4
  <2> QED BY <2>1, <2>2 DEF H!Init
<1>4. /\ queue = <<>> /\ event = H!Idle /\ found = [r \in Uuid |-> 0] /\ enters = 0
      /\ doc = [r \in Uuid |-> IF \E s \in H!Sess : sess[s].uuid = r
                               THEN [of |-> 1, log |-> log] ELSE H!NoDoc]
      /\ \E copied \in SUBSET H!Sess :
           archive = [s \in 1..MaxSess |-> IF s \in copied THEN log ELSE {}]
  BY <1>1 DEF H!Init
<1>5. /\ DOMAIN doc = Uuid
      /\ \A r \in Uuid : \/ /\ doc[r] = [of |-> 1, log |-> log] /\ doc[r].of = 1 /\ doc[r].log = log
                            /\ 1 \in H!Sess /\ sess[1].uuid = r
                         \/ doc[r] = [of |-> 0, log |-> {}] /\ doc[r].of = 0 /\ doc[r].log = {}
  BY <1>3, <1>4 DEF H!NoDoc
<1>6. /\ archive = [s \in 1..MaxSess |-> archive[s]] /\ DOMAIN archive = 1..MaxSess
      /\ \A s \in 1..MaxSess : archive[s] = {} \/ (archive[s] = log /\ s \in H!Sess /\ s = 1)
  BY <1>3, <1>4
<1>7. queue \in Seq(EventRec) /\ DOMAIN queue = {} /\ Starting = {}
  BY <1>4 DEF Starting
<1>8. H!Events({}) = {}
  BY DEF H!Events
<1>9. HistoryTypes
  <2>1. Len(sess) <= MaxSess
    <3>1. MaxSess \in Nat \ {0}
      BY DEF H!HistoryAssumption
    <3>2. Len(sess) = 0 \/ Len(sess) = 1
      BY <1>3
    <3> QED BY <3>1, <3>2
  <2>2. \A s \in H!Sess : IsFiniteSet(sess[s].members)
    BY <1>3, FS_EmptySet
  <2>3. \A r \in Uuid : doc[r].of \in Nat /\ doc[r] = [of |-> doc[r].of, log |-> doc[r].log]
    BY <1>5
  <2> QED BY <1>3, <1>4, <1>5, <1>6, <1>7, <2>1, <2>2, <2>3 DEF HistoryTypes
<1>10. Present /\ Copied
  BY <1>3, <1>4 DEF Present, Copied, H!Idle
<1>11. Neighbours /\ InOrder /\ InTurn
  BY <1>3, <1>7 DEF Neighbours, InOrder, InTurn
<1>12. Newest
  <2>1. ASSUME NEW s \in 1..MaxSess, archive[s] # {}
        PROVE  s \in H!Sess /\ s <= doc[sess[s].uuid].of
    <3>1. s = 1 /\ 1 \in H!Sess /\ sess[1].uuid \in Uuid
      BY <1>3, <1>6, <2>1
    <3>2. doc[sess[1].uuid].of = 1
      BY <1>4, <3>1
    <3> QED BY <3>1, <3>2
  <2>2. ASSUME NEW r \in Uuid
        PROVE  /\ doc[r].of # 0 => doc[r].of \in H!Sess /\ sess[doc[r].of].uuid = r
               /\ doc[r].of = 0 => H!Events(doc[r].log) = {}
    BY <1>5, <1>8
  <2> QED BY <1>7, <2>1, <2>2 DEF Newest
<1>13. Logs
  BY <1>2, <1>5, <1>6, <1>7, <1>8 DEF Logs
<1>14. H!OwnLog
  <2>1. \A r \in Uuid : \A e \in H!Events(doc[r].log) : e.s = doc[r].of
    BY <1>2, <1>5, <1>8
  <2>2. \A s \in DOMAIN archive : \A e \in H!Events(archive[s]) : e.s = s
    BY <1>2, <1>6, <1>8
  <2> QED BY <2>1, <2>2 DEF H!OwnLog, H!Own
<1> QED BY <1>9, <1>10, <1>11, <1>12, <1>13, <1>14 DEF HistoryInv
-----------------------------------------------------------------------------
(* A new session.                                                          *)

\* The creation of session s is posted, and the joining of whoever created it.
LEMMA TwoPosted ==
  ASSUME NEW q \in Seq(EventRec), NEW v \in EventRec, NEW w \in EventRec,
         NEW a, a = Len(q) + 1, NEW b, b = Len(q) + 2
  PROVE  /\ q \o <<v, w>> \in Seq(EventRec) /\ DOMAIN q = 1..Len(q) /\ Len(q) \in Nat
         /\ DOMAIN (q \o <<v, w>>) = DOMAIN q \union {a, b} /\ a < b /\ \A i \in DOMAIN q : i < a
         /\ (q \o <<v, w>>)[a] = v /\ (q \o <<v, w>>)[b] = w
         /\ \A i \in DOMAIN q : (q \o <<v, w>>)[i] = q[i]
         /\ q # <<>> => q \o <<v, w>> # <<>> /\ Head(q \o <<v, w>>) = Head(q)
<1>1. PICK p : p = <<v, w>>
  OBVIOUS
<1>2. p \in Seq(EventRec) /\ Len(p) = 2 /\ p[1] = v /\ p[2] = w
  BY <1>1
<1>3. PICK o : o = q \o p
  OBVIOUS
<1>4. /\ o \in Seq(EventRec) /\ Len(q) \in Nat
      /\ DOMAIN o = 1..Len(q) + 2 /\ DOMAIN q = 1..Len(q)
      /\ \A i \in DOMAIN o :
           \/ i \in DOMAIN q /\ o[i] = q[i]
           \/ i \notin DOMAIN q /\ i - Len(q) \in DOMAIN p /\ o[i] = p[i - Len(q)]
  <2>1. /\ q \o p \in Seq(EventRec) /\ DOMAIN q = 1..Len(q) /\ Len(q) \in Nat
        /\ DOMAIN (q \o p) = 1..Len(q) + Len(p)
        /\ \A i \in DOMAIN (q \o p) :
             \/ i \in DOMAIN q /\ (q \o p)[i] = q[i]
             \/ i \notin DOMAIN q /\ i - Len(q) \in DOMAIN p /\ (q \o p)[i] = p[i - Len(q)]
    BY <1>2, Appended
  <2> QED BY <1>2, <1>3, <2>1
<1>5. /\ DOMAIN o = DOMAIN q \union {a, b} /\ a < b /\ \A i \in DOMAIN q : i < a
  BY <1>4
<1>6. o[a] = v /\ o[b] = w /\ \A i \in DOMAIN q : o[i] = q[i]
  <2>1. a - Len(q) = 1 /\ b - Len(q) = 2 /\ a \notin DOMAIN q /\ b \notin DOMAIN q
    BY <1>4
  <2>2. o[a] = p[a - Len(q)] /\ o[b] = p[b - Len(q)]
    BY <1>4, <1>5, <2>1
  <2>3. \A i \in DOMAIN q : o[i] = q[i]
    BY <1>4, <1>5
  <2> QED BY <1>2, <2>1, <2>2, <2>3
<1>7. ASSUME q # <<>> PROVE o # <<>> /\ Head(o) = Head(q)
  <2>1. 1 \in DOMAIN q /\ Head(q) = q[1]
    BY <1>7, Dropped
  <2>2. o # <<>>
    BY <1>4, <1>5, <2>1
  <2>3. Head(o) = o[1]
    BY <1>4, <2>2, Dropped
  <2> QED BY <1>6, <2>1, <2>2, <2>3
<1> QED BY <1>1, <1>3, <1>4, <1>5, <1>6, <1>7

LEMMA OpenStep ==
  ASSUME H!HistoryAssumption, HistoryInv, NEW u \in User, NEW r \in Uuid, H!Open(u, r)
  PROVE  HistoryInv'
<1>1. PICK s : s = Len(sess) + 1
  OBVIOUS
<1>2. PICK j : j = [id |-> enters + 1, user |-> u]
  OBVIOUS
<1>3. PICK g : g = [uuid |-> r, owner |-> u, webinar |-> s \in Webinars,
                    members |-> {j}, state |-> "open"]
  OBVIOUS
<1>4. PICK v : v = H!Created(s)
  OBVIOUS
<1>5. PICK w : w = H!Joined(s, j)
  OBVIOUS
<1>6. PICK a : a = Len(queue) + 1
  OBVIOUS
<1>7. PICK b : b = Len(queue) + 2
  OBVIOUS
<1>8. /\ s <= MaxSess /\ sess' = Append(sess, g) /\ found' = [found EXCEPT ![r] = s]
      /\ queue' = queue \o <<v, w>> /\ enters' = enters + 1
      /\ beside' = beside \union {<<t, s>> : t \in {t \in H!Sess : sess[t].uuid = r
                                                                /\ H!Registered(t)}}
      /\ UNCHANGED <<event, doc, archive>>
  <2>1. H!Joiner(u) = j
    BY <1>2 DEF H!Joiner
  <2> QED BY <1>1, <1>3, <1>4, <1>5, <2>1 DEF H!Open, H!UnchangedStored
<1>9. /\ sess \in Seq(SessRec) /\ Len(sess) \in Nat /\ queue \in Seq(EventRec) /\ enters \in Nat
      /\ found \in [Uuid -> Nat] /\ \A i \in DOMAIN queue : queue[i].s \in H!Sess
  BY DEF HistoryInv, HistoryTypes
<1>10. s \in Nat \ {0} /\ j \in [id : Nat, user : User] /\ enters' \in Nat
  BY <1>1, <1>2, <1>8, <1>9
<1>11. /\ g \in SessRec /\ g.uuid = r /\ g.members = {j} /\ g.state = "open"
  BY <1>3, <1>10 DEF SessRec
<1>12. /\ sess' \in Seq(SessRec) /\ Len(sess') = s /\ sess'[s] = g
       /\ \A t \in 1..Len(sess) : sess'[t] = sess[t]
  BY <1>1, <1>8, <1>9, <1>11
<1>13. /\ H!Sess = 1..Len(sess) /\ H!Sess' = H!Sess \union {s} /\ s \notin H!Sess
       /\ (\A t \in H!Sess : t \in Nat /\ t < s) /\ \A t \in H!Sess : sess'[t] = sess[t]
  <2>1. H!Sess = 1..Len(sess) /\ H!Sess' = 1..Len(sess')
    BY DEF H!Sess
  <2>2. 1..Len(sess') = 1..Len(sess) \union {s}
    BY <1>1, <1>9, <1>12
  <2>3. s \notin 1..Len(sess) /\ \A t \in 1..Len(sess) : t \in Nat /\ t < s
    BY <1>1, <1>9
  <2> QED BY <1>12, <2>1, <2>2, <2>3
<1>14. v \in EventRec /\ v.k = "created" /\ v.s = s /\ w \in EventRec /\ w.k = "joined" /\ w.s = s
  BY <1>4, <1>5, <1>10 DEF H!Created, H!Joined, EventRec
<1>15. PICK o : o = queue \o <<v, w>>
  OBVIOUS
<1>16. /\ o \in Seq(EventRec) /\ DOMAIN queue = 1..Len(queue) /\ Len(queue) \in Nat
       /\ DOMAIN o = DOMAIN queue \union {a, b} /\ a < b /\ \A i \in DOMAIN queue : i < a
       /\ o[a] = v /\ o[b] = w /\ \A i \in DOMAIN queue : o[i] = queue[i]
       /\ queue # <<>> => o # <<>> /\ Head(o) = Head(queue)
  <2>1. queue \in Seq(EventRec) /\ v \in EventRec /\ w \in EventRec
    BY <1>9, <1>14
  <2> QED BY <1>6, <1>7, <1>15, <2>1, TwoPosted
<1>17. /\ queue' \in Seq(EventRec) /\ DOMAIN queue = 1..Len(queue) /\ Len(queue) \in Nat
       /\ DOMAIN queue' = DOMAIN queue \union {a, b} /\ a < b /\ \A i \in DOMAIN queue : i < a
       /\ queue'[a] = v /\ queue'[b] = w /\ \A i \in DOMAIN queue : queue'[i] = queue[i]
       /\ queue # <<>> => queue' # <<>> /\ Head(queue') = Head(queue)
  BY <1>8, <1>15, <1>16
<1>18. \A x : x \in Starting' <=> x \in Starting \/ x = s
  BY <1>14, <1>17 DEF Starting
<1>19. HistoryTypes'
  <2>1. \A t \in H!Sess' : IsFiniteSet(sess'[t].members)
    <3>1. IsFiniteSet({j})
      BY FS_Singleton
    <3> QED BY <1>11, <1>12, <1>13, <3>1 DEF HistoryInv, HistoryTypes
  <2>2. \A i \in DOMAIN queue' : queue'[i].s \in H!Sess'
    BY <1>9, <1>13, <1>14, <1>17
  <2>3. found' \in [Uuid -> Nat]
    BY <1>8, <1>9, <1>10
  <2> QED BY <1>8, <1>10, <1>12, <1>17, <2>1, <2>2, <2>3 DEF HistoryInv, HistoryTypes
<1>20. \A t \in H!Sess : H!Registered(t)' <=> H!Registered(t)
  BY <1>13 DEF H!Registered
<1>21. Present'
  <2>1. sess'[s].state # "gone"
    BY <1>11, <1>12
  <2>2. \A t \in H!Sess' : sess'[t].members # {} => sess'[t].state # "gone"
    BY <1>13, <2>1 DEF HistoryInv, Present, H!Registered
  <2>3. ASSUME NEW q \in Uuid, found'[q] # 0
        PROVE  found'[q] \in H!Sess' /\ sess'[found'[q]].state # "gone" /\ sess'[found'[q]].uuid = q
    <3>1. CASE q = r
      <4>1. found'[q] = s
        BY <1>8, <1>9, <3>1
      <4> QED BY <1>11, <1>12, <1>13, <2>1, <3>1, <4>1
    <3>2. CASE q # r
      <4>1. found'[q] = found[q]
        BY <1>8, <1>9, <3>2
      <4>2. found[q] \in H!Sess /\ sess[found[q]].state # "gone" /\ sess[found[q]].uuid = q
        BY <2>3, <4>1 DEF HistoryInv, Present, H!Registered
      <4> QED BY <1>13, <4>1, <4>2
    <3> QED BY <3>1, <3>2
  <2> QED BY <2>2, <2>3 DEF Present, H!Registered
<1>22. Neighbours'
  <2>1. ASSUME NEW x \in H!Sess', NEW t \in H!Sess', x < t, sess'[x].uuid = sess'[t].uuid,
               H!Registered(x)'
        PROVE  <<x, t>> \in beside'
    <3>1. x \in H!Sess /\ sess'[x] = sess[x] /\ H!Registered(x)
      BY <1>10, <1>13, <1>20, <2>1
    <3>2. CASE t = s
      BY <1>8, <1>11, <1>12, <2>1, <3>1, <3>2
    <3>3. CASE t \in H!Sess
      BY <1>8, <1>13, <2>1, <3>1, <3>3 DEF HistoryInv, Neighbours
    <3> QED BY <1>13, <3>2, <3>3
  <2> QED BY <2>1 DEF Neighbours
<1>23. InOrder'
  <2>1. ASSUME NEW i \in DOMAIN queue', NEW k \in DOMAIN queue', i < k, queue'[k].k = "created"
        PROVE  queue'[i].s < queue'[k].s
    <3>1. k # b /\ i \in DOMAIN queue
      BY <1>6, <1>7, <1>14, <1>17, <2>1
    <3>2. CASE k = a
      BY <1>9, <1>13, <1>14, <1>17, <3>1, <3>2
    <3>3. CASE k \in DOMAIN queue
      BY <1>17, <2>1, <3>1, <3>3 DEF HistoryInv, InOrder
    <3> QED BY <1>17, <3>1, <3>2, <3>3
  <2>2. ASSUME NEW x \in H!Sess', NEW t \in H!Sess', x < t, x \in Starting'
        PROVE  t \in Starting'
    <3>1. x \in H!Sess /\ x \in Starting
      BY <1>10, <1>13, <1>18, <2>2
    <3> QED BY <1>13, <1>18, <2>2, <3>1 DEF HistoryInv, InOrder
  <2> QED BY <2>1, <2>2 DEF InOrder
<1>24. InTurn'
  <2>1. ASSUME NEW i \in DOMAIN queue', NEW t \in H!Sess', queue'[i].s < t,
               sess'[queue'[i].s].uuid = sess'[t].uuid
        PROVE  \/ <<queue'[i].s, t>> \in beside'
               \/ \E l \in DOMAIN queue' : i < l /\ queue'[l].k = "created" /\ queue'[l].s = t
    <3>1. i \in DOMAIN queue /\ queue'[i] = queue[i] /\ queue[i].s \in H!Sess
      BY <1>9, <1>10, <1>13, <1>14, <1>17, <2>1
    <3>2. CASE t = s
      BY <1>14, <1>17, <3>1, <3>2
    <3>3. CASE t \in H!Sess
      <4>1. sess[queue[i].s].uuid = sess[t].uuid /\ queue[i].s < t
        BY <1>13, <2>1, <3>1, <3>3
      <4>2. \/ <<queue[i].s, t>> \in beside
            \/ \E l \in DOMAIN queue : i < l /\ queue[l].k = "created" /\ queue[l].s = t
        BY <3>1, <3>3, <4>1 DEF HistoryInv, InTurn
      <4> QED BY <1>8, <1>17, <3>1, <4>2
    <3> QED BY <1>13, <3>2, <3>3
  <2> QED BY <2>1 DEF InTurn
<1>25. \A x \in H!Sess \ Starting : x \in H!Sess' \ Starting' /\ sess'[x] = sess[x]
  BY <1>13, <1>18
<1>26. Newest'
  BY <1>8, <1>25 DEF HistoryInv, Newest
<1>27. Logs'
  BY <1>8, <1>25 DEF HistoryInv, Logs
<1>28. Copied'
  <2>1. ASSUME event.k = "created" PROVE event.s \in H!Sess
    BY <2>1, HeadIs DEF HistoryInv, Copied
  <2> QED BY <1>8, <1>13, <1>17, <2>1 DEF HistoryInv, Copied
<1>29. (H!OwnLog)'
  <2>1. \A x : H!HasDocument(x)' <=> H!HasDocument(x)
    BY <1>8 DEF H!HasDocument
  <2> QED BY <1>8, <2>1 DEF HistoryInv, H!OwnLog, H!Own
<1> QED BY <1>19, <1>21, <1>22, <1>23, <1>24, <1>26, <1>27, <1>28, <1>29 DEF HistoryInv
-----------------------------------------------------------------------------
(* A session's creation is handled, and its closing.                       *)

LEMMA OnCreatedStep == ASSUME H!HistoryAssumption, HistoryInv, H!OnCreated PROVE HistoryInv'
<1>1. PICK s : s = Head(queue).s
  OBVIOUS
<1>2. PICK r : r = sess[s].uuid
  OBVIOUS
<1>3. PICK d : d = doc[r]
  OBVIOUS
<1>4. /\ event = H!Idle /\ queue # <<>> /\ Head(queue).k = "created"
      /\ UNCHANGED <<doc, sess, found, enters, beside>>
      /\ \/ event' = H!Idle /\ queue' = Tail(queue) /\ archive' = archive
         \/ /\ event' = H!Created(s) /\ queue' = queue
            /\ \/ d.of = 0 /\ archive' = archive
               \/ d.of # 0 /\ ~H!Copied(d) /\ archive' = [archive EXCEPT ![d.of] = d.log]
  BY <1>1, <1>2, <1>3 DEF H!OnCreated, H!Next1, H!Done, H!UnchangedRooms, H!Backup
<1>5. s \in H!Sess /\ r \in Uuid
  BY <1>1, <1>2, <1>4, HeadIs, SessionIs DEF HistoryInv
<1>6. CASE event' = H!Idle /\ queue' = Tail(queue) /\ archive' = archive
  <2>1. /\ LogsGrow(None)
        /\ DOMAIN doc' = Uuid
        /\ \A q \in Uuid : doc'[q] = [of |-> doc'[q].of, log |-> doc'[q].log]
    BY <1>4, <1>6, UnloggedIs
  <2> QED BY <1>4, <1>6, <2>1, DropStep
<1>7. ASSUME event' = H!Created(s), queue' = queue,
             d.of # 0 => H!Events(d.log) \subseteq archive'[d.of]
      PROVE  Copied'
  <2>1. event'.k = "created" /\ event'.s = s
    BY <1>7 DEF H!Created
  <2>2. event'.k = "created" =>
          /\ queue' # <<>> /\ Head(queue').k = "created" /\ Head(queue').s = event'.s
          /\ (doc'[sess'[event'.s].uuid].of # 0 =>
                H!Events(doc'[sess'[event'.s].uuid].log)
                  \subseteq archive'[doc'[sess'[event'.s].uuid].of])
    BY <1>1, <1>2, <1>3, <1>4, <1>7, <2>1
  <2> QED BY <1>4, <1>7, <2>2 DEF Copied
<1>8. CASE event' = H!Created(s) /\ queue' = queue /\ d.of = 0 /\ archive' = archive
  <2>1. /\ LogsGrow(None)
        /\ DOMAIN doc' = Uuid
        /\ \A q \in Uuid : doc'[q] = [of |-> doc'[q].of, log |-> doc'[q].log]
    BY <1>4, <1>8, UnloggedIs
  <2> QED BY <1>4, <1>7, <1>8, <2>1, StayStep
<1>9. CASE /\ event' = H!Created(s) /\ queue' = queue /\ d.of # 0 /\ ~H!Copied(d)
           /\ archive' = [archive EXCEPT ![d.of] = d.log]
  <2>1. PICK o : o = d.of
    OBVIOUS
  <2>2. o \in H!Sess \ Starting /\ sess[o].uuid = r /\ o \in 1..MaxSess /\ doc[r].of = o
    <3>1. o \in H!Sess \ Starting /\ sess[o].uuid = r /\ doc[r].of = o
      BY <1>3, <1>5, <1>9, <2>1 DEF HistoryInv, Newest
    <3> QED BY <3>1, SessionIs DEF HistoryInv
  <2>3. /\ archive = [x \in 1..MaxSess |-> archive[x]]
        /\ archive' = [archive EXCEPT ![o] = d.log]
    BY <1>9, <2>1 DEF HistoryInv, HistoryTypes
  <2>4. /\ archive' = [x \in 1..MaxSess |-> archive'[x]] /\ archive'[o] = d.log
        /\ DOMAIN archive = 1..MaxSess /\ DOMAIN archive' = 1..MaxSess
        /\ \A x \in 1..MaxSess : x # o => archive'[x] = archive[x]
    BY <2>2, <2>3
  <2>5. H!Sess' = H!Sess /\ Starting' = Starting
    BY <1>4, <1>9 DEF H!Sess, Starting
  <2>6. HistoryTypes'
    BY <1>4, <1>9, <2>4, <2>5 DEF HistoryInv, HistoryTypes
  <2>7. Present' /\ Neighbours' /\ InOrder' /\ InTurn'
    BY <1>4, <1>9, <2>5 DEF HistoryInv, Present, Neighbours, InOrder, InTurn, H!Registered
  <2>8. Newest'
    <3>1. o <= doc[sess[o].uuid].of
      BY <2>2
    <3>2. ASSUME NEW x \in 1..MaxSess, archive'[x] # {}
          PROVE  x \in H!Sess \ Starting /\ x <= doc[sess[x].uuid].of
      BY <2>2, <2>4, <3>1, <3>2 DEF HistoryInv, Newest
    <3> QED BY <1>4, <2>5, <3>2 DEF HistoryInv, Newest
  <2>9. Logs'
    <3>1. \A e \in H!Events(d.log) : e.s \in H!Sess \ Starting
      BY <1>3, <1>5 DEF HistoryInv, Logs
    <3>2. \A x \in 1..MaxSess : \A e \in H!Events(archive'[x]) : e.s \in H!Sess \ Starting
      BY <2>4, <3>1 DEF HistoryInv, Logs
    <3> QED BY <1>4, <2>5, <3>2 DEF HistoryInv, Logs
  <2>10. H!Events(d.log) \subseteq archive'[d.of]
    BY <2>1, <2>4 DEF H!Events
  <2>11. Copied'
    BY <1>7, <1>9, <2>10
  <2>12. (H!OwnLog)'
    <3>1. \A x \in H!Sess : H!HasDocument(x)' => H!HasDocument(x)
      <4>1. ASSUME NEW x \in H!Sess, archive'[x] # {} PROVE archive[x] # {} \/ x = o
        <5>1. x \in 1..MaxSess
          BY SessionIs DEF HistoryInv
        <5> QED BY <2>4, <4>1, <5>1
      <4> QED BY <1>4, <1>5, <2>2, <4>1 DEF H!HasDocument
    <3>2. H!Own(o, d.log)
      BY <1>3, <1>5, <2>1 DEF HistoryInv, H!OwnLog
    <3>3. \A x \in 1..MaxSess : H!Own(x, archive'[x])
      BY <2>4, <3>2 DEF HistoryInv, H!OwnLog
    <3>4. /\ \A x \in 1..MaxSess : \A e \in H!Events(archive'[x]) : e.s \in H!Sess
          /\ \A q \in Uuid : \A e \in H!Events(doc[q].log) : e.s \in H!Sess
      BY <1>4, <2>5, <2>9 DEF Logs
    <3>5. \A x \in 1..MaxSess : H!Own(x, archive[x])'
      BY <1>4, <3>1, <3>3, <3>4 DEF H!Own
    <3>6. \A q \in Uuid : H!Own(doc[q].of, doc[q].log)'
      BY <1>4, <3>1, <3>4 DEF HistoryInv, H!OwnLog, H!Own
    <3> QED BY <2>4, <3>5, <3>6 DEF H!OwnLog
  <2> QED BY <2>6, <2>7, <2>8, <2>9, <2>11, <2>12 DEF HistoryInv
<1> QED BY <1>4, <1>6, <1>8, <1>9

LEMMA UpsertStep == ASSUME H!HistoryAssumption, HistoryInv, H!Upsert PROVE HistoryInv'
<1>1. PICK s : s = event.s
  OBVIOUS
<1>2. PICK r : r = sess[s].uuid
  OBVIOUS
<1>3. PICK log : log = {H!Entry("created", s, 0)}
  OBVIOUS
<1>4. /\ event.k = "created" /\ event' = H!Idle /\ queue' = Tail(queue)
      /\ UNCHANGED <<archive, sess, found, enters, beside>>
      /\ doc' = doc \/ doc' = [doc EXCEPT ![r] = [of |-> s, log |-> log]]
  BY <1>1, <1>2, <1>3 DEF H!Upsert, H!Done, H!UnchangedRooms, H!NewLog
<1>5. queue # <<>> /\ Head(queue).k = "created" /\ Head(queue).s = s
  BY <1>1, <1>4 DEF HistoryInv, Copied
<1>6. CASE doc' = doc
  <2>1. /\ LogsGrow(None)
        /\ DOMAIN doc' = Uuid
        /\ \A q \in Uuid : doc'[q] = [of |-> doc'[q].of, log |-> doc'[q].log]
    BY <1>4, <1>6, UnloggedIs
  <2> QED BY <1>4, <1>5, <2>1, DropStep
<1>7. CASE doc' = [doc EXCEPT ![r] = [of |-> s, log |-> log]]
  <2>1. /\ s \in H!Sess /\ s \in Starting /\ 1 \in DOMAIN queue /\ Head(queue) = queue[1]
    <3>1. Head(queue).s \in H!Sess /\ 1 \in DOMAIN queue /\ Head(queue) = queue[1]
      BY <1>5, HeadIs
    <3> QED BY <1>5, <3>1 DEF Starting
  <2>2. r \in Uuid /\ s \in Nat /\ s \in 1..MaxSess /\ H!Sess \subseteq Nat
    <3>1. H!Sess \subseteq Nat
      BY DEF H!Sess
    <3> QED BY <1>2, <2>1, <3>1, SessionIs DEF HistoryInv
  <2>3. DOMAIN doc = Uuid /\ \A q \in Uuid : doc[q] = [of |-> doc[q].of, log |-> doc[q].log]
    BY DEF HistoryInv, HistoryTypes
  <2>4. /\ DOMAIN doc' = Uuid /\ doc'[r] = [of |-> s, log |-> log]
        /\ doc'[r].of = s /\ doc'[r].log = log
        /\ \A q \in Uuid : q # r => doc'[q] = doc[q]
    BY <1>7, <2>2, <2>3
  <2>5. Moved(1, None) /\ queue' \in Seq(EventRec)
    BY <1>4, <1>5, HandledIs
  <2>6. SameSessions /\ H!Sess' = H!Sess
    BY <1>4 DEF SameSessions, H!Sess
  <2>7. /\ InOrder' /\ InTurn' /\ Starting' \subseteq Starting
        /\ \A i \in DOMAIN queue' : queue'[i].s \in H!Sess
        /\ Head(queue).s \notin Starting'
    BY <1>5, <2>5, <2>6, MovedKeepsOrder
  <2>8. s \in H!Sess \ Starting'
    BY <1>5, <2>1, <2>7
  <2>9. HistoryTypes'
    <3>1. \A q \in Uuid : /\ doc'[q] = [of |-> doc'[q].of, log |-> doc'[q].log]
                          /\ doc'[q].of \in Nat
      BY <2>2, <2>3, <2>4 DEF HistoryInv, HistoryTypes
    <3> QED BY <1>4, <2>4, <2>5, <2>6, <2>7, <3>1 DEF HistoryInv, HistoryTypes
  <2>10. Present' /\ Copied'
    BY <1>4, <2>6 DEF HistoryInv, Present, Copied, H!Registered, H!Idle
  <2>11. Neighbours'
    BY <2>6, SessionsKept
  <2>12. Newest'
    <3>1. ASSUME NEW q \in Uuid
          PROVE  /\ doc'[q].of # 0 => doc'[q].of \in H!Sess \ Starting' /\ sess[doc'[q].of].uuid = q
                 /\ doc'[q].of = 0 => H!Events(doc'[q].log) = {}
      <4>1. CASE q = r
        <5>1. s # 0
          BY <2>1 DEF H!Sess
        <5> QED BY <1>2, <2>4, <2>8, <4>1, <5>1
      <4>2. CASE q # r
        BY <2>4, <2>7, <4>2 DEF HistoryInv, Newest
      <4> QED BY <4>1, <4>2
    <3>2. ASSUME NEW x \in 1..MaxSess, archive[x] # {}
          PROVE  x \in H!Sess \ Starting' /\ x <= doc'[sess[x].uuid].of
      <4>1. x \in H!Sess \ Starting /\ x <= doc[sess[x].uuid].of
        BY <3>2 DEF HistoryInv, Newest
      <4>2. sess[x].uuid \in Uuid
        BY <4>1, SessionIs DEF HistoryInv
      <4>3. CASE sess[x].uuid = r
        <5>1. ~(s < x)
          BY <2>1, <4>1 DEF HistoryInv, InOrder
        <5>2. x <= s
          BY <2>2, <4>1, <5>1
        <5> QED BY <2>4, <2>7, <4>1, <4>3, <5>2
      <4>4. CASE sess[x].uuid # r
        BY <2>4, <2>7, <4>1, <4>2, <4>4
      <4> QED BY <4>3, <4>4
    <3> QED BY <1>4, <2>6, <3>1, <3>2 DEF Newest
  <2>13. \A e \in H!Events(log) : e.s = s
    BY <1>3 DEF H!Events, H!Entry
  <2>14. Logs'
    <3>1. \A q \in Uuid : \A e \in H!Events(doc'[q].log) : e.s \in H!Sess \ Starting'
      BY <2>4, <2>7, <2>8, <2>13 DEF HistoryInv, Logs
    <3> QED BY <1>4, <2>6, <2>7, <3>1 DEF HistoryInv, Logs
  <2>15. \A x : H!HasDocument(x)' => H!HasDocument(x) \/ x = s
    BY <1>4, <2>4 DEF H!HasDocument
  <2>16. (H!OwnLog)'
    <3>1. ASSUME NEW of, NEW l, H!Own(of, l), \A e \in H!Events(l) : e.s \notin Starting
          PROVE  \A e \in H!Events(l) : e.s = of \/ <<e.s, of>> \in beside \/ ~H!HasDocument(e.s)'
      BY <2>1, <2>15, <3>1 DEF H!Own
    <3>2. ASSUME NEW q \in Uuid
          PROVE  \A e \in H!Events(doc'[q].log) : e.s = doc'[q].of \/ <<e.s, doc'[q].of>> \in beside
                                                  \/ ~H!HasDocument(e.s)'
      <4>1. CASE q = r
        BY <2>4, <2>13, <4>1
      <4>2. CASE q # r
        <5>1. H!Own(doc[q].of, doc[q].log) /\ \A e \in H!Events(doc[q].log) : e.s \notin Starting
          BY DEF HistoryInv, H!OwnLog, Logs
        <5> QED BY <2>4, <3>1, <4>2, <5>1
      <4> QED BY <4>1, <4>2
    <3>3. ASSUME NEW x \in DOMAIN archive
          PROVE  \A e \in H!Events(archive[x]) : e.s = x \/ <<e.s, x>> \in beside
                                                 \/ ~H!HasDocument(e.s)'
      <4>1. x \in 1..MaxSess
        BY DEF HistoryInv, HistoryTypes
      <4>2. H!Own(x, archive[x]) /\ \A e \in H!Events(archive[x]) : e.s \notin Starting
        BY <4>1 DEF HistoryInv, H!OwnLog, Logs
      <4> QED BY <3>1, <4>2
    <3> QED BY <1>4, <3>2, <3>3 DEF H!OwnLog, H!Own
  <2> QED BY <2>7, <2>9, <2>10, <2>11, <2>12, <2>14, <2>16 DEF HistoryInv
<1> QED BY <1>4, <1>6, <1>7

\* The members are told in some order.
LEMMA InSomeOrder ==
  ASSUME NEW W, IsFiniteSet(W)
  PROVE  \E n \in Nat : H!SetToSeq(W) \in [1..n -> W]
<1>1. Cardinality(W) \in Nat /\ ExistsBijection(1..Cardinality(W), W)
  BY FS_CardinalityType
<1>2. PICK f \in [1..Cardinality(W) -> W] : \A i, j \in 1..Cardinality(W) : f[i] = f[j] => i = j
  BY <1>1 DEF ExistsBijection, Bijection, Injection, IsInjective
<1>3. H!SetToSeq(W) \in [1..Cardinality(W) -> W]
  BY <1>2 DEF H!SetToSeq, H!IsInjective, H!Cardinality, Cardinality
<1> QED BY <1>1, <1>3

LEMMA OnRouterClosedStep == ASSUME H!HistoryAssumption, HistoryInv, H!OnRouterClosed PROVE HistoryInv'
<1>1. PICK s : s = Head(queue).s
  OBVIOUS
<1>2. PICK w : w = H!SetToSeq(sess[s].members)
  OBVIOUS
<1>3. PICK c : c = <<H!Closed(s)>>
  OBVIOUS
<1>4. PICK l : l = [i \in DOMAIN w |-> H!Left(s, w[i])]
  OBVIOUS
<1>5. /\ event = H!Idle /\ event' = H!Idle /\ queue # <<>> /\ Head(queue).k = "router"
      /\ UNCHANGED <<doc, archive, found, enters, beside>>
      /\ \/ sess' = sess /\ queue' = Tail(queue)
         \/ /\ sess[s].state = "pending"
            /\ sess' = [sess EXCEPT ![s].state = "closed", ![s].members = {}]
            /\ queue' = Tail(queue) \o c \o l
  BY <1>1, <1>2, <1>3, <1>4 DEF H!OnRouterClosed, H!Next1, H!UnchangedStored
<1>6. /\ LogsGrow(None)
      /\ DOMAIN doc' = Uuid
      /\ \A q \in Uuid : doc'[q] = [of |-> doc'[q].of, log |-> doc'[q].log]
  BY <1>5, UnloggedIs
<1>7. CASE sess' = sess /\ queue' = Tail(queue)
  BY <1>5, <1>6, <1>7, DropStep
<1>8. CASE /\ sess[s].state = "pending"
           /\ sess' = [sess EXCEPT ![s].state = "closed", ![s].members = {}]
           /\ queue' = Tail(queue) \o c \o l
  <2>1. s \in H!Sess /\ queue \in Seq(EventRec) /\ s \in Nat \ {0}
    <3>1. s \in H!Sess /\ queue \in Seq(EventRec)
      BY <1>1, <1>5, HeadIs
    <3> QED BY <3>1 DEF H!Sess
  <2>2. /\ sess[s] \in SessRec /\ sess[s].members \subseteq [id : Nat, user : User]
        /\ IsFiniteSet(sess[s].members)
    BY <2>1, Members DEF HistoryInv
  <2>3. H!Registered(s)
    BY <1>8 DEF H!Registered
  <2>4. PICK g : g = [sess[s] EXCEPT !.state = "closed", !.members = {}]
    OBVIOUS
  <2>5. /\ g \in SessRec /\ g.uuid = sess[s].uuid /\ g.state = "closed" /\ g.members = {}
    BY <2>2, <2>4 DEF SessRec
  <2>6. sess' = [sess EXCEPT ![s] = g]
    BY <1>8, <2>1, <2>4
  <2>7. /\ SameSessions /\ sess' \in Seq(SessRec) /\ H!Sess' = H!Sess
        /\ \A t \in H!Sess : IsFiniteSet(sess'[t].members)
        /\ sess'[s] = g /\ \A t \in H!Sess : t # s => sess'[t] = sess[t]
    <3>1. IsFiniteSet(g.members)
      BY <2>5, FS_EmptySet
    <3>2. g.state # "gone" => sess[s].state # "gone"
      BY <1>8
    <3> QED BY <1>5, <2>1, <2>5, <2>6, <3>1, <3>2, SessionBecomes DEF HistoryInv
  <2>8. /\ l \in Seq(EventRec) /\ \A i \in DOMAIN l : l[i].k = "left" /\ l[i].s = s
    <3>1. PICK n \in Nat : w \in [1..n -> sess[s].members]
      BY <1>2, <2>2, InSomeOrder
    <3>2. ASSUME NEW i \in 1..n
          PROVE  H!Left(s, w[i]) \in EventRec /\ H!Left(s, w[i]).k = "left" /\ H!Left(s, w[i]).s = s
      <4>1. w[i] \in [id : Nat, user : User]
        BY <2>2, <3>1
      <4> QED BY <2>1, <4>1 DEF H!Left, EventRec
    <3>3. DOMAIN w = 1..n
      BY <3>1
    <3>4. l = [i \in 1..n |-> H!Left(s, w[i])]
      BY <1>4, <3>3
    <3> QED BY <3>1, <3>2, <3>4
  <2>9. /\ c \in Seq(EventRec) /\ \A i \in DOMAIN c : c[i].k = "closed" /\ c[i].s = s
    <3>1. H!Closed(s) \in EventRec /\ H!Closed(s).k = "closed" /\ H!Closed(s).s = s
      BY <2>1 DEF H!Closed, EventRec
    <3> QED BY <1>3, <3>1
  <2>10. PICK p : p = c \o l
    OBVIOUS
  <2>11. /\ p \in Seq(EventRec) /\ \A i \in DOMAIN p : p[i].k # "created" /\ p[i].s = s
    BY <2>8, <2>9, <2>10, Appended
  <2>12. PICK t : t = Tail(queue)
    OBVIOUS
  <2>13. /\ t \in Seq(EventRec) /\ DOMAIN queue = 1..Len(queue) /\ Len(queue) \in Nat
         /\ DOMAIN t = 1..Len(t) /\ Len(t) = Len(queue) - 1
         /\ \A i \in DOMAIN t : i + 1 \in DOMAIN queue /\ t[i] = queue[i + 1]
    BY <1>5, <2>1, <2>12, Dropped
  <2>14. queue' = t \o p
    <3>1. (t \o c) \o l = t \o (c \o l)
      <4>1. t \in Seq(EventRec) /\ c \in Seq(EventRec) /\ l \in Seq(EventRec)
        BY <2>8, <2>9, <2>13
      <4> QED BY ONLY <4>1, ConcatAssociative
    <3> QED BY <1>8, <2>10, <2>12, <3>1
  <2>15. /\ queue' \in Seq(EventRec) /\ Len(p) \in Nat /\ DOMAIN p = 1..Len(p)
         /\ DOMAIN queue' = 1..Len(t) + Len(p)
         /\ \A i \in DOMAIN queue' :
              \/ i \in DOMAIN t /\ queue'[i] = t[i]
              \/ i \notin DOMAIN t /\ i - Len(t) \in DOMAIN p /\ queue'[i] = p[i - Len(t)]
    <3>1. /\ t \o p \in Seq(EventRec) /\ Len(p) \in Nat /\ DOMAIN p = 1..Len(p)
          /\ DOMAIN (t \o p) = 1..Len(t) + Len(p)
          /\ \A i \in DOMAIN (t \o p) :
               \/ i \in DOMAIN t /\ (t \o p)[i] = t[i]
               \/ i \notin DOMAIN t /\ i - Len(t) \in DOMAIN p /\ (t \o p)[i] = p[i - Len(t)]
      BY <2>11, <2>13, Appended
    <3> QED BY <2>14, <3>1
  <2>16. Moved(1, s)
    <3>1. DOMAIN queue' = 1..Len(queue') /\ Len(queue') \in Nat
      BY <2>15
    <3>2. ASSUME NEW j \in DOMAIN queue'
          PROVE  \/ j + 1 \in DOMAIN queue /\ queue'[j] = queue[j + 1]
                 \/ /\ j + 1 \notin DOMAIN queue /\ queue'[j].k # "created"
                    /\ queue'[j].s = s /\ s \in H!Sess /\ H!Registered(s)
      <4>1. j \in Nat /\ j # 0
        BY <3>1
      <4>2. CASE j \in DOMAIN t
        BY <2>13, <2>15, <4>2
      <4>3. CASE j \notin DOMAIN t
        <5>1. j + 1 \notin DOMAIN queue
          BY <2>13, <4>1, <4>3
        <5>2. queue'[j].k # "created" /\ queue'[j].s = s
          BY <2>11, <2>15, <4>3
        <5> QED BY <2>1, <2>3, <5>1, <5>2
      <4> QED BY <4>2, <4>3
    <3>3. \A i \in DOMAIN queue : 1 < i => i - 1 \in DOMAIN queue'
      BY <2>13, <2>15
    <3> QED BY <3>1, <3>2, <3>3 DEF Moved
  <2>17. /\ InOrder' /\ InTurn' /\ Starting' \subseteq Starting
         /\ \A i \in DOMAIN queue' : queue'[i].s \in H!Sess
    BY <2>7, <2>16, MovedKeepsOrder
  <2>18. Present'
    <3>1. \A x \in H!Sess : sess'[x].members # {} => sess'[x].state # "gone"
      BY <2>5, <2>7 DEF HistoryInv, Present, H!Registered
    <3>2. \A q \in Uuid : found[q] # 0 =>
            found[q] \in H!Sess /\ sess'[found[q]].state # "gone" /\ sess'[found[q]].uuid = q
      BY <2>5, <2>7 DEF HistoryInv, Present, H!Registered
    <3> QED BY <1>5, <2>7, <3>1, <3>2 DEF Present, H!Registered
  <2>19. Copied'
    BY <1>5 DEF Copied, H!Idle
  <2>20. found' \in [Uuid -> Nat] /\ enters' \in Nat
    BY <1>5 DEF HistoryInv, HistoryTypes
  <2> QED BY <1>6, <2>7, <2>15, <2>17, <2>18, <2>19, <2>20, Keeps
<1> QED BY <1>5, <1>7, <1>8
-----------------------------------------------------------------------------
(* What was logged stays.                                                  *)

\* Steps that write to a log at most.
Writes == archive' = archive /\ (doc' = doc \/ \E e : doc' = H!Logged(e))

LEMMA SomewhereKept ==
  ASSUME \A r \in Uuid : H!Events(doc[r].log) \subseteq H!Events(doc'[r].log)
                         \/ \E s \in DOMAIN archive' : H!Events(doc[r].log) \subseteq H!Events(archive'[s])
                         \/ H!Events(doc[r].log) = {},
         \A s \in DOMAIN archive : s \in DOMAIN archive'
                                   /\ H!Events(archive[s]) \subseteq H!Events(archive'[s])
  PROVE  H!NothingLost
<1>1. ASSUME NEW e \in H!Everything PROVE e \in H!Everything'
  <2>1. \/ \E r \in Uuid : e \in H!Events(doc[r].log)
        \/ \E s \in DOMAIN archive : e \in H!Events(archive[s])
    BY <1>1 DEF H!Everything
  <2>2. \/ \E r \in Uuid : e \in H!Events(doc'[r].log)
        \/ \E s \in DOMAIN archive' : e \in H!Events(archive'[s])
    BY <2>1
  <2> QED BY <2>2 DEF H!Everything
<1> QED BY <1>1 DEF H!NothingLost

LEMMA WritesKeep == ASSUME HistoryInv, Writes PROVE H!NothingLost
<1>1. DOMAIN doc = Uuid /\ \A r \in Uuid : doc[r] = [of |-> doc[r].of, log |-> doc[r].log]
  BY DEF HistoryInv, HistoryTypes
<1>2. \A r \in Uuid : doc[r].log \subseteq doc'[r].log
  <2>1. ASSUME NEW e, doc' = H!Logged(e) PROVE \A r \in Uuid : doc[r].log \subseteq doc'[r].log
    <3>1. \A r \in Uuid : doc'[r].log = doc[r].log \/ doc'[r].log = doc[r].log \union {e}
      BY <1>1, <2>1, LoggedIs
    <3> QED BY <3>1
  <2> QED BY <2>1 DEF Writes
<1>3. \A r \in Uuid : H!Events(doc[r].log) \subseteq H!Events(doc'[r].log)
  BY <1>2 DEF H!Events
<1> QED BY <1>3, SomewhereKept DEF Writes

LEMMA OnCreatedKeeps == ASSUME H!HistoryAssumption, HistoryInv, H!OnCreated PROVE H!NothingLost
<1>1. /\ queue # <<>> /\ doc' = doc
      /\ \/ archive' = archive
         \/ \E r : /\ r = sess[Head(queue).s].uuid /\ doc[r].of # 0 /\ ~H!Copied(doc[r])
                   /\ archive' = [archive EXCEPT ![doc[r].of] = doc[r].log]
  BY DEF H!OnCreated, H!Next1, H!UnchangedRooms, H!Backup
<1>2. ASSUME NEW s \in DOMAIN archive
      PROVE  s \in DOMAIN archive' /\ H!Events(archive[s]) \subseteq H!Events(archive'[s])
  <2>1. CASE archive' = archive
    BY <2>1
  <2>2. ASSUME NEW r, doc[r].of # 0, ~H!Copied(doc[r]),
               archive' = [archive EXCEPT ![doc[r].of] = doc[r].log]
        PROVE  s \in DOMAIN archive' /\ H!Events(archive[s]) \subseteq H!Events(archive'[s])
    <3>1. PICK d : d = doc[r]
      OBVIOUS
    <3>2. DOMAIN archive' = DOMAIN archive /\ (s # d.of => archive'[s] = archive[s])
      BY <2>2, <3>1
    <3>3. s = d.of => archive[s] = {}
      BY <2>2, <3>1 DEF H!Copied
    <3> QED BY <3>2, <3>3 DEF H!Events
  <2> QED BY <1>1, <2>1, <2>2
<1> QED BY <1>1, <1>2, SomewhereKept

LEMMA UpsertKeeps == ASSUME H!HistoryAssumption, HistoryInv, H!Upsert PROVE H!NothingLost
<1>1. PICK r : r = sess[event.s].uuid
  OBVIOUS
<1>2. PICK n : n = H!NewLog(event.s)
  OBVIOUS
<1>3. event.k = "created" /\ archive' = archive /\ (doc' = doc \/ doc' = [doc EXCEPT ![r] = n])
  BY <1>1, <1>2 DEF H!Upsert
<1>4. DOMAIN doc = Uuid /\ \A q \in Uuid : q = r \/ doc'[q] = doc[q]
  BY <1>3 DEF HistoryInv, HistoryTypes
<1>5. ASSUME r \in Uuid
      PROVE  \/ \E s \in DOMAIN archive' : H!Events(doc[r].log) \subseteq H!Events(archive'[s])
             \/ H!Events(doc[r].log) = {}
  <2>1. CASE doc[r].of = 0
    BY <1>5, <2>1 DEF HistoryInv, Newest
  <2>2. CASE doc[r].of # 0
    <3>1. H!Events(doc[r].log) \subseteq archive[doc[r].of]
      BY <1>1, <1>3, <2>2 DEF HistoryInv, Copied
    <3>2. doc[r].of \in DOMAIN archive
      <4>1. doc[r].of \in H!Sess
        BY <1>5, <2>2 DEF HistoryInv, Newest
      <4>2. doc[r].of \in 1..MaxSess
        BY <4>1, SessionIs DEF HistoryInv
      <4> QED BY <4>2 DEF HistoryInv, HistoryTypes
    <3>3. H!Events(doc[r].log) \subseteq H!Events(archive[doc[r].of])
      BY <3>1 DEF H!Events
    <3> QED BY <1>3, <3>2, <3>3
  <2> QED BY <2>1, <2>2
<1> QED BY <1>3, <1>4, <1>5, SomewhereKept
-----------------------------------------------------------------------------
(* Users' lists of rooms.                                                  *)

\* Lists are of sessions, name a room once, and are not longer than they may be.
Proper(list) ==
  list \in Seq(H!Sess) /\ H!RoomsOnce(list) /\ Len(list) <= MaxHistory + 1

\* w is list with s before it, of whose room it has nothing else, cut at its end if
\* at all.
Renewed(w, list, s) ==
  /\ Proper(w) /\ w # <<>> /\ w[1] = s
  /\ \A i \in DOMAIN w : i # 1 => \E k \in DOMAIN list : w[i] = list[k] /\ list[k] \notin H!OfRoom(s)
  /\ \A k \in DOMAIN list : list[k] \notin H!OfRoom(s) =>
       (\E i \in DOMAIN w : i # 1 /\ w[i] = list[k]) \/ Len(w) = MaxHistory + 1
  /\ \A i \in DOMAIN w, k, j \in DOMAIN list :
       i # 1 /\ w[i] = list[k] /\ j < k /\ list[j] \notin H!OfRoom(s) =>
         \E l \in DOMAIN w : l < i /\ w[l] = list[j]
  /\ Len(list) = MaxHistory + 1 => Len(w) = MaxHistory + 1

LEMMA OfRoomIs ==
  ASSUME NEW s \in H!Sess, NEW t \in H!Sess
  PROVE  (t \in H!OfRoom(s)) = (sess[t].uuid = sess[s].uuid)
BY DEF H!OfRoom

\* The session entered goes first.
Shifted(more, all, s) ==
  /\ more[1] = s /\ 1 \in H!Latest(more)
  /\ \A n \in H!Latest(more) : n # 1 =>
       \E m \in H!Latest(all) : m = n - 1 /\ more[n] = all[m] /\ all[m] \notin H!OfRoom(s)
  /\ \A m \in H!Latest(all) : all[m] \notin H!OfRoom(s) =>
       m + 1 \in H!Latest(more) /\ more[m + 1] = all[m]

LEMMA Entered ==
  ASSUME NEW s \in H!Sess, NEW all \in Seq(H!Sess), NEW more, more = <<s>> \o all
  PROVE  more \in Seq(H!Sess) /\ Shifted(more, all, s)
<1>1. PICK z \in Nat : z = Len(all)
  OBVIOUS
<1>2. DOMAIN all = 1..z
  BY <1>1
<1>3. /\ more \in Seq(H!Sess) /\ DOMAIN more = 1..z + 1 /\ more[1] = s
      /\ \A n \in 1..z : more[n + 1] = all[n]
  <2>1. Len(more) = z + 1 /\ more \in Seq(H!Sess)
    BY <1>1
  <2> QED BY <1>1, <1>2, <2>1
<1>4. \A n \in 1..z : all[n] \in H!Sess
  BY <1>2
<1>5. 1 \in H!Latest(more)
  BY <1>3 DEF H!Latest
<1>6. ASSUME NEW n \in H!Latest(all), all[n] \notin H!OfRoom(s)
      PROVE  n + 1 \in H!Latest(more) /\ more[n + 1] = all[n]
  <2>1. n \in 1..z /\ \A j \in 1..n - 1 : all[j] \notin H!OfRoom(all[n])
    BY <1>2 DEF H!Latest
  <2>2. n + 1 \in 1..z + 1 /\ more[n + 1] = all[n]
    BY <1>3, <2>1
  <2>3. s \notin H!OfRoom(all[n])
    BY <1>4, <1>6, <2>1, OfRoomIs
  <2>4. ASSUME NEW j \in 1..(n + 1) - 1 PROVE more[j] \notin H!OfRoom(all[n])
    <3>1. CASE j = 1
      BY <1>3, <2>3, <3>1
    <3>2. CASE j # 1
      <4>1. j - 1 \in 1..n - 1 /\ j - 1 \in 1..z /\ (j - 1) + 1 = j
        BY <2>1, <3>2
      <4>2. more[j] = all[j - 1]
        BY <1>3, <4>1
      <4> QED BY <2>1, <4>1, <4>2
    <3> QED BY <3>1, <3>2
  <2> QED BY <1>3, <2>2, <2>4 DEF H!Latest
<1>7. ASSUME NEW n \in H!Latest(more), n # 1
      PROVE  n - 1 \in H!Latest(all) /\ more[n] = all[n - 1] /\ all[n - 1] \notin H!OfRoom(s)
  <2>1. n \in 1..z + 1 /\ \A j \in 1..n - 1 : more[j] \notin H!OfRoom(more[n])
    BY <1>3 DEF H!Latest
  <2>2. PICK m : m = n - 1
    OBVIOUS
  <2>3. m \in 1..z /\ n = m + 1 /\ 1 \in 1..n - 1
    BY <1>7, <2>1, <2>2
  <2>4. more[n] = all[m]
    BY <1>3, <2>3
  <2>5. all[m] \notin H!OfRoom(s)
    <3>1. s \notin H!OfRoom(all[m])
      BY <1>3, <2>1, <2>3, <2>4
    <3> QED BY <1>4, <2>3, <3>1, OfRoomIs
  <2>6. ASSUME NEW j \in 1..m - 1 PROVE all[j] \notin H!OfRoom(all[m])
    <3>1. j + 1 \in 1..n - 1 /\ j \in 1..z
      BY <2>3
    <3>2. more[j + 1] = all[j]
      BY <1>3, <3>1
    <3> QED BY <2>1, <2>4, <3>1, <3>2
  <2>7. m \in H!Latest(all)
    BY <1>2, <2>3, <2>6 DEF H!Latest
  <2> QED BY <2>2, <2>4, <2>5, <2>7
<1> QED BY <1>3, <1>5, <1>6, <1>7 DEF Shifted

LEMMA StillShows ==
  ASSUME NEW s \in H!Sess, NEW list, Proper(list), NEW all \in Seq(H!Sess), H!Shows(list, all),
         NEW w, Renewed(w, list, s), NEW more, more = <<s>> \o all
  PROVE  H!Shows(w, more)
<1>1. Shifted(more, all, s)
  BY Entered
<1>2. s \in H!OfRoom(s)
  BY OfRoomIs
<1>3. DOMAIN w = 1..Len(w) /\ Len(w) \in Nat /\ 1 \in DOMAIN w /\ w[1] = s
  BY DEF Renewed, Proper
<1>4. DOMAIN list = 1..Len(list) /\ Len(list) \in Nat
  BY DEF Proper
<1>5. \A n \in H!Latest(more) : n \in Nat /\ n >= 1
  <2>1. \A n \in H!Latest(more) : n \in DOMAIN more
    BY DEF H!Latest
  <2>2. DOMAIN more = 1..Len(all) + 1 /\ Len(all) \in Nat
    OBVIOUS
  <2> QED BY <2>1, <2>2
<1>6. ASSUME NEW i \in DOMAIN w PROVE \E n \in H!Latest(more) : more[n] = w[i]
  <2>1. CASE i = 1
    BY <1>1, <1>3, <2>1 DEF Shifted
  <2>2. CASE i # 1
    <3>1. PICK k \in DOMAIN list : w[i] = list[k] /\ list[k] \notin H!OfRoom(s)
      BY <2>2 DEF Renewed
    <3>2. PICK n \in H!Latest(all) : all[n] = list[k]
      BY DEF H!Shows
    <3> QED BY <1>1, <3>1, <3>2 DEF Shifted
  <2> QED BY <2>1, <2>2
<1>7. ASSUME NEW n \in H!Latest(more) PROVE more[n] \in H!ToSet(w) \/ Len(w) = MaxHistory + 1
  <2>1. CASE n = 1
    BY <1>1, <1>3, <2>1 DEF H!ToSet, Shifted
  <2>2. CASE n # 1
    <3>1. PICK p \in H!Latest(all) : more[n] = all[p] /\ all[p] \notin H!OfRoom(s)
      BY <1>1, <2>2 DEF Shifted
    <3>2. CASE Len(list) = MaxHistory + 1
      BY <3>2 DEF Renewed
    <3>3. CASE Len(list) # MaxHistory + 1
      <4>1. PICK k \in DOMAIN list : list[k] = all[p]
        BY <3>1, <3>3 DEF H!Shows, H!ToSet
      <4>2. (\E i \in DOMAIN w : i # 1 /\ w[i] = list[k]) \/ Len(w) = MaxHistory + 1
        BY <3>1, <4>1 DEF Renewed
      <4> QED BY <3>1, <4>1, <4>2 DEF H!ToSet
    <3> QED BY <3>2, <3>3
  <2> QED BY <2>1, <2>2
<1>8. ASSUME NEW n \in H!Latest(more), NEW m \in H!Latest(more), NEW i \in DOMAIN w,
             n < m, more[m] = w[i]
      PROVE  \E j \in 1..i - 1 : w[j] = more[n]
  <2>1. m # 1 /\ i \in Nat /\ i >= 1
    BY <1>3, <1>5, <1>8
  <2>2. PICK q \in H!Latest(all) : q = m - 1 /\ more[m] = all[q] /\ all[q] \notin H!OfRoom(s)
    BY <1>1, <2>1 DEF Shifted
  <2>3. i # 1
    BY <1>2, <1>3, <1>8, <2>2
  <2>4. PICK k \in DOMAIN list : w[i] = list[k]
    BY <2>3 DEF Renewed
  <2>5. CASE n = 1
    BY <1>1, <1>3, <2>1, <2>3, <2>5 DEF Shifted
  <2>6. CASE n # 1
    <3>1. PICK p \in H!Latest(all) : p = n - 1 /\ more[n] = all[p] /\ all[p] \notin H!OfRoom(s)
      BY <1>1, <2>6 DEF Shifted
    <3>2. p < q /\ all[q] = list[k]
      <4>1. n \in Nat /\ m \in Nat
        BY <1>5
      <4>2. p < q
        BY ONLY <1>8, <2>2, <3>1, <4>1
      <4> QED BY <1>8, <2>2, <2>4, <4>2
    <3>3. PICK j \in 1..k - 1 : list[j] = all[p]
      BY <3>2 DEF H!Shows
    <3>4. j \in DOMAIN list /\ j < k
      BY <1>4, <2>4, <3>3
    <3>5. PICK l \in DOMAIN w : l < i /\ w[l] = list[j]
      BY <2>3, <2>4, <3>1, <3>3, <3>4 DEF Renewed
    <3>6. l \in 1..i - 1
      BY <1>3, <2>1, <3>5
    <3> QED BY <3>1, <3>3, <3>5, <3>6
  <2> QED BY <2>5, <2>6
<1>9. \A n, m \in H!Latest(more) : \A i \in DOMAIN w :
        n < m /\ more[m] = w[i] => \E j \in 1..i - 1 : w[j] = more[n]
  BY <1>8
<1> QED BY <1>6, <1>7, <1>9 DEF H!Shows

\* What is left of a list without its c-th entry.
Omits(q, list, c) ==
  /\ DOMAIN q = 1..Len(q) /\ Len(q) \in Nat /\ Len(q) = Len(list) - 1
  /\ \A i \in DOMAIN q : /\ i < c => i \in DOMAIN list /\ q[i] = list[i]
                         /\ ~(i < c) => i + 1 \in DOMAIN list /\ q[i] = list[i + 1]
  /\ \A k \in DOMAIN list : /\ k < c => k \in DOMAIN q /\ q[k] = list[k]
                            /\ c < k => k - 1 \in DOMAIN q /\ q[k - 1] = list[k]

LEMMA OmitsIs ==
  ASSUME NEW M, NEW list \in Seq(M), NEW c \in DOMAIN list, NEW q, q = H!RemoveAt(list, c)
  PROVE  q \in Seq(M) /\ Omits(q, list, c)
<1>1. PICK n \in Nat : n = Len(list)
  OBVIOUS
<1>2. DOMAIN list = 1..n /\ c \in 1..n
  BY <1>1
<1>3. PICK a : a = SubSeq(list, 1, c - 1)
  OBVIOUS
<1>4. PICK b : b = SubSeq(list, c + 1, n)
  OBVIOUS
<1>5. q = a \o b
  BY <1>1, <1>3, <1>4 DEF H!RemoveAt
<1>6. a \in Seq(M) /\ Len(a) = c - 1 /\ \A i \in 1..c - 1 : a[i] = list[i]
  BY <1>1, <1>2, <1>3
<1>7. b \in Seq(M) /\ Len(b) = n - c /\ \A i \in 1..n - c : b[i] = list[c + i]
  BY <1>1, <1>2, <1>4
<1>8. /\ q \in Seq(M) /\ Len(q) = Len(a) + Len(b)
      /\ \A i \in 1..Len(a) + Len(b) : q[i] = IF i <= Len(a) THEN a[i] ELSE b[i - Len(a)]
  <2>1. a \in Seq(M) /\ b \in Seq(M)
    BY <1>6, <1>7
  <2> QED BY ONLY <1>5, <2>1, ConcatProperties
<1>9. Len(q) = n - 1 /\ DOMAIN q = 1..n - 1
  <2>1. Len(a) = c - 1 /\ Len(b) = n - c /\ Len(q) = Len(a) + Len(b) /\ c \in Int /\ n \in Int
    BY <1>1, <1>2, <1>6, <1>7, <1>8
  <2>2. Len(q) = n - 1
    BY ONLY <2>1
  <2>3. DOMAIN q = 1..Len(q)
    BY <1>8
  <2> QED BY <2>2, <2>3
<1>10. ASSUME NEW i \in 1..n - 1 PROVE q[i] = IF i < c THEN list[i] ELSE list[i + 1]
  <2>1. i \in 1..Len(a) + Len(b) /\ (i < c <=> i <= Len(a)) /\ i \in Int
    BY ONLY <1>1, <1>2, <1>6, <1>7, i \in 1..n - 1
  <2>2. CASE i < c
    <3>1. i \in 1..c - 1
      BY ONLY <1>1, <1>2, <2>1, <2>2
    <3> QED BY <1>6, <1>8, <2>1, <2>2, <3>1
  <2>3. CASE ~(i < c)
    <3>1. i - Len(a) \in 1..n - c /\ c + (i - Len(a)) = i + 1
      BY ONLY <1>1, <1>2, <1>6, i \in 1..n - 1, <2>3
    <3>2. q[i] = b[i - Len(a)]
      BY <1>8, <2>1, <2>3
    <3>3. b[i - Len(a)] = list[c + (i - Len(a))]
      BY <1>7, <3>1
    <3> QED BY <2>3, <3>1, <3>2, <3>3
  <2> QED BY <2>2, <2>3
<1>11. \A i \in DOMAIN q : /\ i < c => i \in DOMAIN list /\ q[i] = list[i]
                           /\ ~(i < c) => i + 1 \in DOMAIN list /\ q[i] = list[i + 1]
  BY ONLY <1>1, <1>2, <1>9, <1>10
<1>12. ASSUME NEW k \in DOMAIN list
       PROVE  /\ k < c => k \in DOMAIN q /\ q[k] = list[k]
              /\ c < k => k - 1 \in DOMAIN q /\ q[k - 1] = list[k]
  <2>1. k \in 1..n /\ k \in Int /\ c \in Int
    BY <1>2
  <2>2. ASSUME k < c PROVE k \in DOMAIN q /\ q[k] = list[k]
    <3>1. k \in 1..n - 1
      BY ONLY <1>2, <2>1, <2>2, <1>1
    <3> QED BY <1>9, <1>10, <2>2, <3>1
  <2>3. ASSUME c < k PROVE k - 1 \in DOMAIN q /\ q[k - 1] = list[k]
    <3>1. k - 1 \in 1..n - 1 /\ ~(k - 1 < c) /\ (k - 1) + 1 = k
      BY ONLY <1>2, <2>1, <2>3, <1>1
    <3> QED BY <1>9, <1>10, <3>1
  <2> QED BY <2>2, <2>3
<1> QED BY <1>1, <1>8, <1>9, <1>11, <1>12 DEF Omits

LEMMA NotOfRoomIs ==
  ASSUME NEW list, Proper(list), NEW s \in H!Sess, NEW q, q = H!NotOfRoom(list, s)
  PROVE  /\ Proper(q)
         /\ \/ q = list /\ \A i \in DOMAIN list : list[i] \notin H!OfRoom(s)
            \/ \E c \in DOMAIN list :
                 /\ list[c] \in H!OfRoom(s) /\ Omits(q, list, c)
                 /\ \A i \in DOMAIN list : i # c => list[i] \notin H!OfRoom(s)
<1>1. list \in Seq(H!Sess) /\ DOMAIN list = 1..Len(list) /\ Len(list) \in Nat
  BY DEF Proper
<1>2. PICK own : own = {i \in 1..Len(list) : list[i] \in H!OfRoom(s)}
  OBVIOUS
<1>3. H!SelectInSeq(list, LAMBDA t : t \in H!OfRoom(s)) = IF own # {} THEN H!Min(own) ELSE 0
  BY <1>2 DEF H!SelectInSeq
<1>4. q = IF own # {} THEN H!RemoveAt(list, H!Min(own)) ELSE list
  BY <1>2, <1>3 DEF H!NotOfRoom, H!RemoveFirstMatch
<1>5. CASE own = {}
  BY <1>1, <1>2, <1>4, <1>5
<1>6. CASE own # {}
  <2>1. PICK c \in own : TRUE
    BY <1>6
  <2>2. ASSUME NEW i \in own PROVE i = c
    <3>1. sess[list[i]].uuid = sess[list[c]].uuid
      BY <1>1, <1>2, OfRoomIs
    <3>2. list[i] \in H!OfRoom(list[c])
      BY <1>1, <1>2, <3>1, OfRoomIs
    <3> QED BY <1>1, <1>2, <3>2 DEF Proper, H!RoomsOnce
  <2>3. own = {c} /\ c \in DOMAIN list /\ c \in Nat
    BY <1>1, <1>2, <2>1, <2>2
  <2>4. H!Min(own) = c
    BY <2>3 DEF H!Min
  <2>5. q \in Seq(H!Sess) /\ Omits(q, list, c)
    BY <1>1, <1>4, <1>6, <2>3, <2>4, OmitsIs
  <2>6. H!RoomsOnce(q)
    <3>1. ASSUME NEW i \in DOMAIN q, NEW j \in DOMAIN q, q[i] \in H!OfRoom(q[j]) PROVE i = j
      <4>1. i \in Nat /\ j \in Nat
        BY <2>5 DEF Omits
      <4>2. \A x, y \in DOMAIN list : list[x] \in H!OfRoom(list[y]) => x = y
        BY DEF Proper, H!RoomsOnce
      <4>3. /\ i < c => i \in DOMAIN list /\ q[i] = list[i]
            /\ ~(i < c) => i + 1 \in DOMAIN list /\ q[i] = list[i + 1]
        BY <2>5 DEF Omits
      <4>4. /\ j < c => j \in DOMAIN list /\ q[j] = list[j]
            /\ ~(j < c) => j + 1 \in DOMAIN list /\ q[j] = list[j + 1]
        BY <2>5 DEF Omits
      <4> QED BY ONLY <2>3, <3>1, <4>1, <4>2, <4>3, <4>4
    <3> QED BY <3>1 DEF H!RoomsOnce
  <2>7. Len(q) <= MaxHistory + 1
    <3>1. MaxHistory \in Nat
      BY RoomsAssumption DEF H!HistoryAssumption
    <3> QED BY <1>1, <2>5, <3>1 DEF Omits, Proper
  <2>8. list[c] \in H!OfRoom(s) /\ \A i \in DOMAIN list : i # c => list[i] \notin H!OfRoom(s)
    BY <1>1, <1>2, <2>3
  <2> QED BY <2>3, <2>5, <2>6, <2>7, <2>8 DEF Proper
<1> QED BY <1>5, <1>6

\* w is q with s before it.
Headed(w, q, s) ==
  /\ w \in Seq(H!Sess) /\ w # <<>> /\ w[1] = s /\ Len(w) = Len(q) + 1 /\ Len(w) \in Nat
  /\ \A i \in DOMAIN w : i # 1 => \E x \in DOMAIN q : i = x + 1 /\ w[i] = q[x]
  /\ \A x \in DOMAIN q : x + 1 \in DOMAIN w /\ x + 1 # 1 /\ w[x + 1] = q[x]

LEMMA HeadedIs ==
  ASSUME NEW s \in H!Sess, NEW q \in Seq(H!Sess), NEW w, w = <<s>> \o q
  PROVE  Headed(w, q, s)
<1>1. PICK z \in Nat : z = Len(q)
  OBVIOUS
<1>2. w \in Seq(H!Sess) /\ Len(w) = z + 1 /\ DOMAIN q = 1..z
  BY <1>1
<1>3. DOMAIN w = 1..z + 1
  BY <1>2
<1>4. w[1] = s /\ \A x \in 1..z : w[x + 1] = q[x]
  BY <1>1
<1>5. ASSUME NEW i \in DOMAIN w, i # 1 PROVE \E x \in DOMAIN q : i = x + 1 /\ w[i] = q[x]
  <2>1. i - 1 \in 1..z /\ i = (i - 1) + 1
    BY <1>3, <1>5
  <2> QED BY <1>2, <1>4, <2>1
<1>6. \A x \in DOMAIN q : x + 1 \in DOMAIN w /\ x + 1 # 1 /\ w[x + 1] = q[x]
  BY <1>2, <1>3, <1>4
<1>7. w # <<>>
  BY <1>2
<1> QED BY <1>1, <1>2, <1>4, <1>5, <1>6, <1>7 DEF Headed

LEMMA HeadedProper ==
  ASSUME NEW s \in H!Sess, NEW q, Proper(q), Len(q) + 1 <= MaxHistory + 1,
         \A i \in DOMAIN q : q[i] \notin H!OfRoom(s), NEW w, Headed(w, q, s)
  PROVE  Proper(w)
<1>1. \A i \in DOMAIN q : q[i] \in H!Sess /\ i \in Nat
  BY DEF Proper
<1>2. ASSUME NEW i \in DOMAIN w, NEW j \in DOMAIN w, w[i] \in H!OfRoom(w[j]) PROVE i = j
  <2>1. i = 1 \/ \E x \in DOMAIN q : i = x + 1 /\ w[i] = q[x]
    BY DEF Headed
  <2>2. j = 1 \/ \E x \in DOMAIN q : j = x + 1 /\ w[j] = q[x]
    BY DEF Headed
  <2>3. w[1] = s
    BY DEF Headed
  <2>4. \A x \in DOMAIN q : s \notin H!OfRoom(q[x])
    BY <1>1, OfRoomIs
  <2>5. \A x, y \in DOMAIN q : q[x] \in H!OfRoom(q[y]) => x = y
    BY DEF Proper, H!RoomsOnce
  <2> QED BY <1>2, <2>1, <2>2, <2>3, <2>4, <2>5
<1> QED BY <1>2 DEF Proper, Headed, H!RoomsOnce

\* Whoever is in a list twice is one room twice.
LEMMA Alike ==
  ASSUME NEW list \in Seq(H!Sess), \A x, y \in DOMAIN list : list[x] \in H!OfRoom(list[y]) => x = y,
         NEW i \in DOMAIN list, NEW j \in DOMAIN list, list[i] = list[j]
  PROVE  i = j
<1>1. list[i] \in H!Sess /\ list[j] \in H!Sess
  OBVIOUS
<1>2. list[i] \in H!OfRoom(list[j])
  BY <1>1, OfRoomIs
<1> QED BY <1>2

LEMMA RecentIs ==
  ASSUME NEW list, Proper(list), NEW s \in H!Sess, NEW w, w = H!Recent(list, s)
  PROVE  Renewed(w, list, s)
<1>1. MaxHistory \in Nat /\ MaxHistory # 0
  BY RoomsAssumption DEF H!HistoryAssumption
<1>2. list \in Seq(H!Sess) /\ DOMAIN list = 1..Len(list) /\ Len(list) \in Nat /\ Len(list) <= MaxHistory + 1
  BY DEF Proper
<1>3. \A x, y \in DOMAIN list : list[x] \in H!OfRoom(list[y]) => x = y
  BY DEF Proper, H!RoomsOnce
<1>4. PICK cut : cut = H!Shortened(list)
  OBVIOUS
<1>5. PICK z \in Nat : /\ z = IF Len(list) < MaxHistory THEN Len(list) ELSE MaxHistory
                       /\ z <= Len(list) /\ z <= MaxHistory
  <2>1. \A x, y \in Nat : /\ (IF x < y THEN x ELSE y) \in Nat
                           /\ (IF x < y THEN x ELSE y) <= x /\ (IF x < y THEN x ELSE y) <= y
    OBVIOUS
  <2> QED BY <1>1, <1>2, <2>1
<1>6. /\ cut \in Seq(H!Sess) /\ Len(cut) = z /\ DOMAIN cut = 1..z /\ 1..z \subseteq DOMAIN list
      /\ \A i \in 1..z : cut[i] = list[i]
  <2>1. cut = SubSeq(list, 1, z)
    BY <1>4, <1>5 DEF H!Shortened
  <2>2. z <= Len(list)
    BY <1>5
  <2>3. cut \in Seq(H!Sess) /\ Len(cut) = z /\ \A i \in 1..z : cut[i] = list[i]
    BY <1>2, <2>1, <2>2
  <2> QED BY <1>2, <2>2, <2>3
<1>7. PICK rest : w = <<s>> \o rest /\ IF H!ToSet(cut) \cap H!OfRoom(s) # {}
                                      THEN rest = H!NotOfRoom(list, s) ELSE rest = cut
  BY <1>4 DEF H!Recent
<1>8. PICK q : q = H!NotOfRoom(list, s)
  OBVIOUS
<1>9. /\ Proper(q)
      /\ \/ q = list /\ \A i \in DOMAIN list : list[i] \notin H!OfRoom(s)
         \/ \E c \in DOMAIN list :
              /\ list[c] \in H!OfRoom(s) /\ Omits(q, list, c)
              /\ \A i \in DOMAIN list : i # c => list[i] \notin H!OfRoom(s)
  BY <1>8, NotOfRoomIs
<1>10. CASE H!ToSet(cut) \cap H!OfRoom(s) # {}
  <2>1. PICK i0 \in DOMAIN cut : cut[i0] \in H!OfRoom(s)
    BY <1>10 DEF H!ToSet
  <2>2. PICK c \in DOMAIN list : /\ list[c] \in H!OfRoom(s) /\ Omits(q, list, c)
                                /\ \A i \in DOMAIN list : i # c => list[i] \notin H!OfRoom(s)
    BY <1>6, <1>9, <2>1
  <2>3. ASSUME NEW i \in DOMAIN q
        PROVE  \E k \in DOMAIN list : /\ q[i] = list[k] /\ k # c
                                      /\ \A j \in DOMAIN list : j < k /\ j # c =>
                                           \E l \in DOMAIN q : l < i /\ q[l] = list[j]
    <3>1. i \in Nat /\ c \in Nat /\ i >= 1
      BY <1>2, <2>2 DEF Omits
    <3>2. PICK k \in DOMAIN list : q[i] = list[k] /\ k = IF i < c THEN i ELSE i + 1
      BY <2>2 DEF Omits
    <3>3. ASSUME NEW j \in DOMAIN list, j < k, j # c PROVE \E l \in DOMAIN q : l < i /\ q[l] = list[j]
      <4>1. j \in Nat
        BY <1>2
      <4>2. CASE j < c
        <5>1. j \in DOMAIN q /\ q[j] = list[j]
          BY <2>2, <4>2 DEF Omits
        <5>2. j < i
          BY ONLY <3>1, <3>2, <3>3, <4>1, <4>2
        <5> QED BY <5>1, <5>2
      <4>3. CASE c < j
        <5>1. j - 1 \in DOMAIN q /\ q[j - 1] = list[j]
          BY <2>2, <4>3 DEF Omits
        <5>2. j - 1 < i
          BY ONLY <3>1, <3>2, <3>3, <4>1, <4>3
        <5> QED BY <5>1, <5>2
      <4> QED BY <3>1, <3>3, <4>1, <4>2, <4>3
    <3>4. k # c
      BY ONLY <3>1, <3>2
    <3> QED BY <3>2, <3>3, <3>4
  <2>4. \A k \in DOMAIN list : k # c => \E i \in DOMAIN q : q[i] = list[k]
    <3>1. \A k \in DOMAIN list : k # c => k < c \/ c < k
      BY <1>2, <2>2
    <3> QED BY <2>2, <3>1 DEF Omits
  <2>5. rest = q /\ Len(q) + 1 = Len(list)
    <3>1. Len(q) + 1 = Len(list)
      BY <1>2, <2>2 DEF Omits
    <3> QED BY <1>7, <1>8, <1>10, <3>1
  <2>6. Headed(w, q, s)
    BY <1>7, <1>9, <2>5, HeadedIs DEF Proper
  <2>7. \A i \in DOMAIN q : q[i] \notin H!OfRoom(s)
    BY <2>2, <2>3
  <2>8. Proper(w)
    BY <1>2, <1>9, <2>5, <2>6, <2>7, HeadedProper
  <2>9. \A k \in DOMAIN list : list[k] \notin H!OfRoom(s) => k # c
    BY <2>2
  <2>10. ASSUME NEW i \in DOMAIN w, i # 1
         PROVE  \E k \in DOMAIN list : w[i] = list[k] /\ list[k] \notin H!OfRoom(s)
    <3>1. PICK x \in DOMAIN q : w[i] = q[x]
      BY <2>6, <2>10 DEF Headed
    <3> QED BY <2>2, <2>3, <3>1
  <2>11. ASSUME NEW k \in DOMAIN list, list[k] \notin H!OfRoom(s)
         PROVE  \E i \in DOMAIN w : i # 1 /\ w[i] = list[k]
    <3>1. PICK x \in DOMAIN q : q[x] = list[k]
      BY <2>4, <2>9, <2>11
    <3> QED BY <2>6, <3>1 DEF Headed
  <2>12. ASSUME NEW i \in DOMAIN w, NEW k \in DOMAIN list, NEW j \in DOMAIN list,
                i # 1, w[i] = list[k], j < k, list[j] \notin H!OfRoom(s)
         PROVE  \E l \in DOMAIN w : l < i /\ w[l] = list[j]
    <3>1. PICK x \in DOMAIN q : i = x + 1 /\ w[i] = q[x]
      BY <2>6, <2>12 DEF Headed
    <3>2. PICK y \in DOMAIN list : /\ q[x] = list[y] /\ y # c
                                   /\ \A n \in DOMAIN list : n < y /\ n # c =>
                                        \E l \in DOMAIN q : l < x /\ q[l] = list[n]
      BY <2>3
    <3>3. y = k
      BY <1>2, <1>3, <2>12, <3>1, <3>2, Alike
    <3>4. PICK l \in DOMAIN q : l < x /\ q[l] = list[j]
      BY <2>9, <2>12, <3>2, <3>3
    <3>5. l + 1 \in DOMAIN w /\ w[l + 1] = q[l]
      BY <2>6 DEF Headed
    <3>6. l + 1 < i
      BY <1>9, <3>1, <3>4 DEF Proper
    <3> QED BY <3>4, <3>5, <3>6
  <2>13. w # <<>> /\ w[1] = s /\ Len(w) = Len(list)
    BY <2>5, <2>6 DEF Headed
  <2> QED BY <2>8, <2>10, <2>11, <2>12, <2>13 DEF Renewed
<1>11. CASE H!ToSet(cut) \cap H!OfRoom(s) = {}
  <2>1. Headed(w, cut, s)
    BY <1>6, <1>7, <1>11, HeadedIs
  <2>2. \A i \in DOMAIN cut : cut[i] \notin H!OfRoom(s)
    BY <1>11 DEF H!ToSet
  <2>3. Proper(cut) /\ Len(cut) <= MaxHistory
    <3>1. H!RoomsOnce(cut)
      BY <1>3, <1>6 DEF H!RoomsOnce
    <3>2. z <= MaxHistory /\ z <= MaxHistory + 1
      BY ONLY <1>1, <1>5, z \in Nat
    <3> QED BY <1>6, <3>1, <3>2 DEF Proper
  <2>4. Proper(w)
    BY <1>1, <2>1, <2>2, <2>3, HeadedProper
  <2>5. ASSUME NEW i \in DOMAIN w, i # 1
        PROVE  i - 1 \in 1..z /\ i - 1 \in DOMAIN list /\ w[i] = list[i - 1]
    <3>1. PICK x \in DOMAIN cut : i = x + 1 /\ w[i] = cut[x]
      BY <2>1, <2>5 DEF Headed
    <3>2. x \in 1..z /\ x = i - 1
      BY <1>6, <3>1
    <3> QED BY <1>6, <3>1, <3>2
  <2>6. \A i \in DOMAIN w : i # 1 => list[i - 1] \notin H!OfRoom(s)
    BY <1>6, <2>2, <2>5
  <2>7. Len(w) = z + 1 /\ w # <<>> /\ w[1] = s
    BY <1>6, <2>1 DEF Headed
  <2>8. ASSUME NEW k \in 1..z PROVE k + 1 \in DOMAIN w /\ k + 1 # 1 /\ w[k + 1] = list[k]
    <3>1. k \in DOMAIN cut /\ k # 0 /\ k \in Nat
      BY <1>6
    <3>2. k + 1 \in DOMAIN w /\ w[k + 1] = cut[k]
      BY <2>1, <3>1 DEF Headed
    <3> QED BY <1>6, <3>1, <3>2
  <2>9. ASSUME NEW k \in DOMAIN list, Len(w) # MaxHistory + 1
        PROVE  \E i \in DOMAIN w : i # 1 /\ w[i] = list[k]
    <3>1. z # MaxHistory
      BY <1>1, <2>7, <2>9
    <3>2. k \in 1..z
      BY <1>2, <1>5, <3>1
    <3> QED BY <2>8, <3>2
  <2>10. ASSUME NEW i \in DOMAIN w, NEW k \in DOMAIN list, NEW j \in DOMAIN list,
                i # 1, w[i] = list[k], j < k
         PROVE  \E l \in DOMAIN w : l < i /\ w[l] = list[j]
    <3>1. i - 1 = k /\ k \in 1..z
      <4>1. i - 1 \in DOMAIN list /\ list[i - 1] = list[k] /\ i - 1 \in 1..z
        BY <2>5, <2>10
      <4> QED BY <1>2, <1>3, <4>1, Alike
    <3>2. j \in 1..z /\ j \in Nat
      BY <1>2, <2>10, <3>1
    <3>3. i \in Nat
      BY <2>4 DEF Proper
    <3>4. j + 1 \in DOMAIN w /\ w[j + 1] = list[j] /\ j + 1 < i
      BY <2>8, <2>10, <3>1, <3>2, <3>3
    <3> QED BY <3>4
  <2>11. Len(list) = MaxHistory + 1 => Len(w) = MaxHistory + 1
    BY <1>1, <1>5, <2>7
  <2>12. \A i \in DOMAIN w : i # 1 => \E k \in DOMAIN list : w[i] = list[k] /\ list[k] \notin H!OfRoom(s)
    BY <2>5, <2>6
  <2> QED BY <2>4, <2>7, <2>9, <2>10, <2>11, <2>12 DEF Renewed
<1> QED BY <1>10, <1>11

\* Lists are proper, and those no request has written show what was entered.
Lists ==
  /\ DOMAIN rooms = User /\ DOMAIN entered = User /\ DOMAIN asked = User
  /\ \A u \in User : Proper(rooms[u]) /\ entered[u] \in Seq(H!Sess)
  /\ \A u \in User : u \notin touched => H!Shows(rooms[u], entered[u])

\* The event thread has the list as it is, unless a request may write it.
OnHand ==
  /\ event.k \in {"joined", "rooms"} => event.s \in H!Sess /\ event.m.user \in User
  /\ event.k = "rooms" =>
       Proper(event.list) /\ (event.m.user \notin touched => event.list = rooms[event.m.user])

\* A request writes to the list of a user who is said to have been written to.
Asking ==
  \A u \in User :
    /\ asked[u].k \in {"rename", "renaming", "named"} => \A m \in asked[u].whom : m.user \in User
    /\ asked[u].k = "named" => asked[u].user \in touched /\ Proper(asked[u].list)
    /\ asked[u].k = "remove" => u \in touched /\ Proper(asked[u].list)

ListsInv == Lists /\ OnHand /\ Asking

\* Sessions keep their uuids.
Grows == H!Sess \subseteq H!Sess' /\ \A s \in H!Sess : sess'[s].uuid = sess[s].uuid

LEMMA ProperNext ==
  ASSUME Grows, NEW l, Proper(l)
  PROVE  /\ \A u : rooms'[u] = l => Proper(rooms[u])'
         /\ event'.list = l => Proper(event.list)'
         /\ \A u : asked'[u].list = l => Proper(asked[u].list)'
<1>1. l \in Seq(H!Sess) /\ \A i \in DOMAIN l : l[i] \in H!Sess
  BY DEF Proper
<1>2. l \in Seq(H!Sess')
  <2>1. PICK S : S = H!Sess'
    OBVIOUS
  <2>2. l \in Seq(S)
    BY <1>1, <2>1 DEF Grows
  <2> QED BY <2>1, <2>2
<1>3. \A i, j \in DOMAIN l : sess'[l[i]].uuid = sess'[l[j]].uuid => i = j
  <2>1. \A i, j \in DOMAIN l : sess[l[i]].uuid = sess[l[j]].uuid => i = j
    BY <1>1 DEF Proper, H!RoomsOnce, H!OfRoom
  <2> QED BY <1>1, <2>1 DEF Grows
<1>4. Len(l) <= MaxHistory + 1
  BY DEF Proper
<1>5. \A u : rooms'[u] = l => Proper(rooms[u])'
  BY <1>2, <1>3, <1>4 DEF Proper, H!RoomsOnce, H!OfRoom
<1>6. event'.list = l => Proper(event.list)'
  BY <1>2, <1>3, <1>4 DEF Proper, H!RoomsOnce, H!OfRoom
<1>7. \A u : asked'[u].list = l => Proper(asked[u].list)'
  BY <1>2, <1>3, <1>4 DEF Proper, H!RoomsOnce, H!OfRoom
<1> QED BY <1>5, <1>6, <1>7

LEMMA ShowsNext ==
  ASSUME Grows, NEW u, NEW l, NEW a, rooms'[u] = l, entered'[u] = a,
         l \in Seq(H!Sess), a \in Seq(H!Sess), H!Shows(l, a)
  PROVE  H!Shows(rooms[u], entered[u])'
<1>1. \A i \in DOMAIN a : a[i] \in H!Sess
  OBVIOUS
<1>2. DOMAIN a = 1..Len(a) /\ Len(a) \in Nat
  OBVIOUS
<1>3. PICK last : last = H!Latest(a)
  OBVIOUS
<1>4. last = {n \in DOMAIN a : \A j \in 1..n - 1 : ~(a[j] \in H!Sess /\ sess[a[j]].uuid = sess[a[n]].uuid)}
  BY <1>3 DEF H!Latest, H!OfRoom
<1>5. last = {n \in DOMAIN a : \A j \in 1..n - 1 : ~(a[j] \in H!Sess' /\ sess'[a[j]].uuid = sess'[a[n]].uuid)}
  <2>1. \A n \in DOMAIN a : \A j \in 1..n - 1 : j \in DOMAIN a
    BY <1>2
  <2> QED BY <1>1, <1>4, <2>1 DEF Grows
<1>6. H!Latest(entered[u])' = last
  BY <1>5 DEF H!Latest, H!OfRoom
<1> QED BY <1>3, <1>6 DEF H!Shows

LEMMA KeepLists ==
  ASSUME Lists, Grows, UNCHANGED <<rooms, entered>>, touched \subseteq touched', DOMAIN asked' = User
  PROVE  Lists'
<1>1. ASSUME NEW u \in User PROVE Proper(rooms[u])' /\ entered'[u] \in Seq(H!Sess')
  <2>1. Proper(rooms[u])'
    <3>1. PICK l : l = rooms[u]
      OBVIOUS
    <3>2. Proper(l) /\ rooms'[u] = l
      BY <3>1 DEF Lists
    <3> QED BY <3>2, ProperNext
  <2>2. PICK S : S = H!Sess'
    OBVIOUS
  <2>3. entered[u] \in Seq(S)
    BY <2>2 DEF Lists, Grows
  <2> QED BY <2>1, <2>2, <2>3
<1>2. ASSUME NEW u \in User, u \notin touched' PROVE H!Shows(rooms[u], entered[u])'
  <2>1. PICK l : l = rooms[u]
    OBVIOUS
  <2>2. PICK a : a = entered[u]
    OBVIOUS
  <2>3. rooms'[u] = l /\ entered'[u] = a /\ l \in Seq(H!Sess) /\ a \in Seq(H!Sess) /\ H!Shows(l, a)
    BY <1>2, <2>1, <2>2 DEF Lists, Proper
  <2> QED BY <2>3, ShowsNext
<1> QED BY <1>1, <1>2 DEF Lists

LEMMA KeepEvent ==
  ASSUME OnHand, Grows, event' = event \/ event'.k \notin {"joined", "rooms"},
         touched \subseteq touched', \A u \in User : u \notin touched' => rooms'[u] = rooms[u]
  PROVE  OnHand'
<1>1. ASSUME event'.k = "rooms" PROVE Proper(event.list)'
  <2>1. PICK l : l = event.list
    OBVIOUS
  <2>2. event' = event /\ Proper(l) /\ event'.list = l
    BY <1>1, <2>1 DEF OnHand
  <2> QED BY <2>2, ProperNext
<1> QED BY <1>1 DEF OnHand, Grows

LEMMA KeepAsking ==
  ASSUME Asking, Grows, touched \subseteq touched',
         NEW u \in User, asked'[u] = asked[u] \/ asked'[u].k = "none"
  PROVE  /\ asked'[u].k \in {"rename", "renaming", "named"} => \A m \in asked'[u].whom : m.user \in User
         /\ asked'[u].k = "named" => asked'[u].user \in touched' /\ Proper(asked[u].list)'
         /\ asked'[u].k = "remove" => u \in touched' /\ Proper(asked[u].list)'
<1>1. ASSUME asked'[u].k \in {"named", "remove"} PROVE Proper(asked[u].list)'
  <2>1. PICK l : l = asked[u].list
    OBVIOUS
  <2>2. Proper(l) /\ asked'[u].list = l
    BY <1>1, <2>1 DEF Asking
  <2> QED BY <2>2, ProperNext
<1> QED BY <1>1 DEF Asking

LEMMA ListsStart == ASSUME H!HistoryAssumption, H!Init PROVE ListsInv
<1>1. MaxHistory \in Nat
  BY DEF H!HistoryAssumption
<1>2. PICK r0 : rooms = r0 /\ entered = r0 /\ DOMAIN r0 = User /\ DOMAIN asked = User
                /\ \A u \in User : asked[u].k = "none"
  BY DEF H!Init, H!Idle
<1>3. ASSUME NEW u \in User PROVE r0[u] = <<>> \/ (r0[u] = <<1>> /\ 1 \in H!Sess)
  <2>1. CASE sess = <<>>
    <3>1. H!Sess = {}
      BY <2>1 DEF H!Sess
    <3> QED BY <1>2, <3>1 DEF H!Init
  <2>2. CASE sess # <<>>
    <3>1. \E x : sess = <<x>>
      BY <2>2 DEF H!Init
    <3>2. H!Sess = {1}
      BY <3>1 DEF H!Sess
    <3> QED BY <1>2, <3>2 DEF H!Init
  <2> QED BY <2>1, <2>2
<1>4. ASSUME NEW u \in User PROVE Proper(r0[u]) /\ H!Shows(r0[u], r0[u])
  <2>1. CASE r0[u] = <<>>
    BY <1>1, <2>1 DEF Proper, H!RoomsOnce, H!Shows, H!Latest
  <2>2. CASE r0[u] = <<1>> /\ 1 \in H!Sess
    <3>1. PICK l : l = r0[u]
      OBVIOUS
    <3>2. l \in Seq(H!Sess) /\ DOMAIN l = {1} /\ l[1] = 1 /\ Len(l) = 1
      BY <2>2, <3>1
    <3>3. Proper(l)
      BY <1>1, <3>2 DEF Proper, H!RoomsOnce
    <3>4. \A n \in H!Latest(l) : n = 1
      BY <3>2 DEF H!Latest
    <3>5. 1 \in H!Latest(l)
      BY <3>2 DEF H!Latest
    <3>6. H!Shows(l, l)
      BY <3>2, <3>4, <3>5 DEF H!Shows, H!ToSet
    <3> QED BY <3>1, <3>3, <3>6
  <2> QED BY <1>3, <2>1, <2>2
<1>5. Lists
  BY <1>2, <1>4 DEF Lists, Proper
<1>6. OnHand /\ Asking
  BY <1>2 DEF OnHand, Asking, H!Init, H!Idle
<1> QED BY <1>5, <1>6 DEF ListsInv

LEMMA SameGrows == ASSUME sess' = sess PROVE Grows
BY DEF Grows, H!Sess

\* Rooms and members come and go, events are given up: no list is touched.
LEMMA UntouchedLists ==
  ASSUME ListsInv, Grows, UNCHANGED <<rooms, entered, touched>>,
         event' = event \/ event'.k \notin {"joined", "rooms"},
         DOMAIN asked' = User, \A u \in User : asked'[u] = asked[u] \/ asked'[u].k = "none"
  PROVE  ListsInv'
<1>1. Lists /\ OnHand /\ Asking /\ touched \subseteq touched'
  BY DEF ListsInv
<1>2. Lists'
  BY <1>1, KeepLists
<1>3. OnHand'
  BY <1>1, KeepEvent
<1>4. Asking'
  <2>1. \A u \in User :
         /\ asked'[u].k \in {"rename", "renaming", "named"} => \A m \in asked'[u].whom : m.user \in User
         /\ asked'[u].k = "named" => asked'[u].user \in touched' /\ Proper(asked[u].list)'
         /\ asked'[u].k = "remove" => u \in touched' /\ Proper(asked[u].list)'
    BY <1>1, KeepAsking
  <2> QED BY <2>1 DEF Asking
<1> QED BY <1>2, <1>3, <1>4 DEF ListsInv

LEMMA RoomsMove ==
  ASSUME HistoryTypes, HistoryTypes', ListsInv,
         \/ \E u \in User, r \in Uuid : H!Open(u, r) \/ H!Enter(u, r)
         \/ \E s \in H!Sess : \E m \in sess[s].members : H!Leave(s, m)
         \/ \E s \in H!Sess : H!AskClose(s) \/ H!Dispose(s)
         \/ H!Restart \/ H!OnRouterClosed
  PROVE  ListsInv'
<1>1. /\ sess \in Seq(SessRec) /\ DOMAIN sess = 1..Len(sess) /\ H!Sess = DOMAIN sess
      /\ \A s \in DOMAIN sess : sess[s] \in SessRec
  <2>1. sess \in Seq(SessRec)
    BY DEF HistoryTypes
  <2> QED BY <2>1 DEF H!Sess
<1>2. H!Sess' = DOMAIN sess'
  <2>1. sess' \in Seq(SessRec)
    BY DEF HistoryTypes
  <2> QED BY <2>1 DEF H!Sess
<1>3. \A s \in DOMAIN sess : sess[s] = [uuid |-> sess[s].uuid, owner |-> sess[s].owner,
                                        webinar |-> sess[s].webinar, members |-> sess[s].members,
                                        state |-> sess[s].state]
  BY <1>1 DEF SessRec
<1>4. DOMAIN sess \subseteq DOMAIN sess' /\ \A s \in DOMAIN sess : sess'[s].uuid = sess[s].uuid
  <2>1. ASSUME NEW u \in User, NEW r \in Uuid, H!Open(u, r)
        PROVE  DOMAIN sess \subseteq DOMAIN sess' /\ \A s \in DOMAIN sess : sess'[s].uuid = sess[s].uuid
    <3>1. PICK x : sess' = Append(sess, x)
      BY <2>1 DEF H!Open
    <3> QED BY <1>1, <3>1
  <2>2. ASSUME NEW u \in User, NEW r \in Uuid, H!Enter(u, r)
        PROVE  DOMAIN sess \subseteq DOMAIN sess' /\ \A s \in DOMAIN sess : sess'[s].uuid = sess[s].uuid
    <3>1. PICK s, x : sess' = [sess EXCEPT ![s].members = x]
      BY <2>2 DEF H!Enter
    <3> QED BY <1>3, <3>1
  <2>3. ASSUME NEW s \in H!Sess, NEW m, H!Leave(s, m) \/ H!AskClose(s) \/ H!Dispose(s)
        PROVE  DOMAIN sess \subseteq DOMAIN sess' /\ \A t \in DOMAIN sess : sess'[t].uuid = sess[t].uuid
    BY <1>3, <2>3 DEF H!Leave, H!AskClose, H!Dispose
  <2>4. CASE H!Restart
    <3>1. sess' = [s \in H!Sess |-> [sess[s] EXCEPT !.state = "gone", !.members = {}]]
      BY <2>4 DEF H!Restart
    <3>2. DOMAIN sess' = DOMAIN sess /\ \A s \in DOMAIN sess :
            sess'[s] = [sess[s] EXCEPT !.state = "gone", !.members = {}]
      BY <1>1, <3>1
    <3>3. ASSUME NEW s \in DOMAIN sess PROVE sess'[s].uuid = sess[s].uuid
      <4>1. PICK x : x = sess[s]
        OBVIOUS
      <4>2. sess'[s] = [x EXCEPT !.state = "gone", !.members = {}]
        BY <3>2, <4>1
      <4>3. PICK a, b, c, d, e : x = [uuid |-> a, owner |-> b, webinar |-> c, members |-> d, state |-> e]
        BY <1>3, <4>1
      <4>4. sess'[s].uuid = a /\ x.uuid = a
        BY ONLY <4>2, <4>3
      <4> QED BY <4>1, <4>4
    <3> QED BY <3>2, <3>3
  <2>5. CASE H!OnRouterClosed
    <3>1. sess' = sess \/ \E s : sess' = [sess EXCEPT ![s].state = "closed", ![s].members = {}]
      BY <2>5 DEF H!OnRouterClosed
    <3>2. CASE sess' = sess
      BY <3>2
    <3>3. ASSUME NEW s, sess' = [sess EXCEPT ![s].state = "closed", ![s].members = {}]
          PROVE  DOMAIN sess \subseteq DOMAIN sess' /\ \A t \in DOMAIN sess : sess'[t].uuid = sess[t].uuid
      BY <1>3, <3>3
    <3> QED BY <3>1, <3>2, <3>3
  <2> QED BY <2>1, <2>2, <2>3, <2>4, <2>5
<1>5. Grows
  BY <1>1, <1>2, <1>4 DEF Grows
<1>6. UNCHANGED <<rooms, entered, touched>>
  BY DEF H!Open, H!Enter, H!Leave, H!AskClose, H!Dispose, H!Restart, H!OnRouterClosed, H!UnchangedStored
<1>7. /\ event' = event \/ event'.k \notin {"joined", "rooms"}
      /\ DOMAIN asked' = User /\ \A u \in User : asked'[u] = asked[u] \/ asked'[u].k = "none"
  <2>1. CASE H!Restart
    BY <2>1 DEF H!Restart, H!Idle
  <2>2. CASE ~H!Restart
    <3>1. event' = event /\ asked' = asked
      BY <2>2 DEF H!Open, H!Enter, H!Leave, H!AskClose, H!Dispose, H!OnRouterClosed, H!UnchangedStored
    <3> QED BY <3>1 DEF ListsInv, Lists
  <2> QED BY <2>1, <2>2
<1> QED BY <1>5, <1>6, <1>7, UntouchedLists

LEMMA EventsLog ==
  ASSUME ListsInv, H!OnCreated \/ H!Upsert \/ H!OnClosed \/ H!OnLeft
  PROVE  ListsInv'
<1>1. UNCHANGED <<sess, rooms, entered, touched, asked>>
  BY DEF H!OnCreated, H!Upsert, H!OnClosed, H!OnLeft, H!UnchangedRooms
<1>2. event'.k \notin {"joined", "rooms"}
  <2>1. CASE H!OnCreated
    <3>1. \/ event' = H!Idle
          \/ \E s : event' = H!Created(s)
      BY <2>1 DEF H!OnCreated, H!Backup, H!Done
    <3> QED BY <3>1 DEF H!Idle, H!Created
  <2>2. CASE H!Upsert \/ H!OnClosed \/ H!OnLeft
    <3>1. event' = H!Idle
      BY <2>2 DEF H!Upsert, H!OnClosed, H!OnLeft, H!Done
    <3> QED BY <3>1 DEF H!Idle
  <2> QED BY <2>1, <2>2
<1>3. DOMAIN asked' = User
  BY <1>1 DEF ListsInv, Lists
<1> QED BY <1>1, <1>2, <1>3, SameGrows, UntouchedLists

\* The event thread finds the joining of a member, and reads the list of its user.
LEMMA EventsRead ==
  ASSUME HistoryInv, ListsInv, H!OnJoined \/ H!ReadRooms
  PROVE  ListsInv'
<1>1. UNCHANGED <<sess, rooms, entered, touched, asked>> /\ Grows
  BY SameGrows DEF H!OnJoined, H!ReadRooms, H!UnchangedRooms
<1>2. Lists' /\ Asking'
  <2>1. Lists'
    BY <1>1, KeepLists DEF ListsInv, Lists
  <2>2. \A u \in User :
         /\ asked'[u].k \in {"rename", "renaming", "named"} => \A m \in asked'[u].whom : m.user \in User
         /\ asked'[u].k = "named" => asked'[u].user \in touched' /\ Proper(asked[u].list)'
         /\ asked'[u].k = "remove" => u \in touched' /\ Proper(asked[u].list)'
    BY <1>1, KeepAsking DEF ListsInv
  <2> QED BY <2>1, <2>2 DEF Asking
<1>3. OnHand'
  <2>1. CASE H!OnJoined
    <3>1. queue # <<>> /\ Head(queue).k = "joined"
      BY <2>1 DEF H!OnJoined, H!Next1
    <3>2. Head(queue) \in EventRec /\ Head(queue).s \in H!Sess
      <4>1. queue \in Seq(EventRec) /\ \A i \in DOMAIN queue : queue[i].s \in H!Sess
        BY DEF HistoryInv, HistoryTypes
      <4>2. 1 \in DOMAIN queue /\ Head(queue) = queue[1]
        BY <3>1, <4>1
      <4> QED BY <4>1, <4>2
    <3>3. Head(queue).m.user \in User
      BY <3>1, <3>2 DEF EventRec
    <3>4. event' = [k |-> "joined", s |-> Head(queue).s, m |-> Head(queue).m]
      BY <2>1 DEF H!OnJoined
    <3>5. event'.k = "joined" /\ event'.s \in H!Sess' /\ event'.m.user \in User
      BY <1>1, <3>2, <3>3, <3>4 DEF Grows
    <3> QED BY <3>5 DEF OnHand
  <2>2. CASE H!ReadRooms /\ event'.k = "rooms"
    <3>1. event.s \in H!Sess /\ event.m.user \in User
      BY <2>2 DEF H!ReadRooms, ListsInv, OnHand
    <3>2. PICK l : l = rooms[event.m.user]
      OBVIOUS
    <3>3. event' = [k |-> "rooms", s |-> event.s, m |-> event.m, list |-> l]
      BY <2>2, <3>2 DEF H!ReadRooms, H!Done, H!Idle
    <3>4. event'.s = event.s /\ event'.m = event.m /\ event'.list = l
      BY <3>3
    <3>5. Proper(l)
      BY <3>1, <3>2 DEF ListsInv, Lists
    <3>6. Proper(event.list)'
      BY <1>1, <3>4, <3>5, ProperNext
    <3> QED BY <1>1, <3>1, <3>2, <3>4, <3>6 DEF OnHand, Grows
  <2>3. CASE H!ReadRooms /\ event'.k # "rooms"
    <3>1. event'.k = "none"
      BY <2>3 DEF H!ReadRooms, H!Done, H!Idle
    <3> QED BY <3>1 DEF OnHand
  <2> QED BY <2>1, <2>2, <2>3
<1> QED BY <1>2, <1>3 DEF ListsInv

\* It writes the list it has read, with the session before it.
LEMMA WriteRoomsStep ==
  ASSUME H!HistoryAssumption, ListsInv, H!WriteRooms
  PROVE  ListsInv'
<1>1. UNCHANGED <<sess, touched, asked>> /\ Grows /\ event'.k = "none" /\ event.k = "rooms"
  BY SameGrows DEF H!WriteRooms, H!UnchangedRooms, H!Done, H!Idle
<1>2. PICK s : s = event.s
  OBVIOUS
<1>3. PICK u : u = event.m.user
  OBVIOUS
<1>4. PICK list : list = event.list
  OBVIOUS
<1>5. PICK w : w = H!Recent(list, s)
  OBVIOUS
<1>6. PICK all : all = entered[u]
  OBVIOUS
<1>7. PICK more : more = <<s>> \o all
  OBVIOUS
<1>8. /\ s \in H!Sess /\ u \in User /\ Proper(list) /\ (u \notin touched => list = rooms[u])
      /\ all \in Seq(H!Sess)
  BY <1>1, <1>2, <1>3, <1>4, <1>6 DEF ListsInv, OnHand, Lists
<1>9. rooms' = [rooms EXCEPT ![u] = w] /\ entered' = [entered EXCEPT ![u] = more]
  BY <1>2, <1>3, <1>4, <1>5, <1>6, <1>7 DEF H!WriteRooms
<1>10. /\ DOMAIN rooms' = User /\ DOMAIN entered' = User /\ rooms'[u] = w /\ entered'[u] = more
       /\ \A x \in User : x # u => rooms'[x] = rooms[x] /\ entered'[x] = entered[x]
  BY <1>8, <1>9 DEF ListsInv, Lists
<1>11. Renewed(w, list, s) /\ Proper(w)
  BY <1>5, <1>8, RecentIs DEF Renewed
<1>12. more \in Seq(H!Sess)
  BY <1>7, <1>8, Entered
<1>13. ASSUME u \notin touched PROVE H!Shows(w, more)
  <2>1. H!Shows(list, all)
    BY <1>6, <1>8, <1>13 DEF ListsInv, Lists
  <2> QED BY <1>7, <1>8, <1>11, <2>1, StillShows
<1>14. H!Sess' = H!Sess
  BY <1>1 DEF H!Sess
<1>15. ASSUME NEW x \in User PROVE Proper(rooms[x])' /\ entered'[x] \in Seq(H!Sess')
  <2>1. PICK l : l = rooms'[x]
    OBVIOUS
  <2>2. Proper(l)
    BY <1>10, <1>11, <2>1 DEF ListsInv, Lists
  <2>3. Proper(rooms[x])'
    BY <1>1, <2>1, <2>2, ProperNext
  <2>4. entered'[x] \in Seq(H!Sess)
    BY <1>10, <1>12 DEF ListsInv, Lists
  <2> QED BY <1>14, <2>3, <2>4
<1>16. ASSUME NEW x \in User, x \notin touched PROVE H!Shows(rooms[x], entered[x])'
  <2>1. PICK l : l = rooms'[x]
    OBVIOUS
  <2>2. PICK a : a = entered'[x]
    OBVIOUS
  <2>3. H!Shows(l, a) /\ Proper(l) /\ a \in Seq(H!Sess)
    BY <1>10, <1>11, <1>12, <1>13, <1>16, <2>1, <2>2 DEF ListsInv, Lists
  <2> QED BY <1>1, <2>1, <2>2, <2>3, ShowsNext DEF Proper
<1>17. Lists'
  BY <1>1, <1>10, <1>15, <1>16 DEF ListsInv, Lists
<1>18. OnHand'
  BY <1>1 DEF OnHand
<1>19. Asking'
  <2>1. \A x \in User :
         /\ asked'[x].k \in {"rename", "renaming", "named"} => \A m \in asked'[x].whom : m.user \in User
         /\ asked'[x].k = "named" => asked'[x].user \in touched' /\ Proper(asked[x].list)'
         /\ asked'[x].k = "remove" => x \in touched' /\ Proper(asked[x].list)'
    BY <1>1, KeepAsking DEF ListsInv
  <2> QED BY <2>1 DEF Asking
<1> QED BY <1>17, <1>18, <1>19 DEF ListsInv

\* A request that touches no list of rooms but the one it has said it may write.
LEMMA RequestsWrite ==
  ASSUME ListsInv, Grows, UNCHANGED <<sess, event, entered>>, touched \subseteq touched',
         DOMAIN asked' = User, DOMAIN rooms' = User,
         NEW u \in User, \A x \in User : x # u => asked'[x] = asked[x],
         /\ asked'[u].k \in {"rename", "renaming", "named"} => \A m \in asked'[u].whom : m.user \in User
         /\ asked'[u].k = "named" => asked'[u].user \in touched' /\ Proper(asked[u].list)'
         /\ asked'[u].k = "remove" => u \in touched' /\ Proper(asked[u].list)',
         NEW y, y \in touched \/ rooms' = rooms, \A x \in User : x # y => rooms'[x] = rooms[x],
         y \in User => Proper(rooms'[y])
  PROVE  ListsInv'
<1>1. Lists /\ OnHand /\ Asking
  BY DEF ListsInv
<1>2. \A x \in User : x \notin touched' => rooms'[x] = rooms[x]
  OBVIOUS
<1>3. OnHand'
  BY <1>1, <1>2, KeepEvent
<1>4. Asking'
  <2>1. ASSUME NEW x \in User, x # u
        PROVE  /\ asked'[x].k \in {"rename", "renaming", "named"} => \A m \in asked'[x].whom : m.user \in User
               /\ asked'[x].k = "named" => asked'[x].user \in touched' /\ Proper(asked[x].list)'
               /\ asked'[x].k = "remove" => x \in touched' /\ Proper(asked[x].list)'
    BY <1>1, <2>1, KeepAsking
  <2> QED BY <2>1 DEF Asking
<1>5. ASSUME NEW x \in User PROVE Proper(rooms[x])'
  <2>1. PICK l : l = rooms'[x]
    OBVIOUS
  <2>2. Proper(l)
    BY <1>1, <2>1 DEF Lists
  <2> QED BY <2>1, <2>2, ProperNext
<1>6. \A x \in User : entered'[x] \in Seq(H!Sess')
  BY <1>1 DEF Lists, H!Sess
<1>7. ASSUME NEW x \in User, x \notin touched' PROVE H!Shows(rooms[x], entered[x])'
  <2>1. PICK l : l = rooms[x]
    OBVIOUS
  <2>2. PICK a : a = entered[x]
    OBVIOUS
  <2>3. rooms'[x] = l /\ entered'[x] = a /\ H!Shows(l, a) /\ Proper(l) /\ a \in Seq(H!Sess)
    BY <1>1, <1>2, <1>7, <2>1, <2>2 DEF Lists
  <2> QED BY <2>3, ShowsNext DEF Proper
<1>8. Lists'
  BY <1>1, <1>5, <1>6, <1>7 DEF Lists
<1> QED BY <1>3, <1>4, <1>8 DEF ListsInv

LEMMA RequestsAsk ==
  ASSUME HistoryTypes, ListsInv, NEW u \in User,
         \/ \E s \in H!Sess : H!Message(u, s) \/ H!Rename(u, s) \/ H!RemoveRoom(u, s)
         \/ H!WriteRenamed(u) \/ H!NextRenamed(u) \/ H!WriteNamed(u) \/ H!WriteRemoved(u)
  PROVE  ListsInv'
<1>1. UNCHANGED <<sess, event, entered>> /\ Grows
  BY SameGrows DEF H!Message, H!Rename, H!RemoveRoom, H!WriteRenamed, H!NextRenamed, H!WriteNamed,
    H!WriteRemoved, H!UnchangedByRequest
<1>2. DOMAIN asked = User /\ DOMAIN rooms = User /\ Lists /\ Asking
  BY DEF ListsInv, Lists
<1>3. CASE \E s \in H!Sess : H!Message(u, s)
  <2>1. UNCHANGED <<rooms, asked, touched>>
    BY <1>3 DEF H!Message
  <2> QED BY <1>1, <1>2, <2>1, UntouchedLists
<1>4. ASSUME NEW s \in H!Sess, H!Rename(u, s) PROVE ListsInv'
  <2>1. PICK q : q = [k |-> "rename", s |-> s, whom |-> sess[s].members]
    OBVIOUS
  <2>2. UNCHANGED <<rooms, touched>> /\ asked' = [asked EXCEPT ![u] = q]
    BY <1>4, <2>1 DEF H!Rename, H!Begin
  <2>3. q.k = "rename" /\ \A m \in q.whom : m.user \in User
    <3>1. sess[s] \in SessRec
      BY DEF HistoryTypes, H!Sess
    <3> QED BY <2>1, <3>1 DEF SessRec
  <2>4. asked'[u] = q /\ DOMAIN asked' = User /\ \A x \in User : x # u => asked'[x] = asked[x]
    BY <1>2, <2>2
  <2>5. Proper(rooms'[u])
    BY <1>2, <2>2 DEF Lists
  <2> QED BY <1>1, <1>2, <2>2, <2>3, <2>4, <2>5, RequestsWrite
<1>5. CASE H!WriteRenamed(u)
  <2>1. /\ UNCHANGED <<rooms, touched>> /\ asked' = [asked EXCEPT ![u].k = "renaming"]
        /\ asked[u].k = "rename"
    BY <1>5 DEF H!WriteRenamed
  <2>2. /\ DOMAIN asked' = User /\ \A x \in User : x # u => asked'[x] = asked[x]
        /\ asked'[u] = [asked[u] EXCEPT !.k = "renaming"]
    BY <1>2, <2>1
  <2>3. asked'[u].whom = asked[u].whom /\ asked'[u].k \in {"rename", "renaming"}
    BY <2>1, <2>2
  <2>4. Proper(rooms'[u]) /\ \A m \in asked[u].whom : m.user \in User
    BY <1>2, <2>1 DEF Lists, Asking
  <2> QED BY <1>1, <1>2, <2>1, <2>2, <2>3, <2>4, RequestsWrite
<1>6. CASE H!NextRenamed(u)
  <2>1. PICK q : q = asked[u] /\ q.k = "renaming" /\ \A m \in q.whom : m.user \in User
    BY <1>2, <1>6 DEF H!NextRenamed, Asking
  <2>2. rooms' = rooms /\ Proper(rooms'[u])
    BY <1>2, <1>6 DEF H!NextRenamed, Lists
  <2>3. CASE asked' = [asked EXCEPT ![u] = H!Idle] /\ touched' = touched
    <3>1. asked'[u].k = "none" /\ DOMAIN asked' = User /\ \A x \in User : x # u => asked'[x] = asked[x]
      BY <1>2, <2>3 DEF H!Idle
    <3> QED BY <1>1, <1>2, <2>2, <2>3, <3>1, UntouchedLists
  <2>4. ASSUME NEW m, asked' = [asked EXCEPT ![u].whom = @ \ {m}], touched' = touched PROVE ListsInv'
    <3>1. /\ DOMAIN asked' = User /\ \A x \in User : x # u => asked'[x] = asked[x]
          /\ asked'[u] = [q EXCEPT !.whom = @ \ {m}]
      BY <1>2, <2>1, <2>4
    <3>2. asked'[u].k = "renaming" /\ asked'[u].whom \subseteq q.whom
      BY <2>1, <3>1
    <3> QED BY <1>1, <1>2, <2>1, <2>2, <2>4, <3>1, <3>2, RequestsWrite
  <2>5. ASSUME NEW m \in q.whom, touched' = touched \union {m.user},
               asked' = [asked EXCEPT ![u] = [k |-> "named", s |-> q.s, whom |-> q.whom \ {m},
                                              user |-> m.user, list |-> rooms[m.user]]]
        PROVE  ListsInv'
    <3>1. PICK l : l = rooms[m.user]
      OBVIOUS
    <3>2. Proper(l)
      BY <1>2, <2>1, <3>1 DEF Lists
    <3>3. PICK n : n = [k |-> "named", s |-> q.s, whom |-> q.whom \ {m}, user |-> m.user, list |-> l]
      OBVIOUS
    <3>4. asked'[u] = n /\ DOMAIN asked' = User /\ \A x \in User : x # u => asked'[x] = asked[x]
      BY <1>2, <2>5, <3>1, <3>3
    <3>5. n.k = "named" /\ n.user = m.user /\ n.list = l /\ n.whom \subseteq q.whom
      BY <3>3
    <3>6. asked'[u].list = l /\ asked'[u].k = "named" /\ asked'[u].user \in touched'
          /\ \A x \in asked'[u].whom : x.user \in User
      BY <2>1, <2>5, <3>4, <3>5
    <3>7. Proper(asked[u].list)'
      BY <1>1, <3>2, <3>6, ProperNext
    <3>8. touched \subseteq touched'
      BY <2>5
    <3> QED BY <1>1, <1>2, <2>2, <3>4, <3>6, <3>7, <3>8, RequestsWrite
  <2> QED BY <1>6, <2>1, <2>3, <2>4, <2>5 DEF H!NextRenamed
<1>7. CASE H!WriteNamed(u)
  <2>1. PICK q : q = asked[u] /\ q.k = "named" /\ q.user \in touched /\ Proper(q.list)
                 /\ \A m \in q.whom : m.user \in User
    BY <1>2, <1>7 DEF H!WriteNamed, Asking
  <2>2. PICK n : n = [k |-> "renaming", s |-> q.s, whom |-> q.whom]
    OBVIOUS
  <2>3. touched' = touched /\ asked' = [asked EXCEPT ![u] = n]
    BY <1>7, <2>1, <2>2 DEF H!WriteNamed
  <2>4. /\ asked'[u] = n /\ DOMAIN asked' = User /\ \A x \in User : x # u => asked'[x] = asked[x]
        /\ n.k = "renaming" /\ n.whom = q.whom
    BY <1>2, <2>2, <2>3
  <2>5. rooms' = rooms \/ rooms' = [rooms EXCEPT ![q.user] = q.list]
    BY <1>7, <2>1 DEF H!WriteNamed
  <2>6. DOMAIN rooms' = User /\ \A x \in User : x # q.user => rooms'[x] = rooms[x]
    BY <1>2, <2>5
  <2>7. q.user \in User => Proper(rooms'[q.user])
    BY <1>2, <2>1, <2>5 DEF Lists
  <2>8. PICK y : y = q.user
    OBVIOUS
  <2>9. y \in touched /\ (\A x \in User : x # y => rooms'[x] = rooms[x]) /\ (y \in User => Proper(rooms'[y]))
    BY <2>1, <2>6, <2>7, <2>8
  <2>10. /\ asked'[u].k = "renaming" /\ \A m \in asked'[u].whom : m.user \in User
         /\ touched \subseteq touched'
    BY <2>1, <2>3, <2>4
  <2> QED BY <1>1, <2>4, <2>6, <2>9, <2>10, RequestsWrite
<1>8. ASSUME NEW s \in H!Sess, H!RemoveRoom(u, s) PROVE ListsInv'
  <2>1. PICK list : list = rooms[u]
    OBVIOUS
  <2>2. PICK l : l = H!NotOfRoom(list, s)
    OBVIOUS
  <2>3. Proper(list)
    BY <1>2, <2>1 DEF Lists
  <2>4. Proper(l)
    BY <2>2, <2>3, NotOfRoomIs
  <2>5. PICK q : q = [k |-> "remove", list |-> l]
    OBVIOUS
  <2>6. UNCHANGED rooms /\ asked' = [asked EXCEPT ![u] = q] /\ touched' = touched \union {u}
    BY <1>8, <2>1, <2>2, <2>5 DEF H!RemoveRoom, H!Begin
  <2>7. /\ DOMAIN asked' = User /\ \A x \in User : x # u => asked'[x] = asked[x]
        /\ asked'[u].k = "remove" /\ asked'[u].list = l
    BY <1>2, <2>5, <2>6
  <2>8. Proper(asked[u].list)' /\ u \in touched' /\ touched \subseteq touched'
    BY <1>1, <2>4, <2>6, <2>7, ProperNext
  <2>9. Proper(rooms'[u])
    BY <1>2, <2>6 DEF Lists
  <2> QED BY <1>1, <1>2, <2>6, <2>7, <2>8, <2>9, RequestsWrite
<1>9. CASE H!WriteRemoved(u)
  <2>1. PICK l : l = asked[u].list /\ Proper(l) /\ u \in touched
    BY <1>2, <1>9 DEF H!WriteRemoved, Asking
  <2>2. touched' = touched /\ asked' = [asked EXCEPT ![u] = H!Idle] /\ rooms' = [rooms EXCEPT ![u] = l]
    BY <1>9, <2>1 DEF H!WriteRemoved
  <2>3. /\ DOMAIN asked' = User /\ \A x \in User : x # u => asked'[x] = asked[x] /\ rooms'[x] = rooms[x]
        /\ asked'[u].k = "none" /\ DOMAIN rooms' = User /\ rooms'[u] = l
    BY <1>2, <2>2 DEF H!Idle
  <2>4. touched \subseteq touched' /\ Proper(rooms'[u])
    BY <2>1, <2>2, <2>3
  <2> QED BY <1>1, <2>1, <2>3, <2>4, RequestsWrite
<1> QED BY <1>3, <1>4, <1>5, <1>6, <1>7, <1>8, <1>9

LEMMA ListsStep == ASSUME HistoryInv, HistoryInv', ListsInv, H!Next PROVE ListsInv'
<1>1. H!HistoryAssumption /\ HistoryTypes /\ HistoryTypes'
  BY RoomsAssumption DEF HistoryInv
<1>2. CASE \/ \E u \in User, r \in Uuid : H!Open(u, r) \/ H!Enter(u, r)
           \/ \E s \in H!Sess : \E m \in sess[s].members : H!Leave(s, m)
           \/ \E s \in H!Sess : H!AskClose(s) \/ H!Dispose(s)
           \/ H!Restart \/ H!OnRouterClosed
  BY <1>1, <1>2, RoomsMove
<1>3. CASE H!OnCreated \/ H!Upsert \/ H!OnClosed \/ H!OnLeft
  BY <1>3, EventsLog
<1>4. CASE H!OnJoined \/ H!ReadRooms
  BY <1>4, EventsRead
<1>5. CASE H!WriteRooms
  BY <1>1, <1>5, WriteRoomsStep
<1>6. ASSUME NEW u \in User,
             \/ \E s \in H!Sess : H!Message(u, s) \/ H!Rename(u, s) \/ H!RemoveRoom(u, s)
             \/ H!WriteRenamed(u) \/ H!NextRenamed(u) \/ H!WriteNamed(u) \/ H!WriteRemoved(u)
      PROVE  ListsInv'
  BY <1>1, <1>6, RequestsAsk
<1> QED BY <1>2, <1>3, <1>4, <1>5, <1>6 DEF H!Next

LEMMA ListsStill == ASSUME ListsInv, UNCHANGED history PROVE ListsInv'
<1>1. UNCHANGED <<sess, event, rooms, asked, entered, touched>> /\ DOMAIN asked' = User
  BY DEF history, ListsInv, Lists
<1> QED BY <1>1, SameGrows, UntouchedLists

LEMMA ListsAreRecent == ASSUME ListsInv PROVE H!HistoryIsRecent
BY DEF ListsInv, Lists, Proper, H!HistoryIsRecent
-----------------------------------------------------------------------------
(* The theorems.                                                           *)

LEMMA NextIs ==
  ASSUME H!Next
  PROVE  \/ Writes \/ H!OnCreated \/ H!Upsert
<1>1. ASSUME NEW u \in User, NEW r \in Uuid, H!Open(u, r) \/ H!Enter(u, r) PROVE Writes
  BY <1>1 DEF H!Open, H!Enter, H!UnchangedStored, Writes
<1>2. ASSUME NEW s, NEW m, H!Leave(s, m) \/ H!AskClose(s) \/ H!Dispose(s) PROVE Writes
  BY <1>2 DEF H!Leave, H!AskClose, H!Dispose, H!UnchangedStored, Writes
<1>3. CASE H!Restart \/ H!OnRouterClosed
  BY <1>3 DEF H!Restart, H!OnRouterClosed, H!UnchangedStored, Writes
<1>4. CASE H!OnClosed \/ H!OnLeft
  BY <1>4 DEF H!OnClosed, H!OnLeft, Writes
<1>5. CASE H!OnJoined
  BY <1>5 DEF H!OnJoined, Writes
<1>6. CASE H!ReadRooms \/ H!WriteRooms
  BY <1>6 DEF H!ReadRooms, H!WriteRooms, Writes
<1>7. ASSUME NEW u \in User, NEW s \in H!Sess, H!Message(u, s) \/ H!Rename(u, s) \/ H!RemoveRoom(u, s)
      PROVE  Writes
  BY <1>7 DEF H!Message, H!Rename, H!RemoveRoom, H!UnchangedByRequest, Writes
<1>8. ASSUME NEW u \in User, H!WriteRenamed(u) \/ H!NextRenamed(u) \/ H!WriteNamed(u) \/ H!WriteRemoved(u)
      PROVE  Writes
  BY <1>8 DEF H!WriteRenamed, H!NextRenamed, H!WriteNamed, H!WriteRemoved, H!UnchangedByRequest, Writes
<1> QED BY <1>1, <1>2, <1>3, <1>4, <1>5, <1>6, <1>7, <1>8 DEF H!Next

LEMMA HistoryStep == ASSUME HistoryInv, H!Next PROVE HistoryInv'
<1>1. H!HistoryAssumption
  BY RoomsAssumption
<1>2. ASSUME NEW u \in User, NEW r \in Uuid, H!Open(u, r) \/ H!Enter(u, r) PROVE HistoryInv'
  BY <1>1, <1>2, OpenStep, EnterStep
<1>3. ASSUME NEW s \in H!Sess, NEW m \in sess[s].members, H!Leave(s, m) PROVE HistoryInv'
  BY <1>1, <1>3, LeaveStep
<1>4. ASSUME NEW s \in H!Sess, H!AskClose(s) \/ H!Dispose(s) PROVE HistoryInv'
  BY <1>1, <1>4, AskCloseStep, DisposeStep
<1>5. CASE H!Restart \/ H!OnRouterClosed
  BY <1>1, <1>5, RestartStep, OnRouterClosedStep
<1>6. CASE H!OnCreated \/ H!Upsert
  BY <1>1, <1>6, OnCreatedStep, UpsertStep
<1>7. CASE H!OnClosed \/ H!OnLeft \/ H!OnJoined
  BY <1>1, <1>7, OnClosedStep, OnLeftStep, OnJoinedStep
<1>8. CASE H!ReadRooms \/ H!WriteRooms
  BY <1>1, <1>8, RoomsSteps
<1>9. ASSUME \/ \E u \in User, s \in H!Sess : H!Message(u, s) \/ H!Rename(u, s) \/ H!RemoveRoom(u, s)
             \/ \E u \in User : H!WriteRenamed(u) \/ H!NextRenamed(u) \/ H!WriteNamed(u) \/ H!WriteRemoved(u)
      PROVE  HistoryInv'
  <2>1. RequestLogs /\ UNCHANGED <<archive, sess, found, queue, event, enters, beside>>
    BY <1>1, <1>9, RequestSteps
  <2> QED BY <1>1, <2>1, RequestKeeps
<1> QED BY <1>2, <1>3, <1>4, <1>5, <1>6, <1>7, <1>8, <1>9 DEF H!Next

LEMMA StillKeeps == ASSUME HistoryInv, UNCHANGED history PROVE HistoryInv'
<1>1. UNCHANGED <<sess, found, queue, event, doc, archive, enters, beside>>
  BY DEF history
<1>2. H!Sess' = H!Sess /\ Starting' = Starting
  BY <1>1 DEF H!Sess, Starting
<1>3. HistoryTypes' /\ Newest' /\ Logs'
  BY <1>1, <1>2 DEF HistoryInv, HistoryTypes, Newest, Logs
<1>4. Present' /\ Neighbours' /\ InOrder' /\ InTurn' /\ Copied'
  BY <1>1, <1>2 DEF HistoryInv, Present, Neighbours, InOrder, InTurn, Copied, H!Registered
<1>5. (H!OwnLog)'
  BY <1>1 DEF HistoryInv, H!OwnLog, H!Own, H!HasDocument
<1> QED BY <1>3, <1>4, <1>5 DEF HistoryInv

HistorySide == part = "history" => HistoryInv

LEMMA EitherStarts == EitherInit => HistorySide
<1>1. H!HistoryAssumption
  BY RoomsAssumption
<1>2. ASSUME H!Init PROVE HistoryInv
  BY <1>1, <1>2, HistoryStarts
<1> QED BY <1>2 DEF EitherInit, HistorySide

LEMMA EitherStep == HistorySide /\ [EitherNext]_<<part, vars, history>> => HistorySide'
<1> SUFFICES ASSUME HistorySide, [EitherNext]_<<part, vars, history>>, part' = "history"
             PROVE  HistoryInv'
  BY DEF HistorySide
<1>1. part = "history" /\ (H!Next \/ UNCHANGED history)
  BY DEF EitherNext
<1>2. HistoryInv
  BY <1>1 DEF HistorySide
<1> QED BY <1>1, <1>2, HistoryStep, StillKeeps

\* A room's log, wherever it is stored, tells of its own session: the events of
\* another are in it only when that one never got a document, or was there still
\* when this one was created (_room_create, _room_backup_previous).
THEOREM LogsAlwaysOwn == EitherSpec => []OwnLog
<1>1. HistorySide => OwnLog
  BY DEF HistorySide, HistoryInv, OwnLog
<1> QED BY <1>1, EitherStarts, EitherStep, PTL DEF EitherSpec

\* Nothing that the event thread has logged is ever lost, through restarts and
\* events given up as well (_on_room_created).
THEOREM NeverForgotten == EitherSpec => NothingForgotten
<1>1. HistorySide /\ [EitherNext]_<<part, vars, history>>
        => [part = "history" => H!NothingLost]_<<part, history>>
  <2> SUFFICES ASSUME HistorySide, [EitherNext]_<<part, vars, history>>, part = "history",
                      ~UNCHANGED <<part, history>>
               PROVE  H!NothingLost
    OBVIOUS
  <2>1. H!Next /\ HistoryInv
    BY DEF EitherNext, HistorySide
  <2>2. H!HistoryAssumption
    BY RoomsAssumption
  <2> QED BY <2>1, <2>2, NextIs, WritesKeep, OnCreatedKeeps, UpsertKeeps
<1> QED BY <1>1, EitherStarts, EitherStep, PTL DEF EitherSpec, NothingForgotten

ListsSide == part = "history" => ListsInv

\* As long as no request has written to it a user's list shows the rooms it was
\* last in, the latest first, however joinings are given up and the server is
\* restarted between; and no room is in it twice, whoever has written to it
\* (_on_room_member_join, _history_rooms_remove).
THEOREM RecentAlwaysShown == EitherSpec => []HistoryIsRecent
<1>1. EitherInit => ListsSide
  <2>1. H!HistoryAssumption
    BY RoomsAssumption
  <2>2. ASSUME H!Init PROVE ListsInv
    BY <2>1, <2>2, ListsStart
  <2> QED BY <2>2 DEF EitherInit, ListsSide
<1>2. HistorySide /\ HistorySide' /\ ListsSide /\ [EitherNext]_<<part, vars, history>> => ListsSide'
  <2> SUFFICES ASSUME HistorySide, HistorySide', ListsSide, [EitherNext]_<<part, vars, history>>,
                      part' = "history"
               PROVE  ListsInv'
    BY DEF ListsSide
  <2>1. part = "history" /\ (H!Next \/ UNCHANGED history)
    BY DEF EitherNext
  <2>2. HistoryInv /\ HistoryInv' /\ ListsInv
    BY <2>1 DEF HistorySide, ListsSide
  <2> QED BY <2>1, <2>2, ListsStep, ListsStill
<1>3. ListsSide => HistoryIsRecent
  BY ListsAreRecent DEF ListsSide, HistoryIsRecent
<1> QED BY <1>1, <1>2, <1>3, EitherStarts, EitherStep, PTL DEF EitherSpec
=============================================================================
