---------------------------- MODULE Parts_proof ----------------------------
(***************************************************************************)
(* Of the websocket sessions, for any number of connections, descriptors,  *)
(* tickets and users: the two maps of sessions agree with the connections, *)
(* and a ticket opens one session.                                         *)
(*                                                                         *)
(* Of the recording, for any number of producers, exports, sessions and    *)
(* troubles, and a backlog of events of any length: an open export is the  *)
(* one its producer knows, a process that runs is in a slot, a slot is an  *)
(* export's that is there, and one task follows a recording.               *)
(*                                                                         *)
(* Of post-processing, for any media, lengths and users: the steps are the *)
(* recording, and everybody in them is seen.                               *)
(*                                                                         *)
(* Of the H.264 profiles, for any constraint bits and levels: what answers *)
(* an offer is read as what was agreed.                                    *)
(*                                                                         *)
(* Of the negotiation of codecs, for any formats, any pool of types and    *)
(* lists of any length: where the configured types come first, a type is   *)
(* one codec's, who can consume does, and what it plays is what is sent.   *)
(***************************************************************************)
EXTENDS MCParts, FiniteSetTheorems, WellFoundedInduction, TLAPS
-----------------------------------------------------------------------------
(* Sessions.                                                               *)

\* A descriptor belongs to one connection at a time.
OwnFd ==
  \A c \in Conn : S!Connected(c) =>
    /\ conn[c].fd \in Fd
    /\ \A x \in Conn : S!Connected(x) /\ conn[x].fd = conn[c].fd => x = c

\* A session is in the maps from its registration to its disposal.
InMaps ==
  /\ byUuid = {byWsid[f] : f \in Fd} \ {None}
  /\ \A f \in Fd : byWsid[f] # None =>
       conn[byWsid[f]].fd = f /\ conn[byWsid[f]].pc \in {"ready", "closing"}
  /\ \A c \in Conn : conn[c].pc = "ready" => byWsid[conn[c].fd] = c

\* A ticket is in the database as it was issued, until a connection has it.
Tickets ==
  /\ DOMAIN ticket \subseteq DOMAIN issued
  /\ \A t \in DOMAIN ticket : ticket[t] = issued[t]
  /\ \A c \in Conn : conn[c].ticket # None =>
       /\ conn[c].ticket \in DOMAIN issued \ DOMAIN ticket
       /\ conn[c].user = issued[conn[c].ticket]
       /\ \A x \in Conn \ {c} : conn[x].ticket # conn[c].ticket

ConnRec == [pc : {"none", "open", "known", "ready", "closing", "gone"},
            fd : Fd \union {None}, ticket : Ticket \union {None}, user : User \union {None}]

SessionTypes ==
  /\ conn \in [Conn -> ConnRec]
  /\ byWsid \in [Fd -> Conn \union {None}]
  /\ DOMAIN issued \subseteq Ticket
  /\ issued \in [DOMAIN issued -> User] /\ ticket \in [DOMAIN ticket -> User]

IInv == SessionTypes /\ OwnFd /\ InMaps /\ Tickets

LEMMA InitIInv == ASSUME S!SessionsAssumption, S!Init PROVE IInv
BY DEF S!SessionsAssumption, S!Init, IInv, SessionTypes, ConnRec, OwnFd, InMaps, Tickets, S!NoConn, S!Connected

LEMMA PulledType ==
  ASSUME NEW f \in [Conn -> ConnRec], NEW c \in Conn, NEW t \in Ticket, NEW u \in User
  PROVE  [f EXCEPT ![c].pc = "known", ![c].ticket = t, ![c].user = u] \in [Conn -> ConnRec]
<1>1. f[c] \in ConnRec
  OBVIOUS
<1>2. [f[c] EXCEPT !.pc = "known", !.ticket = t, !.user = u] \in ConnRec
  BY <1>1 DEF ConnRec
<1>3. [f EXCEPT ![c].pc = "known", ![c].ticket = t, ![c].user = u]
        = [f EXCEPT ![c] = [f[c] EXCEPT !.pc = "known", !.ticket = t, !.user = u]]
  OBVIOUS
<1>4. QED
  BY <1>2, <1>3

LEMMA NextIInv == ASSUME S!SessionsAssumption, IInv, [S!Next]_(S!vars) PROVE IInv'
<1> USE S!SessionsAssumption, IInv DEF S!SessionsAssumption, IInv, SessionTypes, ConnRec, OwnFd, InMaps, Tickets, S!Connected
<1>1. ASSUME NEW t \in Ticket, NEW u \in User, S!IssueTicket(t, u) PROVE IInv'
  BY <1>1 DEF S!IssueTicket
<1>2. ASSUME S!ExpireTickets PROVE IInv'
  BY <1>2 DEF S!ExpireTickets, S!Without
<1>3. ASSUME NEW c \in Conn, NEW f \in Fd, S!Connect(c, f) PROVE IInv'
  <2>1. /\ \A x \in Conn \ {c} : conn'[x] = conn[x]
        /\ conn'[c] = [pc |-> "open", fd |-> f, ticket |-> None, user |-> None]
    BY <1>3 DEF S!Connect
  <2>2. SessionTypes'
    BY <1>3 DEF S!Connect
  <2>3. OwnFd'
    BY <1>3, <2>1 DEF S!Connect
  <2>4. InMaps'
    BY <1>3, <2>1 DEF S!Connect
  <2>5. Tickets'
    BY <1>3, <2>1 DEF S!Connect
  <2>6. QED
    BY <2>2, <2>3, <2>4, <2>5
<1>4. ASSUME NEW c \in Conn, NEW t \in Ticket, S!Pull(c, t) PROVE IInv'
  <2>1. /\ conn[c].pc = "open" /\ t \in DOMAIN issued /\ UNCHANGED <<issued, byWsid, byUuid>>
        /\ \A x \in Conn \ {c} : conn'[x] = conn[x]
        /\ conn'[c].fd = conn[c].fd
    BY <1>4 DEF S!Pull
  <2>2. CASE t \in DOMAIN ticket
    <3>1. /\ conn' = [conn EXCEPT ![c].pc = "known", ![c].ticket = t, ![c].user = ticket[t]]
          /\ ticket' = [y \in DOMAIN ticket \ {t} |-> ticket[y]]
      BY <1>4, <2>2 DEF S!Pull, S!Pulled, S!Without
    <3>2. conn'[c].pc = "known" /\ conn'[c].ticket = t /\ conn'[c].user = issued[t]
      BY <2>2, <3>1
    <3>3. SessionTypes'
      <4>1. ticket[t] \in User /\ t \in Ticket
        BY <2>2
      <4>2. conn' \in [Conn -> ConnRec]
        <5> HIDE DEF ConnRec
        <5> QED BY <3>1, <4>1, PulledType
      <4>3. ticket' \in [DOMAIN ticket' -> User]
        BY <3>1
      <4>4. byWsid' \in [Fd -> Conn \union {None}]
        BY <2>1
      <4>5. DOMAIN issued' \subseteq Ticket /\ issued' \in [DOMAIN issued' -> User]
        BY <2>1
      <4> QED BY <4>2, <4>3, <4>4, <4>5
    <3>4. OwnFd'
      BY <2>1, <3>2
    <3>5. InMaps'
      BY <2>1, <3>2
    <3>6. Tickets'
      <4>1. \A x \in Conn \ {c} : conn[x].ticket # t
        BY <2>2
      <4>2. t \in DOMAIN issued \ DOMAIN ticket' /\ DOMAIN ticket' \subseteq DOMAIN ticket
        BY <2>1, <3>1
      <4>3. \A y \in DOMAIN ticket' : ticket'[y] = ticket[y]
        BY <3>1
      <4> QED BY <2>1, <3>2, <4>1, <4>2, <4>3
    <3> QED BY <3>3, <3>4, <3>5, <3>6
  <2>3. CASE t \notin DOMAIN ticket
    <3>1. conn' = [conn EXCEPT ![c].pc = "closing"] /\ UNCHANGED ticket
      BY <1>4, <2>3 DEF S!Pull
    <3>2. conn'[c].pc = "closing" /\ conn'[c].ticket = conn[c].ticket /\ conn'[c].user = conn[c].user
      BY <3>1
    <3>3. SessionTypes'
      BY <2>1, <3>1
    <3>4. OwnFd' /\ InMaps'
      BY <2>1, <3>2
    <3>5. Tickets'
      BY <2>1, <3>1, <3>2
    <3> QED BY <3>3, <3>4, <3>5
  <2>4. QED
    BY <2>2, <2>3
<1>5. ASSUME NEW c \in Conn, S!Register(c) PROVE IInv'
  BY <1>5 DEF S!Register
<1>6. ASSUME NEW c \in Conn, S!Close(c) PROVE IInv'
  BY <1>6 DEF S!Close
<1>7. ASSUME NEW c \in Conn, S!Dispose(c) PROVE IInv'
  BY <1>7 DEF S!Dispose, S!Removed
<1>8. ASSUME S!Send \/ (\E U \in SUBSET User : S!Collect(U)) \/ UNCHANGED S!vars PROVE IInv'
  BY <1>8 DEF S!Send, S!Collect, S!vars
<1>9. QED
  BY <1>1, <1>2, <1>3, <1>4, <1>5, <1>6, <1>7, <1>8 DEF S!Next

(* The maps of sessions and the connections agree at all times, and every   *)
(* ticket opens one session, of the user it was issued to.                  *)
THEOREM SessionsAlwaysAgree == ASSUME S!SessionsAssumption PROVE S!Spec => []SessionsAgree
<1>1. S!Init => IInv
  BY InitIInv
<1>2. IInv /\ [S!Next]_(S!vars) => IInv'
  BY NextIInv
<1>3. IInv => SessionsAgree
  BY DEF IInv, SessionTypes, OwnFd, InMaps, Tickets, SessionsAgree, S!SessionsAgree, S!MapsAgree, S!OwnTicket, S!Connected
<1>4. QED
  BY <1>1, <1>2, <1>3, PTL DEF S!Spec
-----------------------------------------------------------------------------
(* The recording.  What the events, the slots and the records can hold.    *)

OfExport == {"transportClosed", "producerPause", "producerResume", "consumerPause",
             "consumerResume"}
OfProducer == {"created", "resumed", "closed"}
OfRoom == {"routerClosed", "roomClosed"}
EventRec == [kind : OfExport \union OfProducer \union OfRoom,
             of : Export \union Producer \union {None}]
SlotRec == [export : Export, process : Nat]
Fits(q) == \A i \in DOMAIN q :
  /\ q[i].kind \in OfExport => q[i].of \in Export
  /\ q[i].kind \in OfProducer => q[i].of \in Producer
Quiet(q) == \A i \in DOMAIN q : q[i].kind # "roomClosed"
Once(q) == \A i, j \in DOMAIN q : q[i].kind = "roomClosed" /\ q[j].kind = "roomClosed" => i = j

ThreadRec ==
  [pc : {"idle", "next", "link", "consume", "register", "slot", "spawn", "own"},
   producer : Producer \union {None}, export : Export \union {None}, process : Nat,
   todo : SUBSET Producer, resumes : BOOLEAN]
ProducerRec ==
  [state : {"none", "open", "closed"}, listed : BOOLEAN, paused : BOOLEAN,
   export : Export \union {None}]
ExportRec ==
  [state : {"none", "building", "built", "failed"}, producer : Producer \union {None},
   closed : BOOLEAN, hooked : BOOLEAN, consumer : {"none", "open", "closed"},
   paused : BOOLEAN, linked : BOOLEAN, raced : BOOLEAN]
ProcessRec == [export : Export, state : {"running", "killed", "gone"}]
StudioRec == [open : BOOLEAN, recording : BOOLEAN, sessions : Nat]

RecTypes ==
  /\ studio \in StudioRec
  /\ producer \in [Producer -> ProducerRec]
  /\ export \in [Export -> ExportRec]
  /\ slots \in Seq(SlotRec) /\ process \in Seq(ProcessRec)
  /\ thread \in [R!Thread -> ThreadRec]
  /\ stopping \subseteq Export /\ closing \subseteq Export
  /\ events \in Seq(EventRec) /\ Fits(events)
  /\ tasks \in Nat

Building == {"consume", "register", "slot", "spawn", "own"}

\* What a thread works with, by where it is.
Steps ==
  \A t \in R!Thread :
    /\ thread[t].pc \in {"idle", "next", "link"} => thread[t].export = None /\ ~thread[t].resumes
    /\ thread[t].pc \notin {"idle", "next"} => thread[t].producer \in Producer
    /\ thread[t].pc \in Building => thread[t].export \in Export
    /\ thread[t].resumes => t = "events" /\ thread[t].pc \in {"spawn", "own"}
    /\ thread[t].pc = "own" =>
         /\ thread[t].process \in DOMAIN process
         /\ process[thread[t].process].export = thread[t].export

\* A thread builds an export from its hooks to its slot, or resumes one.
Builds ==
  \A t \in R!Thread : thread[t].pc \in Building =>
    LET e == thread[t].export IN
    /\ ~thread[t].resumes => export[e].state = "building"
    /\ thread[t].resumes => export[e].state # "none"
    /\ thread[t].pc \in {"slot", "spawn", "own"} => export[e].hooked
    /\ thread[t].pc \in {"consume", "register", "slot"} => ~R!Slotted(e)
    /\ export[e].closed => export[e].raced

\* Two threads at one export have raced, and one of them resumes it.
Apart ==
  \A t, u \in R!Thread :
    t # u /\ thread[t].export # None /\ thread[t].export = thread[u].export
    => (thread[t].resumes \/ thread[u].resumes) /\ export[thread[t].export].raced

Exports ==
  /\ \A e \in Export :
       /\ export[e].state = "none" => export[e] = R!NoExport
       /\ export[e].state # "none" => export[e].producer \in Producer
       /\ export[e].linked /\ export[e].closed => export[e].raced
       /\ e \in stopping => export[e].state # "none"
       /\ e \in closing => export[e].closed
  /\ \A p \in Producer : producer[p].export # None => export[producer[p].export].state # "none"

Slots ==
  /\ \A i, j \in DOMAIN slots : slots[i].export = slots[j].export => i = j
  /\ \A e \in Export : R!Slotted(e) =>
       /\ export[e].hooked
       /\ export[e].closed /\ export[e].state # "failed" => export[e].raced \/ e \in closing

Well(e) == export[e].state # "failed" /\ ~export[e].raced

\* An export that nobody raced with has a slot, from its hooks to its close.
Hooked ==
  \A e \in Export : Well(e) /\ export[e].hooked /\ ~export[e].closed =>
    R!Slotted(e) \/ \E t \in R!Thread : thread[t].pc = "slot" /\ thread[t].export = e

\* Nobody writes yet for an export that is about to get a process.
Idle ==
  \A t \in R!Thread : thread[t].pc \in {"spawn", "own"} /\ Well(thread[t].export) =>
    \A i \in DOMAIN slots : slots[i].export = thread[t].export => slots[i].process = 0

Core ==
  /\ Steps /\ Builds /\ Apart /\ Exports /\ Slots /\ Hooked /\ Idle
  /\ R!OpenIsLinked /\ R!ProcessesOwned

\* The room is told of its end once, and is closed by then.
Told ==
  /\ Once(events) /\ (~Quiet(events) => ~studio.open /\ tasks = 0)
  /\ tasks # 0 => tasks = 1 /\ ~studio.open /\ studio.sessions > 0

RecIInv == RecTypes /\ Core /\ Told
-----------------------------------------------------------------------------
(* Events.                                                                 *)

LEMMA Joined ==
  ASSUME NEW q \in Seq(EventRec), NEW s \in Seq(EventRec), Fits(q), Fits(s)
  PROVE  /\ q \o s \in Seq(EventRec) /\ Fits(q \o s)
         /\ Quiet(q) /\ Quiet(s) => Quiet(q \o s)
         /\ Once(q) /\ Quiet(s) => Once(q \o s)
         /\ Quiet(q) /\ Once(s) => Once(q \o s)
<1>1. /\ q \o s \in Seq(EventRec) /\ Len(q \o s) = Len(q) + Len(s)
      /\ \A i \in 1..Len(q) + Len(s) : (q \o s)[i] = IF i <= Len(q) THEN q[i] ELSE s[i - Len(q)]
  OBVIOUS
<1>2. DOMAIN (q \o s) = 1..Len(q) + Len(s) /\ DOMAIN q = 1..Len(q) /\ DOMAIN s = 1..Len(s)
      /\ Len(q) \in Nat /\ Len(s) \in Nat
  BY <1>1
<1>3. \A i \in DOMAIN (q \o s) :
         (i \in DOMAIN q /\ (q \o s)[i] = q[i])
         \/ (i \notin DOMAIN q /\ i - Len(q) \in DOMAIN s /\ (q \o s)[i] = s[i - Len(q)])
  BY <1>1, <1>2
<1> DEFINE x == q \o s
<1> HIDE DEF x
<1>4. \A i \in DOMAIN x :
         (i \in DOMAIN q /\ x[i] = q[i])
         \/ (i \notin DOMAIN q /\ i - Len(q) \in DOMAIN s /\ x[i] = s[i - Len(q)])
  BY <1>3 DEF x
<1>5. \A i, j \in DOMAIN x : i - Len(q) = j - Len(q) => i = j
  BY <1>1, <1>2 DEF x
<1>6. Fits(x)
  BY <1>4 DEF Fits
<1>7. Quiet(q) /\ Quiet(s) => Quiet(x)
  BY <1>4 DEF Quiet
<1>8. Once(q) /\ Quiet(s) => Once(x)
  BY <1>4 DEF Once, Quiet
<1>9. Quiet(q) /\ Once(s) => Once(x)
  BY <1>4, <1>5 DEF Once, Quiet
<1> QED BY <1>1, <1>6, <1>7, <1>8, <1>9 DEF x

LEMMA Rest ==
  ASSUME NEW q \in Seq(EventRec), q # <<>>, Fits(q)
  PROVE  /\ Tail(q) \in Seq(EventRec) /\ Fits(Tail(q)) /\ Head(q) \in EventRec
         /\ Head(q).kind \in OfExport => Head(q).of \in Export
         /\ Head(q).kind \in OfProducer => Head(q).of \in Producer
         /\ Once(q) => Once(Tail(q)) /\ (Head(q).kind = "roomClosed" => Quiet(Tail(q)))
         /\ Quiet(q) => Quiet(Tail(q))
         /\ Head(q).kind = "roomClosed" => ~Quiet(q)
<1>1. /\ Tail(q) \in Seq(EventRec) /\ Head(q) = q[1] /\ 1 \in DOMAIN q
      /\ \A i \in DOMAIN Tail(q) : Tail(q)[i] = q[i + 1] /\ i + 1 \in DOMAIN q /\ i + 1 # 1
      /\ \A i, j \in DOMAIN Tail(q) : i + 1 = j + 1 => i = j
  OBVIOUS
<1> DEFINE x == Tail(q) h == Head(q)
<1> HIDE DEF x, h
<1>2. h \in EventRec /\ h = q[1] /\ 1 \in DOMAIN q
  BY <1>1 DEF h
<1>3. \A i \in DOMAIN x : x[i] = q[i + 1] /\ i + 1 \in DOMAIN q /\ i + 1 # 1
  BY <1>1 DEF x
<1>4. \A i, j \in DOMAIN x : i + 1 = j + 1 => i = j
  BY <1>1 DEF x
<1>5. Fits(x) /\ (h.kind \in OfExport => h.of \in Export) /\ (h.kind \in OfProducer => h.of \in Producer)
  BY <1>2, <1>3 DEF Fits
<1>6. Quiet(q) => Quiet(x)
  BY <1>3 DEF Quiet
<1>7. Once(q) => Once(x)
  BY <1>3, <1>4 DEF Once
<1>8. Once(q) /\ h.kind = "roomClosed" => Quiet(x)
  BY <1>2, <1>3 DEF Once, Quiet
<1>9. h.kind = "roomClosed" => ~Quiet(q)
  BY <1>2 DEF Quiet
<1> QED BY <1>1, <1>2, <1>5, <1>6, <1>7, <1>8, <1>9 DEF x, h

LEMMA Single ==
  ASSUME NEW k \in OfExport \union OfProducer \union OfRoom,
         NEW o \in Export \union Producer \union {None},
         k \in OfExport => o \in Export, k \in OfProducer => o \in Producer
  PROVE  /\ <<R!Ev(k, o)>> \in Seq(EventRec) /\ Fits(<<R!Ev(k, o)>>) /\ Once(<<R!Ev(k, o)>>)
         /\ k # "roomClosed" => Quiet(<<R!Ev(k, o)>>)
BY DEF EventRec, Fits, Once, Quiet, R!Ev

LEMMA Nothing == <<>> \in Seq(EventRec) /\ Fits(<<>>) /\ Quiet(<<>>) /\ Once(<<>>)
BY DEF Fits, Quiet, Once

LEMMA ToldOf ==
  ASSUME R!RecordingAssumption, NEW k \in OfExport, NEW p
  PROVE  R!Tell(k, p) \in Seq(EventRec) /\ Fits(R!Tell(k, p)) /\ Quiet(R!Tell(k, p))
<1> DEFINE W == {R!Ev(k, e) : e \in R!Consumers(p)}
<1>1. IsFiniteSet(Export)
  BY DEF R!RecordingAssumption, R!IsFiniteSet, IsFiniteSet
<1>2. R!Consumers(p) \subseteq Export
  BY DEF R!Consumers
<1>3. IsFiniteSet(R!Consumers(p))
  BY <1>1, <1>2, FS_Subset
<1> DEFINE T == R!Consumers(p)
          g == [e \in T |-> R!Ev(k, e)]
<1>4. IsFiniteSet(W)
  <2>1. g \in Surjection(T, W)
    BY DEF Surjection
  <2> QED BY <1>3, <2>1, FS_Surjection
<1> HIDE DEF W
<1>5. Cardinality(W) \in Nat /\ ExistsBijection(1..Cardinality(W), W)
  BY <1>4, FS_CardinalityType
<1>6. PICK f \in [1..Cardinality(W) -> W] : \A i, j \in 1..Cardinality(W) : f[i] = f[j] => i = j
  BY <1>5 DEF ExistsBijection, Bijection, Injection, IsInjective
<1>7. R!SetToSeq(W) \in [1..Cardinality(W) -> W]
  BY <1>6 DEF R!SetToSeq, R!IsInjective, R!Cardinality, Cardinality
<1> DEFINE n == Cardinality(W) q == R!SetToSeq(W)
<1>8. \A x \in W : x \in EventRec /\ x.kind = k /\ x.of \in Export
  BY <1>2 DEF W, EventRec, R!Ev
<1>9. n \in Nat /\ q \in [1..n -> W]
  BY <1>5, <1>7
<1> HIDE DEF n, q
<1>10. q \in Seq(EventRec) /\ \A i \in DOMAIN q : q[i].kind = k /\ q[i].of \in Export
  BY <1>8, <1>9
<1>11. Fits(q) /\ Quiet(q)
  BY <1>10 DEF Fits, Quiet, OfExport, OfProducer
<1> QED BY <1>10, <1>11 DEF q, W, R!Tell
-----------------------------------------------------------------------------
(* Steps that leave the exports and the threads alone.                     *)

LEMMA Elements ==
  ASSUME RecTypes
  PROVE  /\ \A n \in DOMAIN process : process[n] \in ProcessRec /\ process[n].export \in Export
         /\ \A i \in DOMAIN slots : slots[i] \in SlotRec /\ slots[i].export \in Export
                                     /\ slots[i].process \in Nat
         /\ \A t \in R!Thread :
              /\ thread[t] \in ThreadRec /\ thread[t].export \in Export \union {None}
              /\ thread[t].producer \in Producer \union {None}
         /\ \A p \in Producer :
              producer[p] \in ProducerRec /\ producer[p].export \in Export \union {None}
         /\ \A e \in Export : export[e] \in ExportRec
<1>1. \A n \in DOMAIN process : process[n] \in ProcessRec
  BY DEF RecTypes
<1>2. \A i \in DOMAIN slots : slots[i] \in SlotRec
  BY DEF RecTypes
<1>3. \A t \in R!Thread : thread[t] \in ThreadRec
  BY DEF RecTypes
<1>4. /\ \A p \in Producer : producer[p] \in ProducerRec
      /\ \A e \in Export : export[e] \in ExportRec
  BY DEF RecTypes
<1> QED BY <1>1, <1>2, <1>3, <1>4 DEF ProcessRec, SlotRec, ThreadRec, ProducerRec

LEMMA NoExportKept ==
  /\ ~R!NoExport.paused /\ R!NoExport.consumer = "none"
  /\ [R!NoExport EXCEPT !.paused = FALSE] = R!NoExport
  /\ [R!NoExport EXCEPT !.consumer = "none"] = R!NoExport
<1>1. R!NoExport \in ExportRec
  BY Nothing DEF R!NoExport, ExportRec
<1>2. R!NoExport.paused = FALSE /\ R!NoExport.consumer = "none"
  BY DEF R!NoExport
<1>3. ASSUME NEW r \in ExportRec
      PROVE  /\ \A c \in BOOLEAN : r.paused = c => [r EXCEPT !.paused = c] = r
             /\ \A c \in STRING : r.consumer = c => [r EXCEPT !.consumer = c] = r
  BY DEF ExportRec
<1> QED BY <1>1, <1>2, <1>3

LEMMA Init_RecIInv == ASSUME R!RecordingAssumption, R!Init PROVE RecIInv
<1> USE DEF R!Init, R!Thread
<1>1. RecTypes
  BY Nothing DEF RecTypes, StudioRec, ProducerRec, ExportRec, ThreadRec, R!NoProducer, R!NoExport, R!IdleThread
<1>2. Core
  BY DEF Core, Steps, Builds, Apart, Exports, Slots, Hooked, Idle, R!OpenIsLinked, R!ProcessesOwned,
         R!Slotted, R!NoProducer, R!NoExport, R!IdleThread, Building
<1>3. Told
  BY Nothing DEF Told
<1> QED BY <1>1, <1>2, <1>3 DEF RecIInv

LEMMA Still ==
  ASSUME RecTypes, Core, UNCHANGED <<export, slots, process, thread, closing>>,
         \A p \in Producer : producer'[p].export = producer[p].export,
         \A e \in Export : e \in stopping' => e \in stopping \/ R!Slotted(e)
  PROVE  Core'
<1> USE DEF Core
<1>1. Steps'
  BY DEF Steps
<1>2. Builds'
  BY DEF Builds, R!Slotted
<1>3. Apart'
  BY DEF Apart
<1>4. Exports'
  <2>1. \A e \in Export : R!Slotted(e) => export[e].state # "none"
    BY DEF Slots, Exports, R!NoExport
  <2> QED BY <2>1 DEF Exports
<1>5. Slots'
  BY DEF Slots, R!Slotted
<1>6. Hooked'
  BY DEF Hooked, R!Slotted, Well
<1>7. Idle'
  BY DEF Idle, Well
<1>8. (R!OpenIsLinked)'
  <2>1. \A e \in Export : export[e].state # "none" => export[e].producer \in Producer
    BY DEF Exports
  <2> QED BY <2>1 DEF R!OpenIsLinked
<1>9. (R!ProcessesOwned)'
  BY DEF R!ProcessesOwned
<1> QED BY <1>1, <1>2, <1>3, <1>4, <1>5, <1>6, <1>7, <1>8, <1>9

LEMMA Turns ==
  ASSUME RecTypes, Core, NEW t \in R!Thread, NEW r \in ThreadRec,
         thread[t].pc \in {"idle", "next", "link"},
         r.pc \in {"idle", "next", "link"}, r.export = None, ~r.resumes,
         r.pc = "link" => r.producer \in Producer,
         thread' = [thread EXCEPT ![t] = r],
         UNCHANGED <<producer, export, slots, process, closing, stopping>>
  PROVE  Core'
<1> USE DEF Core
<1>1. thread'[t] = r /\ \A u \in R!Thread : u # t => thread'[u] = thread[u]
  BY DEF RecTypes
<1>2. thread[t].export = None
  BY DEF Steps
<1>3. Steps'
  BY <1>1 DEF Steps, Building
<1>4. Builds'
  BY <1>1 DEF Builds, R!Slotted, Building
<1>5. Apart'
  BY <1>1 DEF Apart
<1>6. Exports'
  BY DEF Exports
<1>7. Slots'
  BY DEF Slots, R!Slotted
<1>8. Hooked'
  BY <1>1, <1>2 DEF Hooked, R!Slotted, Well
<1>9. Idle'
  BY <1>1 DEF Idle, Well
<1>10. (R!OpenIsLinked)'
  BY DEF R!OpenIsLinked
<1>11. (R!ProcessesOwned)'
  BY <1>1 DEF R!ProcessesOwned
<1> QED BY <1>3, <1>4, <1>5, <1>6, <1>7, <1>8, <1>9, <1>10, <1>11

LEMMA Closes ==
  ASSUME R!RecordingAssumption, RecTypes, Core, NEW E \in SUBSET Export,
         \A e \in E : export[e].state # "none",
         UNCHANGED <<slots, process, thread>>, stopping' \subseteq stopping,
         closing' = R!Scheduled(E),
         \A e \in Export :
           /\ export[e].state = "none" => export'[e] = export[e]
           /\ export'[e].state = export[e].state /\ export'[e].producer = export[e].producer
           /\ export'[e].hooked = export[e].hooked /\ (export[e].raced => export'[e].raced)
           /\ e \in E /\ export[e].state # "failed" /\ ~export[e].closed =>
                /\ export'[e].closed /\ ~export'[e].linked
                /\ (\E t \in R!Thread : thread[t].export = e) => export'[e].raced
           /\ ~(e \in E /\ export[e].state # "failed" /\ ~export[e].closed) =>
                export'[e].closed = export[e].closed /\ export'[e].linked = export[e].linked,
         \A p \in Producer :
           /\ producer[p].export \notin E => producer'[p].export = producer[p].export
           /\ producer'[p].export \in {producer[p].export, None}
  PROVE  Core'
<1> USE DEF Core
<1> DEFINE Shut(e) == e \in E /\ export[e].state # "failed" /\ ~export[e].closed
<1>1. \A e \in Export :
        /\ export[e].state = "none" => export'[e] = export[e] /\ ~Shut(e)
        /\ export'[e].state = export[e].state /\ export'[e].producer = export[e].producer
        /\ export'[e].hooked = export[e].hooked /\ (export[e].raced => export'[e].raced)
        /\ Shut(e) => /\ export'[e].closed /\ ~export'[e].linked
                      /\ (\E t \in R!Thread : thread[t].export = e) => export'[e].raced
        /\ ~Shut(e) => export'[e].closed = export[e].closed /\ export'[e].linked = export[e].linked
  OBVIOUS
<1>2. \A e \in Export : /\ e \in closing => e \in closing'
                        /\ e \in closing' => e \in closing \/ Shut(e)
                        /\ Shut(e) /\ export[e].hooked => e \in closing'
  BY DEF R!Scheduled
<1>3. \A e \in Export : export[e].state \in {"building", "built"} /\ ~export'[e].closed => e \notin E
  BY <1>1
<1>4. UNCHANGED <<slots, process, thread>> /\ None \notin Export
  BY DEF R!RecordingAssumption
<1> HIDE DEF Shut
<1>5. Steps'
  BY <1>4 DEF Steps
<1>6. Builds'
  BY <1>1, <1>4 DEF Builds, Steps, R!Slotted
<1>7. Apart'
  <2>1. \A t \in R!Thread : thread[t].export # None => thread[t].export \in Export
    BY DEF RecTypes, ThreadRec
  <2> QED BY <1>1, <1>4, <2>1 DEF Apart
<1>8. Exports'
  <2>1. \A e \in Export : export'[e].state = "none" => export'[e] = R!NoExport
    BY <1>1 DEF Exports
  <2>2. \A e \in Export :
          /\ export'[e].state # "none" => export'[e].producer \in Producer
          /\ export'[e].linked /\ export'[e].closed => export'[e].raced
          /\ e \in stopping' => export'[e].state # "none"
    BY <1>1 DEF Exports
  <2>3. \A e \in Export : e \in closing' => export'[e].closed
    BY <1>1, <1>2 DEF Exports
  <2>4. \A p \in Producer : producer'[p].export # None => export'[producer'[p].export].state # "none"
    <3>1. \A p \in Producer : producer[p].export # None => producer[p].export \in Export
      BY DEF RecTypes, ProducerRec
    <3> QED BY <1>1, <3>1 DEF Exports
  <2> QED BY <2>1, <2>2, <2>3, <2>4 DEF Exports
<1>9. Slots'
  BY <1>1, <1>2, <1>4 DEF Slots, R!Slotted
<1>10. Hooked'
  BY <1>1, <1>4 DEF Hooked, R!Slotted, Well
<1>11. Idle'
  BY <1>1, <1>4 DEF Idle, Well, Steps, Building
<1>12. (R!OpenIsLinked)'
  <2>1. \A e \in Export : export[e].state # "none" => export[e].producer \in Producer
    BY DEF Exports
  <2> QED BY <1>1, <1>3, <2>1 DEF R!OpenIsLinked
<1>13. (R!ProcessesOwned)'
  BY <1>1, <1>4, Elements DEF R!ProcessesOwned
<1> QED BY <1>5, <1>6, <1>7, <1>8, <1>9, <1>10, <1>11, <1>12, <1>13
-----------------------------------------------------------------------------
(* Building an export.                                                     *)

LEMMA Builders ==
  ASSUME RecTypes, Steps, NEW t \in R!Thread
  PROVE  /\ thread[t].export # None => thread[t].pc \in Building /\ thread[t].export \in Export
         /\ thread[t].pc \in {"idle", "next", "link"} => thread[t].export = None
BY Elements DEF Steps, ThreadRec, Building

LEMMA Links ==
  ASSUME R!RecordingAssumption, RecTypes, Core, NEW t \in R!Thread, R!Link(t) PROVE Core'
<1> USE DEF Core
<1>0. PICK e \in R!Fresh :
        LET p == thread[t].producer old == R!Superseded(p) IN
        /\ export' = [R!ClosedExports(export, old) EXCEPT ![e].state = "building", ![e].producer = p]
        /\ closing' = R!Scheduled(old)
        /\ producer' = [producer EXCEPT ![p].export = e]
        /\ thread' = [thread EXCEPT ![t].pc = "consume", ![t].export = e]
  BY DEF R!Link
<1> DEFINE p == thread[t].producer
           old == R!Superseded(p)
           Shut(x) == x \in old /\ export[x].state # "failed" /\ ~export[x].closed
<1>1. /\ thread[t].pc = "link" /\ UNCHANGED <<slots, process, stopping>>
      /\ e \in Export /\ export[e].state = "none" /\ export[e] = R!NoExport /\ p \in Producer
      /\ None \notin Export
  <2>1. R!At(t, "link") /\ UNCHANGED <<slots, process, stopping>>
    BY DEF R!Link, R!writers
  <2>2. e \in Export /\ export[e].state = "none"
    BY DEF R!Fresh
  <2> QED BY <2>1, <2>2 DEF R!At, Exports, Steps, R!RecordingAssumption
<1>2. old \subseteq Export /\ e \notin old /\ \A x \in old : producer[p].export = x /\ export[x].state # "none"
  BY <1>1, Elements DEF R!Superseded, Exports
<1>3. /\ export'[e].state = "building" /\ export'[e].producer = p /\ ~export'[e].closed
      /\ ~export'[e].hooked /\ ~export'[e].linked
  <2> DEFINE X == R!ClosedExports(export, old)
  <2>1. X \in [Export -> {X[x] : x \in Export}] /\ X[e] = export[e]
    BY <1>1, <1>2 DEF R!ClosedExports
  <2>2. export' = [X EXCEPT ![e].state = "building", ![e].producer = p]
    BY <1>0
  <2>3. X[e] = R!NoExport
    BY <1>1, <2>1
  <2> HIDE DEF X
  <2> QED BY <1>1, <2>1, <2>2, <2>3 DEF R!NoExport
<1>4. \A x \in Export \ {e} :
        /\ export[x].state = "none" => export'[x] = export[x] /\ ~Shut(x)
        /\ export'[x].state = export[x].state /\ export'[x].producer = export[x].producer
        /\ export'[x].hooked = export[x].hooked /\ (export[x].raced => export'[x].raced)
        /\ Shut(x) => /\ export'[x].closed /\ ~export'[x].linked
                      /\ (\E u \in R!Thread : thread[u].export = x) => export'[x].raced
        /\ ~Shut(x) => export'[x].closed = export[x].closed /\ export'[x].linked = export[x].linked
  <2> DEFINE X == R!ClosedExports(export, old)
  <2>1. \A x \in Export \ {e} : export'[x] = X[x]
    BY <1>0 DEF R!ClosedExports
  <2>2. \A x \in Export : X[x] = IF Shut(x)
          THEN [export[x] EXCEPT !.closed = TRUE, !.linked = FALSE,
                                 !.raced = @ \/ \E u \in R!Thread : thread[u].export = x]
          ELSE export[x]
    BY DEF R!ClosedExports
  <2>3. \A x \in Export : Shut(x) => export[x].state # "none"
    BY <1>2
  <2> HIDE DEF X, Shut
  <2>4. ASSUME NEW x \in Export \ {e}, Shut(x)
        PROVE  /\ export'[x].state = export[x].state /\ export'[x].producer = export[x].producer
               /\ export'[x].hooked = export[x].hooked /\ (export[x].raced => export'[x].raced)
               /\ export'[x].closed /\ ~export'[x].linked
               /\ (\E u \in R!Thread : thread[u].export = x) => export'[x].raced
    <3>1. export'[x] = [export[x] EXCEPT !.closed = TRUE, !.linked = FALSE,
                          !.raced = @ \/ \E u \in R!Thread : thread[u].export = x]
      BY <2>1, <2>2, <2>4
    <3>2. export[x] \in ExportRec
      BY Elements
    <3> QED BY <3>1, <3>2 DEF ExportRec
  <2>5. ASSUME NEW x \in Export \ {e}, ~Shut(x) PROVE export'[x] = export[x]
    BY <2>1, <2>2, <2>5
  <2> QED BY <2>3, <2>4, <2>5
<1>5. \A x \in Export : /\ x \in closing => x \in closing'
                        /\ x \in closing' => x \in closing \/ Shut(x)
                        /\ Shut(x) /\ export[x].hooked => x \in closing'
  BY <1>0 DEF R!Scheduled
<1>6. /\ \A q \in Producer \ {p} : producer'[q].export = producer[q].export
      /\ producer'[p].export = e
  BY <1>0, <1>1, Elements DEF RecTypes, ProducerRec
<1>7. /\ thread'[t].pc = "consume" /\ thread'[t].export = e /\ thread'[t].producer = p
      /\ ~thread'[t].resumes /\ thread[t].export = None
      /\ \A u \in R!Thread \ {t} : thread'[u] = thread[u] /\ thread[u].export # e
  <2>1. /\ thread'[t].pc = "consume" /\ thread'[t].export = e /\ thread'[t].producer = p
        /\ thread'[t].resumes = thread[t].resumes
        /\ \A u \in R!Thread \ {t} : thread'[u] = thread[u]
    BY <1>0 DEF RecTypes, ThreadRec
  <2>2. \A u \in R!Thread : thread[u].export # e
    BY <1>1, Builders DEF Builds
  <2> QED BY <1>1, <2>1, <2>2 DEF Steps
<1>8. ~R!Slotted(e)
  BY <1>1 DEF Slots, R!NoExport
<1>9. \A x \in Export : Shut(x) => producer[p].export = x
  BY <1>2
<1> HIDE DEF Shut, old, p
<1>10. Steps'
  BY <1>1, <1>7 DEF Steps, Building
<1>11. Builds'
  <2>1. ASSUME NEW u \in R!Thread \ {t}, thread[u].pc \in Building
        PROVE  thread[u].export \in Export \ {e} /\ thread'[u] = thread[u]
    BY <1>7, <2>1 DEF Steps
  <2> QED BY <1>1, <1>3, <1>4, <1>7, <1>8, <2>1 DEF Builds, R!Slotted
<1>12. Apart'
  BY <1>4, <1>7, Builders DEF Apart
<1>13. Exports'
  <2>1. \A x \in Export : export'[x].state = "none" => export'[x] = R!NoExport
    BY <1>3, <1>4 DEF Exports
  <2>2. \A x \in Export :
          /\ export'[x].state # "none" => export'[x].producer \in Producer
          /\ export'[x].linked /\ export'[x].closed => export'[x].raced
          /\ x \in stopping' => export'[x].state # "none"
    BY <1>1, <1>3, <1>4 DEF Exports
  <2>3. \A x \in Export : x \in closing' => export'[x].closed
    <3>1. e \notin closing'
      BY <1>1, <1>2, <1>5 DEF Exports, R!NoExport, Shut, old
    <3> QED BY <1>4, <1>5, <3>1 DEF Exports
  <2>4. \A q \in Producer : producer'[q].export # None => export'[producer'[q].export].state # "none"
    BY <1>3, <1>4, <1>6, Elements DEF Exports
  <2> QED BY <2>1, <2>2, <2>3, <2>4 DEF Exports
<1>14. Slots'
  BY <1>1, <1>3, <1>4, <1>5, <1>8 DEF Slots, R!Slotted
<1>15. Hooked'
  BY <1>1, <1>3, <1>4, <1>7 DEF Hooked, R!Slotted, Well
<1>16. Idle'
  BY <1>1, <1>3, <1>4, <1>7 DEF Idle, Well, Steps, Building
<1>17. (R!OpenIsLinked)'
  <2>1. \A x \in Export : export[x].state # "none" => export[x].producer \in Producer
    BY DEF Exports
  <2>2. ASSUME NEW x \in Export, export'[x].state \in {"building", "built"}, ~export'[x].closed
        PROVE  producer'[export'[x].producer].export = x
    <3>1. CASE x = e
      BY <1>3, <1>6, <3>1
    <3>2. CASE x # e
      <4>1. /\ ~Shut(x) /\ export[x].state \in {"building", "built"} /\ ~export[x].closed
            /\ export'[x].producer = export[x].producer
        BY <1>4, <2>2, <3>2
      <4>2. producer[export[x].producer].export = x /\ export[x].producer \in Producer
        BY <2>1, <4>1 DEF R!OpenIsLinked
      <4>3. export[x].producer # p
        BY <1>1, <4>1, <4>2 DEF Shut, old, R!Superseded
      <4> QED BY <1>6, <4>1, <4>2, <4>3
    <3> QED BY <3>1, <3>2
  <2> QED BY <2>2 DEF R!OpenIsLinked
<1>18. (R!ProcessesOwned)'
  <2>1. \A n \in DOMAIN process : process[n].state = "running" => process[n].export # e
    BY <1>1, <1>7, <1>8, Elements DEF R!ProcessesOwned, Steps, R!NoExport, R!Slotted
  <2> QED BY <1>1, <1>3, <1>4, <1>7, <2>1, Elements DEF R!ProcessesOwned
<1> QED BY <1>10, <1>11, <1>12, <1>13, <1>14, <1>15, <1>16, <1>17, <1>18

LEMMA Advances ==
  ASSUME RecTypes, Core, NEW t \in R!Thread, NEW e, e = thread[t].export,
         NEW q \in {"register", "slot"}, thread[t].pc \in {"consume", "register"},
         thread' = [thread EXCEPT ![t].pc = q],
         UNCHANGED <<producer, slots, process, stopping, closing>>,
         \A x \in Export : x # e => export'[x] = export[x],
         /\ export'[e].state = export[e].state /\ export'[e].producer = export[e].producer
         /\ export'[e].closed = export[e].closed /\ export'[e].raced = export[e].raced
         /\ export'[e].hooked = (export[e].hooked \/ q = "slot")
  PROVE  Core'
<1> USE DEF Core
<1>1. /\ e \in Export /\ ~thread[t].resumes /\ export[e].state = "building" /\ ~R!Slotted(e)
      /\ export[e].closed => export[e].raced
  BY DEF Steps, Builds, Building
<1>2. /\ thread'[t].pc = q /\ thread'[t].export = e /\ ~thread'[t].resumes
      /\ thread'[t].producer = thread[t].producer
      /\ \A u \in R!Thread \ {t} : thread'[u] = thread[u]
  BY <1>1 DEF RecTypes, ThreadRec
<1>3. \A x \in Export :
        /\ x # e => export'[x] = export[x]
        /\ export'[x].state = export[x].state /\ export'[x].producer = export[x].producer
        /\ export'[x].closed = export[x].closed /\ export'[x].raced = export[x].raced
        /\ export'[x].hooked = (export[x].hooked \/ (x = e /\ q = "slot"))
  BY <1>1, Elements DEF ExportRec
<1>4. Steps'
  BY <1>1, <1>2 DEF Steps, Building
<1>5. Builds'
  <2>1. ASSUME NEW u \in R!Thread \ {t}, thread[u].pc \in Building
        PROVE  thread[u].export \in Export /\ thread'[u] = thread[u]
    BY <1>2, <2>1 DEF Steps
  <2>2. \A x \in Export : export[x].hooked => export'[x].hooked
    BY <1>3
  <2>3. export'[e].hooked \/ q = "register"
    BY <1>1, <1>3
  <2>5. ASSUME NEW u \in R!Thread, thread'[u].pc \in Building
        PROVE  LET x == thread'[u].export IN
               /\ ~thread'[u].resumes => export'[x].state = "building"
               /\ thread'[u].resumes => export'[x].state # "none"
               /\ thread'[u].pc \in {"slot", "spawn", "own"} => export'[x].hooked
               /\ thread'[u].pc \in {"consume", "register", "slot"} => ~R!Slotted(x)
               /\ export'[x].closed => export'[x].raced
    <3>1. CASE u = t
      BY <1>1, <1>2, <1>3, <2>3, <2>5, <3>1
    <3>2. CASE u # t
      <4>1. thread[u].pc \in Building /\ thread[u].export \in Export /\ thread'[u] = thread[u]
        BY <1>2, <2>1, <2>5, <3>2
      <4> DEFINE y == thread[u].export
      <4>2. /\ ~thread[u].resumes => export[y].state = "building"
            /\ thread[u].resumes => export[y].state # "none"
            /\ thread[u].pc \in {"slot", "spawn", "own"} => export[y].hooked
            /\ thread[u].pc \in {"consume", "register", "slot"} => ~R!Slotted(y)
            /\ export[y].closed => export[y].raced
        BY <4>1 DEF Builds
      <4>3. /\ export'[y].state = export[y].state /\ export'[y].closed = export[y].closed
            /\ export'[y].raced = export[y].raced /\ (export[y].hooked => export'[y].hooked)
        BY <1>3, <2>2, <4>1
      <4> HIDE DEF Core
      <4> QED BY <4>1, <4>2, <4>3
    <3> QED BY <3>1, <3>2
  <2> QED BY <2>5 DEF Builds, R!Slotted, Building
<1>6. Apart'
  <2>1. \A u \in R!Thread : /\ thread'[u].export = thread[u].export
                            /\ thread'[u].resumes = thread[u].resumes
                            /\ thread[u].export # None => thread[u].export \in Export
    BY <1>1, <1>2, Builders DEF Steps
  <2> QED BY <1>3, <2>1 DEF Apart
<1>7. Exports'
  BY <1>1, <1>3, Elements DEF Exports
<1>8. Slots'
  BY <1>1, <1>3 DEF Slots, R!Slotted
<1>9. Hooked'
  <2>1. ASSUME NEW x \in Export, Well(x), export'[x].hooked, ~export[x].closed
        PROVE  R!Slotted(x) \/ \E u \in R!Thread : thread'[u].pc = "slot" /\ thread'[u].export = x
    <3>1. CASE x = e /\ q = "slot"
      BY <1>2, <3>1
    <3>2. CASE ~(x = e /\ q = "slot")
      <4>1. R!Slotted(x) \/ \E u \in R!Thread : thread[u].pc = "slot" /\ thread[u].export = x
        BY <1>3, <2>1, <3>2 DEF Hooked
      <4> QED BY <1>2, <4>1
    <3> QED BY <3>1, <3>2
  <2> QED BY <1>3, <2>1 DEF Hooked, R!Slotted, Well
<1>10. Idle'
  BY <1>2, <1>3 DEF Idle, Well, Steps, Building
<1>11. (R!OpenIsLinked)'
  BY <1>3 DEF R!OpenIsLinked
<1>12. (R!ProcessesOwned)'
  BY <1>2, <1>3, Elements DEF R!ProcessesOwned
<1> QED BY <1>4, <1>5, <1>6, <1>7, <1>8, <1>9, <1>10, <1>11, <1>12

LEMMA DoneIs ==
  ASSUME RecTypes, NEW t \in R!Thread, R!Done(t)
  PROVE  /\ thread'[t].pc \in {"idle", "next"} /\ thread'[t].export = None /\ ~thread'[t].resumes
         /\ \A u \in R!Thread \ {t} : thread'[u] = thread[u]
         /\ thread' \in [R!Thread -> ThreadRec]
<1> DEFINE r == [R!IdleThread EXCEPT !.todo = thread[t].todo,
                                     !.pc = IF t = "starter" THEN "next" ELSE "idle"]
<1>1. r \in ThreadRec /\ r.pc \in {"idle", "next"} /\ r.export = None /\ ~r.resumes
  BY Elements DEF R!IdleThread, ThreadRec
<1>2. thread' = [thread EXCEPT ![t] = r]
  BY DEF R!Done
<1> HIDE DEF r
<1> QED BY <1>1, <1>2 DEF RecTypes

LEMMA Ends ==
  ASSUME R!RecordingAssumption, RecTypes, Core, NEW t \in R!Thread, NEW e, e = thread[t].export,
         thread[t].pc \in {"consume", "slot", "spawn"}, R!Done(t),
         UNCHANGED <<producer, slots, process, stopping, closing>>,
         \A x \in Export : x # e => export'[x] = export[x],
         /\ export'[e].producer = export[e].producer
         /\ export'[e].closed = export[e].closed /\ export'[e].raced = export[e].raced
         /\ export'[e].hooked = export[e].hooked /\ export'[e].linked = export[e].linked,
         (export'[e].state = export[e].state /\ thread[t].pc = "spawn")
         \/ (export'[e].state = "built" /\ ~thread[t].resumes /\ thread[t].pc = "spawn")
         \/ (export'[e].state = "failed" /\ ~thread[t].resumes)
  PROVE  Core'
<1> USE DEF Core
<1>1. /\ e \in Export /\ (~thread[t].resumes => export[e].state = "building")
      /\ export[e].state # "none" /\ thread[t].pc \in Building
  BY DEF Steps, Builds, Building
<1>2. /\ thread'[t].pc \in {"idle", "next"} /\ thread'[t].export = None /\ ~thread'[t].resumes
      /\ \A u \in R!Thread \ {t} : thread'[u] = thread[u]
  BY DoneIs
<1>3. \A x \in Export :
        /\ x # e => export'[x] = export[x]
        /\ export'[x].producer = export[x].producer
        /\ export'[x].closed = export[x].closed /\ export'[x].raced = export[x].raced
        /\ export'[x].hooked = export[x].hooked /\ export'[x].linked = export[x].linked
        /\ export'[x].state # export[x].state => x = e /\ export[x].state = "building"
        /\ export'[x].state # export[x].state => export'[x].state \in {"built", "failed"}
  BY <1>1
<1>4. \A u \in R!Thread \ {t} : thread[u].export = e => thread[u].resumes \/ thread[t].resumes
  BY <1>1 DEF Apart, R!RecordingAssumption
<1>5. Steps'
  BY <1>2 DEF Steps, Building
<1>6. Builds'
  <2>1. ASSUME NEW u \in R!Thread \ {t}, thread[u].pc \in Building
        PROVE  /\ thread[u].export \in Export /\ thread'[u] = thread[u]
               /\ ~thread[u].resumes => export'[thread[u].export].state = export[thread[u].export].state
    BY <1>1, <1>2, <1>3, <1>4, <2>1 DEF Steps
  <2>2. ASSUME NEW u \in R!Thread, thread'[u].pc \in Building, NEW x, x = thread'[u].export
        PROVE  /\ ~thread'[u].resumes => export'[x].state = "building"
               /\ thread'[u].resumes => export'[x].state # "none"
               /\ thread'[u].pc \in {"slot", "spawn", "own"} => export'[x].hooked
               /\ thread'[u].pc \in {"consume", "register", "slot"} => ~R!Slotted(x)
               /\ export'[x].closed => export'[x].raced
    <3>1. u # t /\ thread'[u] = thread[u] /\ thread[u].pc \in Building /\ x = thread[u].export
      BY <1>2, <2>2 DEF Building
    <3>2. x \in Export /\ (~thread[u].resumes => export'[x].state = export[x].state)
      BY <2>1, <3>1
    <3>3. /\ ~thread[u].resumes => export[x].state = "building"
          /\ thread[u].resumes => export[x].state # "none"
          /\ thread[u].pc \in {"slot", "spawn", "own"} => export[x].hooked
          /\ thread[u].pc \in {"consume", "register", "slot"} => ~R!Slotted(x)
          /\ export[x].closed => export[x].raced
      BY <3>1 DEF Builds
    <3>4. /\ export'[x].closed = export[x].closed /\ export'[x].raced = export[x].raced
          /\ export'[x].hooked = export[x].hooked
          /\ export[x].state # "none" => export'[x].state # "none"
      BY <1>3, <3>2
    <3> HIDE DEF Core
    <3> QED BY <3>1, <3>2, <3>3, <3>4
  <2> QED BY <2>2 DEF Builds, R!Slotted, Building
<1>7. Apart'
  BY <1>2, <1>3, Builders DEF Apart
<1>8. Exports'
  BY SMTT(20), <1>1, <1>3, Elements DEF Exports
<1>9. Slots'
  BY <1>3 DEF Slots, R!Slotted
<1>10. \A x \in Export : Well(x)' => Well(x)
  BY <1>3 DEF Well
<1>11. Hooked'
  BY SMTT(20), <1>1, <1>2, <1>3, <1>10 DEF Hooked, R!Slotted, Well
<1>12. Idle'
  BY <1>2, <1>10 DEF Idle, Steps, Building
<1>13. (R!OpenIsLinked)'
  BY <1>3 DEF R!OpenIsLinked
<1>14. (R!ProcessesOwned)'
  BY <1>2, <1>3, Elements DEF R!ProcessesOwned
<1> QED BY <1>5, <1>6, <1>7, <1>8, <1>9, <1>11, <1>12, <1>13, <1>14

LEMMA AddsSlot ==
  ASSUME R!RecordingAssumption, RecTypes, Core, NEW t \in R!Thread, NEW e, e = thread[t].export,
         R!AddSlot(t)
  PROVE  Core'
<1> USE DEF Core
<1> DEFINE s == [export |-> e, process |-> 0]
<1>1. /\ thread[t].pc = "slot" /\ e \in Export /\ ~thread[t].resumes
      /\ export[e].state = "building" /\ export[e].hooked /\ (export[e].closed => export[e].raced)
      /\ \A i \in DOMAIN slots : slots[i].export # e
      /\ UNCHANGED <<producer, process, stopping, closing>>
  BY DEF R!AddSlot, R!At, Steps, Builds, R!Slotted, Building
<1>2. slots' = Append(slots, s) /\ s.export = e /\ s.process = 0 /\ s \in SlotRec
  BY <1>1 DEF R!AddSlot, SlotRec
<1> HIDE DEF s
<1>3. /\ \A i \in DOMAIN slots : i \in DOMAIN slots' /\ slots'[i] = slots[i]
      /\ \A i \in DOMAIN slots' : (i \in DOMAIN slots /\ slots'[i] = slots[i])
                                  \/ (i = Len(slots) + 1 /\ slots'[i] = s)
      /\ Len(slots) + 1 \in DOMAIN slots' /\ slots'[Len(slots) + 1] = s
  BY <1>2 DEF RecTypes
<1>4. /\ \A u \in R!Thread \ {t} : thread'[u] = thread[u]
      /\ \/ /\ thread'[t].pc = "spawn" /\ thread'[t].export = e /\ ~thread'[t].resumes
            /\ thread'[t].producer = thread[t].producer
            /\ export' = export
         \/ /\ thread'[t].pc \in {"idle", "next"} /\ thread'[t].export = None /\ ~thread'[t].resumes
            /\ export' = [export EXCEPT ![e].state = "built"]
  <2>1. CASE producer[thread[t].producer].paused
    <3>1. R!Done(t) /\ export' = R!Built(t, export)
      BY <2>1 DEF R!AddSlot
    <3>2. export' = [export EXCEPT ![e].state = "built"]
      BY <1>1, <3>1 DEF R!Built
    <3> QED BY <3>1, <3>2, DoneIs
  <2>2. CASE ~producer[thread[t].producer].paused
    <3>1. thread' = [thread EXCEPT ![t].pc = "spawn"] /\ export' = export
      BY <2>2 DEF R!AddSlot, R!Goto
    <3> QED BY <1>1, <3>1 DEF RecTypes, ThreadRec
  <2> QED BY <2>1, <2>2
<1>5. \A x \in Export :
        /\ x # e => export'[x] = export[x]
        /\ export'[x].producer = export[x].producer
        /\ export'[x].closed = export[x].closed /\ export'[x].raced = export[x].raced
        /\ export'[x].hooked = export[x].hooked /\ export'[x].linked = export[x].linked
        /\ export'[x].state # export[x].state => x = e
        /\ export'[x].state # export[x].state => export'[x].state = "built"
  <2>1. \/ export' = export
        \/ export' = [export EXCEPT ![e].state = "built"]
    BY <1>4
  <2>2. ASSUME export' = [export EXCEPT ![e].state = "built"]
        PROVE  /\ \A x \in Export \ {e} : export'[x] = export[x]
               /\ export'[e] = [export[e] EXCEPT !.state = "built"]
    BY <1>1, <2>2 DEF RecTypes
  <2>3. \A r \in ExportRec : LET b == [r EXCEPT !.state = "built"] IN
          /\ b.producer = r.producer /\ b.closed = r.closed /\ b.raced = r.raced
          /\ b.hooked = r.hooked /\ b.linked = r.linked /\ b.state = "built"
    BY DEF ExportRec
  <2>4. CASE export' = export
    BY <2>4
  <2>5. CASE export' = [export EXCEPT ![e].state = "built"]
    <3>1. export[e] \in ExportRec
      BY <1>1, Elements
    <3>2. LET b == export'[e] r == export[e] IN
          /\ b.producer = r.producer /\ b.closed = r.closed /\ b.raced = r.raced
          /\ b.hooked = r.hooked /\ b.linked = r.linked /\ b.state = "built"
      BY <2>2, <2>3, <2>5, <3>1
    <3> QED BY <2>2, <2>5, <3>2
  <2> QED BY <2>1, <2>4, <2>5
<1>6. \A u \in R!Thread \ {t} : thread[u].export = e => thread[u].resumes /\ export[e].raced
  BY <1>1 DEF Apart, R!RecordingAssumption
<1>7. \A x \in Export : (R!Slotted(x)' => R!Slotted(x) \/ x = e) /\ (R!Slotted(x) => R!Slotted(x)')
                        /\ R!Slotted(e)'
  BY <1>2, <1>3 DEF R!Slotted
<1>8. Steps'
  BY <1>1, <1>4 DEF Steps, Building
<1>9. Builds'
  <2>1. ASSUME NEW u \in R!Thread, thread'[u].pc \in Building, NEW x, x = thread'[u].export
        PROVE  /\ ~thread'[u].resumes => export'[x].state = "building"
               /\ thread'[u].resumes => export'[x].state # "none"
               /\ thread'[u].pc \in {"slot", "spawn", "own"} => export'[x].hooked
               /\ thread'[u].pc \in {"consume", "register", "slot"} => ~R!Slotted(x)'
               /\ export'[x].closed => export'[x].raced
    <3>1. CASE u = t
      BY <1>1, <1>4, <2>1, <3>1 DEF Building
    <3>2. CASE u # t
      <4>1. /\ thread[u].pc \in Building /\ x \in Export /\ thread'[u] = thread[u]
            /\ thread[u].export = x
            /\ thread[u].resumes => thread[u].pc \in {"spawn", "own"}
        BY <1>4, <2>1, <3>2 DEF Steps
      <4>2. /\ ~thread[u].resumes => export[x].state = "building"
            /\ thread[u].resumes => export[x].state # "none"
            /\ thread[u].pc \in {"slot", "spawn", "own"} => export[x].hooked
            /\ thread[u].pc \in {"consume", "register", "slot"} => ~R!Slotted(x)
            /\ export[x].closed => export[x].raced
        BY <4>1 DEF Builds
      <4>3. x = e => thread[u].resumes
        BY <1>6, <3>2, <4>1
      <4>4. /\ export'[x].closed = export[x].closed /\ export'[x].raced = export[x].raced
            /\ export'[x].hooked = export[x].hooked
            /\ ~thread[u].resumes => export'[x].state = export[x].state
            /\ export[x].state # "none" => export'[x].state # "none"
        BY <1>5, <4>1, <4>3
      <4>5. x # e => (R!Slotted(x)' => R!Slotted(x))
        BY <1>7, <4>1
      <4> HIDE DEF Core
      <4> QED BY <4>1, <4>2, <4>3, <4>4, <4>5
    <3> QED BY <3>1, <3>2
  <2> QED BY <2>1 DEF Builds, Building
<1>10. Apart'
  BY <1>4, <1>5, Builders, <1>6 DEF Apart
<1>11. Exports'
  BY <1>1, <1>5, Elements DEF Exports
<1>12. Slots'
  <2>1. \A i, j \in DOMAIN slots' : slots'[i].export = slots'[j].export => i = j
    BY <1>1, <1>2, <1>3 DEF Slots
  <2>2. ASSUME NEW x \in Export, R!Slotted(x)'
        PROVE /\ export'[x].hooked
              /\ export'[x].closed /\ export'[x].state # "failed" => export'[x].raced \/ x \in closing'
    BY <1>1, <1>5, <1>7, <2>2 DEF Slots
  <2> QED BY <2>1, <2>2 DEF Slots
<1>13. \A x \in Export : Well(x)' => Well(x)
  BY <1>1, <1>5 DEF Well
<1>14. Hooked'
  <2>1. ASSUME NEW x \in Export, Well(x), export[x].hooked, ~export[x].closed, x # e
        PROVE  R!Slotted(x)' \/ \E u \in R!Thread : thread'[u].pc = "slot" /\ thread'[u].export = x
    <3>1. R!Slotted(x) \/ \E u \in R!Thread : thread[u].pc = "slot" /\ thread[u].export = x
      BY <2>1 DEF Hooked
    <3> QED BY <1>4, <1>7, <2>1, <3>1
  <2> QED BY <1>1, <1>5, <1>7, <1>13, <2>1 DEF Hooked
<1>15. Idle'
  <2>1. ASSUME NEW u \in R!Thread, thread'[u].pc \in {"spawn", "own"}, 
               export'[thread'[u].export].state # "failed", ~export'[thread'[u].export].raced,
               NEW i \in DOMAIN slots', slots'[i].export = thread'[u].export
        PROVE  slots'[i].process = 0
    <3>1. CASE u = t
      BY <1>1, <1>2, <1>3, <1>4, <2>1, <3>1
    <3>2. CASE u # t
      <4>1. /\ thread[u].pc \in {"spawn", "own"} /\ thread'[u] = thread[u]
            /\ thread[u].export \in Export
        BY <1>4, <2>1, <3>2 DEF Steps, Building
      <4>2. Well(thread[u].export) /\ thread[u].export # e
        BY <1>6, <1>13, <2>1, <3>2, <4>1 DEF Well
      <4> QED BY <1>2, <1>3, <2>1, <4>1, <4>2 DEF Idle
    <3> QED BY <3>1, <3>2
  <2> QED BY <2>1 DEF Idle, Well
<1>16. (R!OpenIsLinked)'
  BY <1>1, <1>5 DEF R!OpenIsLinked
<1>17. (R!ProcessesOwned)'
  BY <1>1, <1>3, <1>4, <1>5, Elements DEF R!ProcessesOwned
<1> QED BY <1>8, <1>9, <1>10, <1>11, <1>12, <1>14, <1>15, <1>16, <1>17

LEMMA Spawns ==
  ASSUME RecTypes, Core, NEW t \in R!Thread, thread[t].pc = "spawn", NEW e, e = thread[t].export,
         NEW n, thread'[t].pc = "own", thread'[t].process = n, thread'[t].export = e,
         thread'[t].resumes <=> thread[t].resumes, thread'[t].producer = thread[t].producer,
         \A u \in R!Thread : u # t => thread'[u] = thread[u],
         \A m \in DOMAIN process : m \in DOMAIN process' /\ process'[m] = process[m],
         \A m \in DOMAIN process' : m \in DOMAIN process \/ m = n,
         n \in DOMAIN process', process'[n].export = e,
         UNCHANGED <<producer, export, slots, stopping, closing>>
  PROVE  Core'
<1> USE DEF Core
<1>1. Steps'
  BY DEF Steps, Building
<1>2. Builds'
  BY DEF Builds, R!Slotted, Building
<1>3. Apart'
  BY DEF Apart
<1>4. Exports'
  BY DEF Exports
<1>5. Slots'
  BY DEF Slots, R!Slotted
<1>6. Hooked'
  BY DEF Hooked, R!Slotted, Well
<1>7. Idle'
  BY DEF Idle, Well
<1>8. (R!OpenIsLinked)'
  BY DEF R!OpenIsLinked
<1>9. (R!ProcessesOwned)'
  BY Elements DEF R!ProcessesOwned
<1> QED BY <1>1, <1>2, <1>3, <1>4, <1>5, <1>6, <1>7, <1>8, <1>9

LEMMA Owns ==
  ASSUME R!RecordingAssumption, RecTypes, Core, NEW t \in R!Thread, thread[t].pc = "own",
         NEW e, e = thread[t].export, NEW n, n = thread[t].process, R!Done(t),
         DOMAIN slots' = DOMAIN slots,
         \A i \in DOMAIN slots :
           /\ slots[i].export # e => slots'[i] = slots[i]
           /\ slots[i].export = e => slots'[i] = [export |-> e, process |-> n],
         UNCHANGED <<producer, process, stopping, closing>>,
         \A x \in Export : x # e => export'[x] = export[x],
         /\ export'[e].producer = export[e].producer
         /\ export'[e].closed = export[e].closed /\ export'[e].raced = export[e].raced
         /\ export'[e].hooked = export[e].hooked /\ export'[e].linked = export[e].linked,
         export'[e].state = export[e].state \/ (export'[e].state = "built" /\ ~thread[t].resumes)
  PROVE  Core'
<1> USE DEF Core
<1>1. /\ e \in Export /\ (~thread[t].resumes => export[e].state = "building")
      /\ export[e].state # "none" /\ thread[t].pc \in Building /\ e # None
      /\ n \in DOMAIN process /\ process[n].export = e
      /\ export[e].hooked /\ (export[e].closed => export[e].raced)
  BY DEF Steps, Builds, Building, R!RecordingAssumption
<1>2. /\ thread'[t].pc \in {"idle", "next"} /\ thread'[t].export = None /\ ~thread'[t].resumes
      /\ \A u \in R!Thread \ {t} : thread'[u] = thread[u]
  BY DoneIs
<1>3. \A x \in Export :
        /\ x # e => export'[x] = export[x]
        /\ export'[x].producer = export[x].producer
        /\ export'[x].closed = export[x].closed /\ export'[x].raced = export[x].raced
        /\ export'[x].hooked = export[x].hooked /\ export'[x].linked = export[x].linked
        /\ export'[x].state # export[x].state => x = e /\ export[x].state = "building"
        /\ export'[x].state # export[x].state => export'[x].state = "built"
  BY <1>1
<1>4. \A u \in R!Thread \ {t} : thread[u].export = e => export[e].raced
                                /\ (thread[u].resumes \/ thread[t].resumes)
  BY <1>1 DEF Apart
<1>5. \A i \in DOMAIN slots : slots'[i].export = slots[i].export
  OBVIOUS
<1>6. \A x \in Export : (\E i \in DOMAIN slots' : slots'[i].export = x) <=> R!Slotted(x)
  BY <1>5 DEF R!Slotted
<1>7. Steps'
  BY <1>2 DEF Steps, Building
<1>8. Builds'
  <2>1. ASSUME NEW u \in R!Thread \ {t}, thread[u].pc \in Building
        PROVE  /\ thread[u].export \in Export /\ thread'[u] = thread[u]
               /\ ~thread[u].resumes => export'[thread[u].export].state = export[thread[u].export].state
    BY <1>1, <1>2, <1>3, <1>4, <2>1 DEF Steps
  <2>2. ASSUME NEW u \in R!Thread, thread'[u].pc \in Building, NEW x, x = thread'[u].export
        PROVE  /\ ~thread'[u].resumes => export'[x].state = "building"
               /\ thread'[u].resumes => export'[x].state # "none"
               /\ thread'[u].pc \in {"slot", "spawn", "own"} => export'[x].hooked
               /\ thread'[u].pc \in {"consume", "register", "slot"} =>
                    ~\E i \in DOMAIN slots' : slots'[i].export = x
               /\ export'[x].closed => export'[x].raced
    <3>1. u # t /\ thread'[u] = thread[u] /\ thread[u].pc \in Building /\ x = thread[u].export
      BY <1>2, <2>2 DEF Building
    <3>2. x \in Export /\ (~thread[u].resumes => export'[x].state = export[x].state)
      BY <2>1, <3>1
    <3>3. /\ ~thread[u].resumes => export[x].state = "building"
          /\ thread[u].resumes => export[x].state # "none"
          /\ thread[u].pc \in {"slot", "spawn", "own"} => export[x].hooked
          /\ thread[u].pc \in {"consume", "register", "slot"} => ~R!Slotted(x)
          /\ export[x].closed => export[x].raced
      BY <3>1 DEF Builds
    <3>4. /\ export'[x].closed = export[x].closed /\ export'[x].raced = export[x].raced
          /\ export'[x].hooked = export[x].hooked
          /\ export[x].state # "none" => export'[x].state # "none"
      BY <1>3, <3>2
    <3>5. (\E i \in DOMAIN slots' : slots'[i].export = x) <=> R!Slotted(x)
      BY <1>6, <3>2
    <3> QED BY ONLY <3>1, <3>2, <3>3, <3>4, <3>5
  <2> HIDE DEF Core
  <2> QED BY <2>2 DEF Builds, R!Slotted, Building
<1>9. Apart'
  <2>1. ASSUME NEW u \in R!Thread, NEW v \in R!Thread, u # v,
               thread'[u].export # None, thread'[u].export = thread'[v].export
        PROVE  (thread'[u].resumes \/ thread'[v].resumes) /\ export'[thread'[u].export].raced
    <3>1. thread'[u] = thread[u] /\ thread'[v] = thread[v]
      BY ONLY <1>2, <2>1, u \in R!Thread, v \in R!Thread
    <3>2. (thread[u].resumes \/ thread[v].resumes) /\ export[thread[u].export].raced
      BY <2>1, <3>1 DEF Apart
    <3>3. thread[u].export \in Export
      BY <2>1, <3>1, Elements
    <3>4. export'[thread[u].export].raced = export[thread[u].export].raced
      BY ONLY <1>3, <3>3
    <3> QED BY ONLY <3>1, <3>2, <3>4
  <2> QED BY ONLY <2>1 DEF Apart
<1>10. Exports'
  <2>1. \A x \in Export :
          /\ export'[x].state = "none" => export'[x] = export[x] /\ export[x].state = "none"
          /\ export[x].state # "none" => export'[x].state # "none"
          /\ export'[x].state # "none" => export[x].state # "none"
    BY <1>1, <1>3
  <2> HIDE DEF Core
  <2>2. Exports
    BY DEF Core
  <2>3. ASSUME NEW x \in Export
        PROVE  /\ export'[x].state = "none" => export'[x] = R!NoExport
               /\ export'[x].state # "none" => export'[x].producer \in Producer
               /\ export'[x].linked /\ export'[x].closed => export'[x].raced
               /\ x \in stopping' => export'[x].state # "none"
               /\ x \in closing' => export'[x].closed
    <3>1. /\ export[x].state = "none" => export[x] = R!NoExport
          /\ export[x].state # "none" => export[x].producer \in Producer
          /\ export[x].linked /\ export[x].closed => export[x].raced
          /\ x \in stopping => export[x].state # "none"
          /\ x \in closing => export[x].closed
      BY <2>2 DEF Exports
    <3> QED BY <1>3, <2>1, <3>1
  <2>4. \A p \in Producer : producer'[p].export # None => export'[producer'[p].export].state # "none"
    BY <2>1, <2>2, Elements DEF Exports
  <2> QED BY <2>3, <2>4 DEF Exports
<1>11. Slots'
  <2>1. \A i, j \in DOMAIN slots' : slots'[i].export = slots'[j].export => i = j
    BY <1>5 DEF Slots
  <2> QED BY SMTT(20), <1>3, <1>6, <2>1 DEF Slots, R!Slotted
<1>12. \A x \in Export : Well(x)' => Well(x)
  BY <1>3 DEF Well
<1>13. Hooked'
  BY SMTT(20), <1>1, <1>2, <1>3, <1>6, <1>12 DEF Hooked, R!Slotted, Well
<1>14. Idle'
  <2>1. ASSUME NEW u \in R!Thread, thread'[u].pc \in {"spawn", "own"}, NEW x, x = thread'[u].export,
               export'[x].state # "failed", ~export'[x].raced,
               NEW i \in DOMAIN slots', slots'[i].export = x
        PROVE  slots'[i].process = 0
    <3>1. u # t /\ thread'[u] = thread[u] /\ thread[u].export = x /\ x \in Export
      BY <1>2, <2>1 DEF Steps, Building
    <3>2. Well(x) /\ x # e
      BY SMTT(20), <1>3, <1>4, <2>1, <3>1 DEF Well
    <3> QED BY <1>5, <2>1, <3>1, <3>2 DEF Idle
  <2> QED BY <2>1 DEF Idle, Well
<1>15. (R!OpenIsLinked)'
  BY <1>3 DEF R!OpenIsLinked
<1>16. (R!ProcessesOwned)'
  <2>1. ASSUME NEW m \in DOMAIN process, process[m].state = "running", NEW x, x = process[m].export,
               export'[x].state # "failed", ~export'[x].raced
        PROVE  \/ \E i \in DOMAIN slots' : slots'[i] = [export |-> x, process |-> m]
               \/ \E u \in R!Thread : thread'[u].pc = "own" /\ thread'[u].process = m
    <3>1. x \in Export /\ export[x].state # "failed" /\ ~export[x].raced
      BY <1>3, <2>1, Elements
    <3>2. (\E i \in DOMAIN slots : slots[i] = [export |-> x, process |-> m])
          \/ (\E u \in R!Thread : thread[u].pc = "own" /\ thread[u].process = m)
      BY <2>1, <3>1 DEF R!ProcessesOwned
    <3>3. CASE x # e
      <4>1. m # n
        BY <1>1, <2>1, <3>3
      <4>2. \A i \in DOMAIN slots : slots[i] = [export |-> x, process |-> m] => slots'[i] = slots[i]
        BY <3>3
      <4> QED BY <1>2, <3>2, <4>1, <4>2
    <3>4. CASE x = e
      <4>1. R!Slotted(e)
        BY <1>1, <1>4, <3>1, <3>4 DEF Hooked, Well
      <4>2. m = n
        <5>1. m # 0
          BY DEF RecTypes
        <5>2. \A i \in DOMAIN slots : slots[i].export = e => slots[i].process = 0
          BY <3>1, <3>4 DEF Idle, Well
        <5>3. \A i \in DOMAIN slots : slots[i] # [export |-> x, process |-> m]
          BY <3>4, <5>1, <5>2
        <5>4. PICK u \in R!Thread : thread[u].pc = "own" /\ thread[u].process = m
          BY <3>2, <5>3
        <5>5. thread[u].export = e
          BY <2>1, <3>4, <5>4 DEF Steps
        <5> QED BY <1>4, <3>1, <3>4, <5>4, <5>5
      <4> QED BY <3>4, <4>1, <4>2 DEF R!Slotted
    <3> QED BY <3>3, <3>4
  <2> QED BY <2>1 DEF R!ProcessesOwned
<1> QED BY <1>7, <1>8, <1>9, <1>10, <1>11, <1>13, <1>14, <1>15, <1>16
-----------------------------------------------------------------------------
(* A process that ends, an export that resumes, a slot that goes.          *)

LEMMA Resumes ==
  ASSUME R!RecordingAssumption, RecTypes, Core, NEW e \in Export, thread["events"].pc = "idle",
         export[e].linked, export[e].hooked,
         \A i \in DOMAIN slots : slots[i].export = e => slots[i].process = 0,
         thread'["events"].pc = "spawn", thread'["events"].export = e,
         thread'["events"].producer = export[e].producer, thread'["events"].resumes,
         thread'["starter"] = thread["starter"],
         \A x \in Export : x # e => export'[x] = export[x],
         /\ export'[e].state = export[e].state /\ export'[e].producer = export[e].producer
         /\ export'[e].closed = export[e].closed /\ export'[e].hooked = export[e].hooked
         /\ export'[e].linked = export[e].linked /\ (export[e].raced => export'[e].raced),
         thread["starter"].export = e => export'[e].raced,
         UNCHANGED <<producer, slots, process, stopping, closing>>
  PROVE  Core'
<1> USE DEF Core
<1>1. /\ export[e].state # "none" /\ export[e].producer \in Producer
      /\ export[e].closed => export[e].raced
  BY DEF Exports, R!NoExport
<1>2. \A x \in Export :
        /\ x # e => export'[x] = export[x]
        /\ export'[x].state = export[x].state /\ export'[x].producer = export[x].producer
        /\ export'[x].closed = export[x].closed /\ export'[x].hooked = export[x].hooked
        /\ export'[x].linked = export[x].linked /\ (export[x].raced => export'[x].raced)
  OBVIOUS
<1>3. R!Thread = {"starter", "events"} /\ thread["events"].export = None
  BY DEF R!Thread, Steps
<1>4. Steps'
  BY <1>1, <1>3 DEF Steps, Building
<1>5. Builds'
  <2>1. thread["starter"].pc \in Building => thread["starter"].export \in Export
    BY <1>3 DEF Steps
  <2>2. ASSUME NEW u \in R!Thread, thread'[u].pc \in Building, NEW x, x = thread'[u].export
        PROVE  /\ ~thread'[u].resumes => export'[x].state = "building"
               /\ thread'[u].resumes => export'[x].state # "none"
               /\ thread'[u].pc \in {"slot", "spawn", "own"} => export'[x].hooked
               /\ thread'[u].pc \in {"consume", "register", "slot"} =>
                    \A i \in DOMAIN slots : slots[i].export # x
               /\ export'[x].closed => export'[x].raced
    <3>1. CASE u = "events"
      BY <1>1, <1>2, <2>2, <3>1
    <3>2. CASE u = "starter"
      BY <1>2, <1>3, <2>1, <2>2, <3>2 DEF Builds, R!Slotted
    <3> QED BY <1>3, <3>1, <3>2
  <2> QED BY <2>2 DEF Builds, R!Slotted, Building
<1>6. Apart'
  BY <1>3 DEF Apart
<1>7. Exports'
  BY <1>1, <1>2, Elements DEF Exports
<1>8. Slots'
  BY <1>2 DEF Slots, R!Slotted
<1>9. Hooked'
  BY <1>2, <1>3 DEF Hooked, R!Slotted, Well
<1>10. Idle'
  BY <1>2, <1>3 DEF Idle, Well, Steps, Building
<1>11. (R!OpenIsLinked)'
  BY <1>2 DEF R!OpenIsLinked
<1>12. (R!ProcessesOwned)'
  BY <1>2, <1>3, Elements DEF R!ProcessesOwned
<1> QED BY <1>4, <1>5, <1>6, <1>7, <1>8, <1>9, <1>10, <1>11, <1>12

LEMMA Exits ==
  ASSUME RecTypes, Core, NEW n \in DOMAIN process, NEW e, e = process[n].export,
         DOMAIN process' = DOMAIN process, DOMAIN slots' = DOMAIN slots,
         \A m \in DOMAIN process : /\ m # n => process'[m] = process[m]
                                   /\ process'[m].export = process[m].export,
         process'[n].state = "gone",
         \A i \in DOMAIN slots :
           /\ slots[i] = [export |-> e, process |-> n] =>
                slots'[i].export = e /\ slots'[i].process = 0
           /\ slots[i] # [export |-> e, process |-> n] => slots'[i] = slots[i],
         \A x \in Export :
           /\ export[x].state = "none" => export'[x] = export[x]
           /\ export'[x].state = export[x].state /\ export'[x].producer = export[x].producer
           /\ export'[x].closed = export[x].closed /\ export'[x].hooked = export[x].hooked
           /\ export'[x].linked = export[x].linked /\ export'[x].raced = export[x].raced,
         UNCHANGED <<producer, thread, stopping, closing>>
  PROVE  Core'
<1> USE DEF Core
<1>1. \A i \in DOMAIN slots : slots'[i].export = slots[i].export
                              /\ (slots'[i].process = slots[i].process \/ slots'[i].process = 0)
  OBVIOUS
<1>2. \A x \in Export :
        /\ export'[x].state = export[x].state /\ export'[x].producer = export[x].producer
        /\ export'[x].closed = export[x].closed /\ export'[x].hooked = export[x].hooked
        /\ export'[x].linked = export[x].linked /\ export'[x].raced = export[x].raced
  OBVIOUS
<1>3. Steps'
  BY DEF Steps
<1>4. Builds'
  BY <1>1, <1>2 DEF Builds, R!Slotted, Steps
<1>5. Apart'
  BY <1>2, Builders DEF Apart
<1>6. Exports'
  BY <1>2, Elements DEF Exports
<1>7. Slots'
  BY <1>1, <1>2 DEF Slots, R!Slotted
<1>8. Hooked'
  BY <1>1, <1>2 DEF Hooked, R!Slotted, Well
<1>9. Idle'
  BY <1>1, <1>2 DEF Idle, Well, Steps, Building
<1>10. (R!OpenIsLinked)'
  BY <1>2 DEF R!OpenIsLinked
<1>11. (R!ProcessesOwned)'
  <2>1. ASSUME NEW m \in DOMAIN process, process'[m].state = "running", NEW x, x = process[m].export,
               export'[x].state # "failed", ~export'[x].raced
        PROVE  \/ \E i \in DOMAIN slots : slots'[i] = [export |-> x, process |-> m]
               \/ \E u \in R!Thread : thread[u].pc = "own" /\ thread[u].process = m
    <3>1. m # n /\ process[m].state = "running" /\ x \in Export
      BY <2>1, Elements
    <3>2. (\E i \in DOMAIN slots : slots[i] = [export |-> x, process |-> m])
          \/ (\E u \in R!Thread : thread[u].pc = "own" /\ thread[u].process = m)
      BY <1>2, <2>1, <3>1 DEF R!ProcessesOwned
    <3>3. [export |-> x, process |-> m] # [export |-> e, process |-> n]
      BY <3>1
    <3> QED BY <3>2, <3>3
  <2> QED BY <2>1 DEF R!ProcessesOwned
<1> QED BY <1>3, <1>4, <1>5, <1>6, <1>7, <1>8, <1>9, <1>10, <1>11

LEMMA Concat ==
  ASSUME NEW M, NEW a \in Seq(M), NEW b \in Seq(M), NEW w, w = a \o b
  PROVE  /\ w \in Seq(M) /\ Len(w) = Len(a) + Len(b)
         /\ \A i \in 1..Len(a) + Len(b) : w[i] = IF i <= Len(a) THEN a[i] ELSE b[i - Len(a)]
OBVIOUS

LEMMA Removed ==
  ASSUME RecTypes, Slots, NEW e, NEW q, q = R!SlotsWithout(e)
  PROVE  /\ q \in Seq(SlotRec)
         /\ \A i \in DOMAIN q : q[i].export # e /\ \E k \in DOMAIN slots : q[i] = slots[k]
         /\ \A k \in DOMAIN slots : slots[k].export # e => \E i \in DOMAIN q : q[i] = slots[k]
         /\ \A i, j \in DOMAIN q : q[i].export = q[j].export => i = j
<1>1. slots \in Seq(SlotRec) /\ \A i, j \in DOMAIN slots : slots[i].export = slots[j].export => i = j
  BY DEF RecTypes, Slots
<1>2. CASE ~R!Slotted(e)
  BY <1>1, <1>2 DEF R!SlotsWithout, R!Slotted
<1>3. CASE R!Slotted(e)
  <2>1. PICK c \in DOMAIN slots : slots[c].export = e /\ q = SubSeq(slots, 1, c - 1) \o SubSeq(slots, c + 1, Len(slots))
    BY <1>3 DEF R!SlotsWithout, R!Slotted, R!RemoveAt
  <2>2. c \in 1..Len(slots) /\ Len(slots) \in Nat /\ DOMAIN slots = 1..Len(slots)
    BY <1>1
  <2>3. /\ q \in Seq(SlotRec) /\ Len(q) = Len(slots) - 1
        /\ \A i \in 1..Len(q) : q[i] = IF i < c THEN slots[i] ELSE slots[i + 1]
    <3> DEFINE a == SubSeq(slots, 1, c - 1) b == SubSeq(slots, c + 1, Len(slots))
    <3>1. a \in Seq(SlotRec) /\ Len(a) = c - 1 /\ \A i \in 1..c - 1 : a[i] = slots[i]
      BY <1>1, <2>2
    <3>2. b \in Seq(SlotRec) /\ Len(b) = Len(slots) - c
          /\ \A i \in 1..Len(slots) - c : b[i] = slots[c + i]
      BY <1>1, <2>2
    <3> HIDE DEF a, b
    <3>3. q = a \o b
      BY <2>1 DEF a, b
    <3>4. /\ q \in Seq(SlotRec) /\ Len(q) = Len(a) + Len(b)
          /\ \A i \in 1..Len(a) + Len(b) : q[i] = IF i <= Len(a) THEN a[i] ELSE b[i - Len(a)]
      <4>1. a \in Seq(SlotRec) /\ b \in Seq(SlotRec)
        BY <3>1, <3>2
      <4> QED BY ONLY <3>3, <4>1, Concat
    <3>5. Len(q) = Len(slots) - 1
      BY <2>2, <3>1, <3>2, <3>4
    <3>6. ASSUME NEW i \in 1..Len(q) PROVE q[i] = IF i < c THEN slots[i] ELSE slots[i + 1]
      <4>1. i \in 1..Len(a) + Len(b) /\ (i < c <=> i <= Len(a)) /\ i \in Int
        BY <2>2, <3>1, <3>2, <3>5, <3>6
      <4>2. ~(i < c) => i - Len(a) \in 1..Len(slots) - c /\ c + (i - Len(a)) = i + 1
        BY <2>2, <3>1, <3>2, <3>5, <4>1
      <4>3. i < c => i \in 1..c - 1
        BY <2>2, <4>1
      <4>4. CASE i < c
        BY <3>1, <3>4, <4>1, <4>3, <4>4
      <4>5. CASE ~(i < c)
        <5>1. q[i] = b[i - Len(a)]
          BY <3>4, <4>1, <4>5
        <5>2. b[i - Len(a)] = slots[c + (i - Len(a))]
          BY <3>2, <4>2, <4>5
        <5> QED BY <4>2, <4>5, <5>1, <5>2
      <4> QED BY <4>4, <4>5
    <3> QED BY <3>4, <3>5, <3>6
  <2>4. \A i \in DOMAIN q : /\ i < c => i \in DOMAIN slots /\ i # c /\ q[i] = slots[i]
                            /\ ~(i < c) => i + 1 \in DOMAIN slots /\ i + 1 # c /\ q[i] = slots[i + 1]
    BY <2>2, <2>3
  <2>5. \A k \in DOMAIN slots : k # c =>
          (k < c /\ k \in DOMAIN q /\ q[k] = slots[k])
          \/ (~(k < c) /\ k - 1 \in DOMAIN q /\ q[k - 1] = slots[k])
    BY <2>2, <2>3
  <2>6. \A i \in DOMAIN q : q[i].export # e /\ \E k \in DOMAIN slots : q[i] = slots[k]
    BY <1>1, <2>1, <2>4
  <2>7. \A k \in DOMAIN slots : slots[k].export # e => \E i \in DOMAIN q : q[i] = slots[k]
    BY <2>1, <2>5
  <2>8. ASSUME NEW i \in DOMAIN q, NEW j \in DOMAIN q, q[i].export = q[j].export PROVE i = j
    <3>1. i \in Nat /\ j \in Nat /\ c \in Nat
      BY <2>2, <2>3
    <3> QED BY <1>1, <2>4, <2>8, <3>1
  <2> QED BY <2>3, <2>6, <2>7, <2>8
<1> QED BY <1>2, <1>3

LEMMA Unslots ==
  ASSUME RecTypes, Core, NEW e \in Export, R!CloseTask(e) PROVE Core'
<1> USE DEF Core
<1>1. /\ e \in closing /\ closing' = closing \ {e} /\ export[e].closed
      /\ UNCHANGED <<producer, export, thread, stopping>>
  BY DEF R!CloseTask, R!threads, Exports
<1>2. /\ \A i \in DOMAIN slots' : slots'[i].export # e /\ \E k \in DOMAIN slots : slots'[i] = slots[k]
      /\ \A k \in DOMAIN slots : slots[k].export # e => \E i \in DOMAIN slots' : slots'[i] = slots[k]
      /\ \A i, j \in DOMAIN slots' : slots'[i].export = slots'[j].export => i = j
  <2>1. slots' = R!SlotsWithout(e)
    BY DEF R!CloseTask
  <2>2. PICK q : q = R!SlotsWithout(e)
    OBVIOUS
  <2> QED BY <2>1, <2>2, Removed
<1>3. /\ DOMAIN process' = DOMAIN process
      /\ \A n \in DOMAIN process :
           /\ process'[n].export = process[n].export
           /\ process'[n].state = "running" =>
                /\ process[n].state = "running"
                /\ \A i \in DOMAIN slots : slots[i] # [export |-> e, process |-> n]
  <2>1. process' = R!Killed(e)
    BY DEF R!CloseTask
  <2>2. DOMAIN process' = DOMAIN process
    BY <2>1 DEF R!Killed
  <2>3. ASSUME NEW n \in DOMAIN process
        PROVE  /\ process'[n].export = process[n].export
               /\ process'[n].state = "running" =>
                    /\ process[n].state = "running"
                    /\ \A i \in DOMAIN slots : slots[i] # [export |-> e, process |-> n]
    <3>1. process[n] \in ProcessRec
      BY Elements
    <3>2. CASE R!Alive(n) /\ \E i \in DOMAIN slots : slots[i] = [export |-> e, process |-> n]
      BY <2>1, <3>1, <3>2 DEF R!Killed, ProcessRec
    <3>3. CASE ~(R!Alive(n) /\ \E i \in DOMAIN slots : slots[i] = [export |-> e, process |-> n])
      BY <2>1, <3>1, <3>3 DEF R!Killed, R!Alive
    <3> QED BY <3>2, <3>3
  <2> QED BY <2>2, <2>3
<1>4. \A x \in Export : /\ (\E i \in DOMAIN slots' : slots'[i].export = x) => R!Slotted(x) /\ x # e
                        /\ R!Slotted(x) /\ x # e => \E i \in DOMAIN slots' : slots'[i].export = x
  BY <1>2 DEF R!Slotted
<1>5. Steps'
  BY <1>1, <1>3 DEF Steps
<1>6. Builds'
  BY <1>1, <1>4 DEF Builds, R!Slotted, Steps
<1>7. Apart'
  BY <1>1 DEF Apart
<1>8. Exports'
  BY <1>1 DEF Exports
<1>9. Slots'
  BY <1>1, <1>2, <1>4 DEF Slots, R!Slotted
<1>10. Hooked'
  BY <1>1, <1>4 DEF Hooked, R!Slotted, Well
<1>11. Idle'
  BY <1>1, <1>2 DEF Idle, Well
<1>12. (R!OpenIsLinked)'
  BY <1>1 DEF R!OpenIsLinked
<1>13. (R!ProcessesOwned)'
  BY <1>1, <1>2, <1>3 DEF R!ProcessesOwned
<1> QED BY <1>5, <1>6, <1>7, <1>8, <1>9, <1>10, <1>11, <1>12, <1>13
-----------------------------------------------------------------------------
(* Every step.                                                             *)

LEMMA ClosedFields ==
  ASSUME RecTypes, NEW E \in SUBSET Export, NEW X, X = R!ClosedExports(export, E)
  PROVE  /\ X \in [Export -> ExportRec]
         /\ \A e \in Export :
              /\ X[e].state = export[e].state /\ X[e].producer = export[e].producer
              /\ X[e].hooked = export[e].hooked /\ (export[e].raced => X[e].raced)
              /\ e \notin E => X[e] = export[e]
              /\ e \in E /\ export[e].state # "failed" /\ ~export[e].closed =>
                   /\ X[e].closed /\ ~X[e].linked
                   /\ (\E t \in R!Thread : thread[t].export = e) => X[e].raced
              /\ ~(e \in E /\ export[e].state # "failed" /\ ~export[e].closed) => X[e] = export[e]
<1>1. X = [e \in Export |-> X[e]]
  BY DEF R!ClosedExports
<1>2. ASSUME NEW e \in Export, ~(e \in E /\ export[e].state # "failed" /\ ~export[e].closed)
      PROVE  X[e] = export[e] /\ X[e] \in ExportRec
  BY <1>2, Elements DEF R!ClosedExports
<1>3. ASSUME NEW e \in Export, e \in E, export[e].state # "failed", ~export[e].closed
      PROVE  /\ X[e] \in ExportRec
             /\ X[e].state = export[e].state /\ X[e].producer = export[e].producer
             /\ X[e].hooked = export[e].hooked /\ (export[e].raced => X[e].raced)
             /\ X[e].closed /\ ~X[e].linked
             /\ (\E t \in R!Thread : thread[t].export = e) => X[e].raced
  <2>1. export[e] \in ExportRec
    BY Elements
  <2> DEFINE w == \E t \in R!Thread : thread[t].export = e
  <2>2. X[e] = [export[e] EXCEPT !.closed = TRUE, !.linked = FALSE, !.raced = @ \/ w]
    BY <1>3 DEF R!ClosedExports
  <2>3. w \in BOOLEAN
    OBVIOUS
  <2> HIDE DEF w
  <2>4. /\ X[e] \in ExportRec
        /\ X[e].state = export[e].state /\ X[e].producer = export[e].producer
        /\ X[e].hooked = export[e].hooked /\ (export[e].raced => X[e].raced)
        /\ X[e].closed /\ ~X[e].linked /\ (w => X[e].raced)
    BY <2>1, <2>2, <2>3 DEF ExportRec
  <2> QED BY <2>4 DEF w
<1> QED BY <1>1, <1>2, <1>3

LEMMA UnlinkFields ==
  ASSUME RecTypes, NEW E \in SUBSET Export, NEW X, X = R!Unlink(producer, E)
  PROVE  /\ X \in [Producer -> ProducerRec]
         /\ \A p \in Producer :
              /\ producer[p].export \notin E => X[p].export = producer[p].export
              /\ X[p].export \in {producer[p].export, None}
<1>1. X = [p \in Producer |-> X[p]]
  BY DEF R!Unlink
<1>2. ASSUME NEW p \in Producer
      PROVE  /\ X[p] \in ProducerRec
             /\ producer[p].export \notin E => X[p].export = producer[p].export
             /\ X[p].export \in {producer[p].export, None}
  <2>1. producer[p] \in ProducerRec
    BY Elements
  <2>2. X[p] = [producer[p] EXCEPT !.export = IF producer[p].export \in E THEN None ELSE producer[p].export]
    BY DEF R!Unlink
  <2> QED BY <2>1, <2>2 DEF ProducerRec
<1> QED BY <1>1, <1>2

LEMMA StoppingKept ==
  ASSUME R!RecordingAssumption, RecTypes, Core, R!StopNext PROVE Core' /\ RecTypes'
<1>1. PICK e \in stopping :
        LET there == {x \in {e} : ~R!Freed(x)} IN
        /\ stopping' = stopping \ {e} /\ export' = R!ClosedExports(export, there)
        /\ producer' = R!Unlink(producer, there) /\ closing' = R!Scheduled(there)
  BY DEF R!StopNext
<1>2. PICK E : E = {x \in {e} : ~R!Freed(x)}
  OBVIOUS
<1>3. /\ stopping' \subseteq stopping /\ E \in SUBSET Export /\ export' = R!ClosedExports(export, E)
      /\ producer' = R!Unlink(producer, E) /\ closing' = R!Scheduled(E)
      /\ \A x \in E : export[x].state # "none"
  BY <1>1, <1>2 DEF RecTypes, Core, Exports
<1>4. UNCHANGED <<slots, process, thread, studio, events, tasks>>
  BY DEF R!StopNext, R!writers, R!rest
<1>5. closing' \subseteq Export
  BY <1>3 DEF R!Scheduled, RecTypes
<1>6. Core'
  BY <1>3, <1>4, ClosedFields, UnlinkFields, Closes
<1>7. RecTypes'
  BY <1>3, <1>4, <1>5, ClosedFields, UnlinkFields DEF RecTypes
<1> QED BY <1>6, <1>7

LEMMA ClosedProducersKept ==
  ASSUME R!RecordingAssumption, RecTypes, Core, NEW Ps \in SUBSET Producer, R!ClosedProducers(Ps),
         UNCHANGED <<slots, process, thread, stopping>>
  PROVE  /\ Core' /\ producer' \in [Producer -> ProducerRec] /\ export' \in [Export -> ExportRec]
         /\ closing' \subseteq Export
<1> USE DEF Core
<1>1. PICK E : E = {producer[p].export : p \in Ps} \ {None}
  OBVIOUS
<1>2. E \in SUBSET Export /\ \A e \in E : export[e].state # "none"
  BY <1>1, Elements DEF Exports
<1>3. PICK X : X = R!ClosedExports(export, E)
  OBVIOUS
<1>4. PICK Y : Y = R!Unlink(producer, E)
  OBVIOUS
<1>5. /\ producer' = [p \in Producer |-> IF p \in Ps THEN [Y[p] EXCEPT !.state = "closed"] ELSE producer[p]]
      /\ export' = [e \in Export |-> [X[e] EXCEPT !.consumer =
           IF X[e].consumer = "open" /\ X[e].producer \in Ps THEN "closed" ELSE X[e].consumer]]
      /\ closing' = R!Scheduled(E)
  BY <1>1, <1>3, <1>4 DEF R!ClosedProducers
<1>6. \A p \in Producer : /\ producer'[p] \in ProducerRec
                          /\ producer[p].export \notin E => producer'[p].export = producer[p].export
                          /\ producer'[p].export \in {producer[p].export, None}
  <2>1. ASSUME NEW p \in Producer
        PROVE  /\ producer'[p] \in ProducerRec
               /\ producer[p].export \notin E => producer'[p].export = producer[p].export
               /\ producer'[p].export \in {producer[p].export, None}
    <3>1. /\ Y[p] \in ProducerRec
          /\ producer[p].export \notin E => Y[p].export = producer[p].export
          /\ Y[p].export \in {producer[p].export, None}
      BY <1>2, <1>4, UnlinkFields
    <3>2. CASE p \in Ps
      <4>1. producer'[p] = [Y[p] EXCEPT !.state = "closed"]
        BY <1>5, <3>2
      <4> QED BY <3>1, <4>1 DEF ProducerRec
    <3>3. CASE p \notin Ps
      BY <1>5, <3>3, Elements
    <3> QED BY <3>2, <3>3
  <2> QED BY <2>1
<1>7. \A e \in Export :
        /\ export'[e] \in ExportRec
        /\ X[e] = R!NoExport => export'[e] = X[e]
        /\ export'[e].state = X[e].state /\ export'[e].producer = X[e].producer
        /\ export'[e].hooked = X[e].hooked /\ export'[e].raced = X[e].raced
        /\ export'[e].closed = X[e].closed /\ export'[e].linked = X[e].linked
  <2>1. ASSUME NEW e \in Export
        PROVE  /\ export'[e] \in ExportRec
               /\ X[e] = R!NoExport => export'[e] = X[e]
               /\ export'[e].state = X[e].state /\ export'[e].producer = X[e].producer
               /\ export'[e].hooked = X[e].hooked /\ export'[e].raced = X[e].raced
               /\ export'[e].closed = X[e].closed /\ export'[e].linked = X[e].linked
    <3>1. X[e] \in ExportRec
      BY <1>2, <1>3, ClosedFields
    <3>2. PICK c : c = IF X[e].consumer = "open" /\ X[e].producer \in Ps THEN "closed" ELSE X[e].consumer
      OBVIOUS
    <3>3. c \in {"none", "open", "closed"} /\ (X[e] = R!NoExport => c = "none")
      BY <3>1, <3>2 DEF ExportRec, R!NoExport
    <3>4. export'[e] = [X[e] EXCEPT !.consumer = c]
      BY <1>5, <3>2
    <3> QED BY <3>1, <3>3, <3>4 DEF ExportRec, R!NoExport
  <2> QED BY <2>1
<1>8. producer' \in [Producer -> ProducerRec] /\ export' \in [Export -> ExportRec]
  BY <1>5, <1>6, <1>7
<1>9. closing' \subseteq Export
  BY <1>2, <1>5 DEF R!Scheduled, RecTypes
<1>10. \A e \in Export :
         /\ export[e].state = "none" => export'[e] = export[e]
         /\ export'[e].state = export[e].state /\ export'[e].producer = export[e].producer
         /\ export'[e].hooked = export[e].hooked /\ (export[e].raced => export'[e].raced)
         /\ e \in E /\ export[e].state # "failed" /\ ~export[e].closed =>
              /\ export'[e].closed /\ ~export'[e].linked
              /\ (\E t \in R!Thread : thread[t].export = e) => export'[e].raced
         /\ ~(e \in E /\ export[e].state # "failed" /\ ~export[e].closed) =>
              export'[e].closed = export[e].closed /\ export'[e].linked = export[e].linked
  <2>1. \A e \in Export : export[e].state = "none" => X[e] = R!NoExport /\ X[e] = export[e]
    BY <1>2, <1>3, ClosedFields DEF Exports
  <2> QED BY <1>2, <1>3, <1>7, <2>1, ClosedFields
<1> HIDE DEF Core
<1>11. Core'
  BY <1>2, <1>5, <1>6, <1>10, Closes
<1> QED BY <1>8, <1>9, <1>11

LEMMA ToldKept ==
  ASSUME RecTypes, Told, NEW s \in Seq(EventRec), Fits(s), Quiet(s),
         \/ events' = events
         \/ events' = events \o s
         \/ events # <<>> /\ events' = Tail(events) \o s,
         tasks' = tasks, studio'.open <=> studio.open,
         studio'.sessions > 0 \/ studio'.sessions = studio.sessions
  PROVE  Told' /\ events' \in Seq(EventRec) /\ Fits(events')
<1>1. events \in Seq(EventRec) /\ Fits(events)
  BY DEF RecTypes
<1>2. PICK q \in Seq(EventRec) :
        /\ Fits(q) /\ (Once(events) => Once(q)) /\ (Quiet(events) => Quiet(q))
        /\ (events' = q \/ events' = q \o s)
  BY <1>1, Rest
<1>3. PICK x : x = events'
  OBVIOUS
<1>4. /\ x \in Seq(EventRec) /\ Fits(x) /\ (Once(events) => Once(x))
      /\ (Quiet(events) => Quiet(x))
  BY <1>2, <1>3, Joined
<1>5. Told'
  BY <1>3, <1>4 DEF Told
<1> QED BY <1>3, <1>4, <1>5

LEMMA MembersStep ==
  ASSUME R!RecordingAssumption, RecIInv, NEW p \in Producer,
         R!Produce(p) \/ R!List(p) \/ R!Pause(p) \/ R!Resume(p) \/ R!CloseProducer(p)
  PROVE  RecIInv'
<1> USE DEF RecIInv
<1>1. /\ UNCHANGED <<studio, export, slots, process, thread, stopping, closing, tasks>>
  BY DEF R!Produce, R!List, R!Pause, R!Resume, R!CloseProducer, R!writers, R!threads, R!rest
<1>2. /\ producer' \in [Producer -> ProducerRec]
      /\ \A x \in Producer : producer'[x].export = producer[x].export
  <2>1. PICK r \in ProducerRec : r.export = producer[p].export /\ producer' = [producer EXCEPT ![p] = r]
    <3>1. producer[p] \in ProducerRec
      BY Elements
    <3>2. CASE R!Produce(p)
      <4>1. producer' = [producer EXCEPT ![p] = [producer[p] EXCEPT !.state = "open"]]
        BY <3>2 DEF R!Produce
      <4> QED BY <3>1, <4>1 DEF ProducerRec
    <3>3. CASE R!List(p)
      <4>1. producer' = [producer EXCEPT ![p] = [producer[p] EXCEPT !.listed = TRUE]]
        BY <3>3 DEF R!List
      <4> QED BY <3>1, <4>1 DEF ProducerRec
    <3>4. CASE R!Pause(p)
      <4>1. producer' = [producer EXCEPT ![p] = [producer[p] EXCEPT !.paused = TRUE]]
        BY <3>4 DEF R!Pause
      <4> QED BY <3>1, <4>1 DEF ProducerRec
    <3>5. CASE R!Resume(p)
      <4>1. producer' = [producer EXCEPT ![p] = [producer[p] EXCEPT !.paused = FALSE]]
        BY <3>5 DEF R!Resume
      <4> QED BY <3>1, <4>1 DEF ProducerRec
    <3>6. CASE R!CloseProducer(p)
      <4>1. producer' = [producer EXCEPT ![p] = producer[p]]
        BY <3>6 DEF R!CloseProducer, RecTypes
      <4> QED BY <3>1, <4>1 DEF ProducerRec
    <3> QED BY <3>2, <3>3, <3>4, <3>5, <3>6
  <2> QED BY <2>1 DEF RecTypes
<1>3. PICK s \in Seq(EventRec) : Fits(s) /\ Quiet(s) /\ (events' = events \o s \/ events' = events)
  <2>1. CASE R!Produce(p) \/ R!CloseProducer(p)
    <3>1. PICK k \in {"created", "closed"} : events' = events \o <<R!Ev(k, p)>>
      BY <2>1 DEF R!Produce, R!CloseProducer, R!Post
    <3> QED BY <3>1, Single DEF OfProducer, OfExport
  <2>2. CASE R!List(p)
    BY <2>2, Nothing DEF R!List
  <2>3. CASE R!Pause(p)
    <3>1. events' = events \o R!Tell("producerPause", p)
      BY <2>3 DEF R!Pause, R!Post
    <3> QED BY <3>1, ToldOf DEF OfExport
  <2>4. CASE R!Resume(p)
    <3>1. PICK a : a = R!Tell("producerResume", p)
      OBVIOUS
    <3>2. PICK b : b = <<R!Ev("resumed", p)>>
      OBVIOUS
    <3>3. events' = events \o (a \o b) \/ events' = events \o (b \o a)
      BY <2>4, <3>1, <3>2 DEF R!Resume, R!Post
    <3>4. /\ a \in Seq(EventRec) /\ Fits(a) /\ Quiet(a)
          /\ b \in Seq(EventRec) /\ Fits(b) /\ Quiet(b)
      BY <3>1, <3>2, ToldOf, Single DEF OfExport, OfProducer
    <3> QED BY <3>3, <3>4, Joined
  <2> QED BY <2>1, <2>2, <2>3, <2>4
<1>4. Core'
  BY <1>1, <1>2, Still
<1>5. Told' /\ events' \in Seq(EventRec) /\ Fits(events')
  BY <1>1, <1>3, ToldKept
<1>6. RecTypes'
  BY <1>1, <1>2, <1>5 DEF RecTypes
<1> QED BY <1>4, <1>5, <1>6

LEMMA RoomStep ==
  ASSUME R!RecordingAssumption, RecIInv,
         R!Start \/ R!StartNext \/ R!Stop \/ R!StopNext \/ R!CloseRoom \/ R!Crash
  PROVE  RecIInv'
<1> USE DEF RecIInv
<1>1. ASSUME R!Start PROVE RecIInv'
  <2>1. PICK r : r = [R!IdleThread EXCEPT !.pc = "next",
                        !.todo = {p \in Producer : producer[p].listed /\ producer[p].state = "open"}]
    OBVIOUS
  <2>2. /\ r \in ThreadRec /\ r.pc = "next" /\ r.export = None /\ ~r.resumes
    BY <2>1 DEF R!IdleThread, ThreadRec
  <2>3. /\ thread["starter"].pc = "idle" /\ thread' = [thread EXCEPT !["starter"] = r]
        /\ UNCHANGED <<producer, export, slots, process, closing, stopping, events, tasks>>
        /\ studio' = [studio EXCEPT !.recording = TRUE, !.sessions = @ + 1]
    BY <1>1, <2>1 DEF R!Start, R!At, R!writers, R!rest
  <2>4. Core'
    BY <2>2, <2>3, Turns DEF R!Thread
  <2>5. studio' \in StudioRec /\ studio'.open = studio.open /\ studio'.sessions > 0
    <3>1. studio.sessions \in Nat /\ studio.sessions + 1 \in Nat /\ studio.sessions + 1 > 0
      BY DEF RecTypes, StudioRec
    <3>2. PICK n : n = studio.sessions + 1
      OBVIOUS
    <3>3. studio' = [studio EXCEPT !.recording = TRUE, !.sessions = n]
      BY <2>3, <3>2
    <3>4. n \in Nat /\ n > 0
      BY <3>1, <3>2
    <3>5. studio' \in StudioRec /\ studio'.open = studio.open /\ studio'.sessions = n
      BY <3>3, <3>4 DEF RecTypes, StudioRec
    <3> QED BY <3>4, <3>5
  <2>6. Told' /\ events' \in Seq(EventRec) /\ Fits(events')
    BY <2>3, <2>5, ToldKept, Nothing
  <2>7. RecTypes'
    BY <2>2, <2>3, <2>5 DEF RecTypes
  <2> QED BY <2>4, <2>6, <2>7
<1>2. ASSUME R!StartNext PROVE RecIInv'
  <2>1. /\ thread["starter"].pc = "next"
        /\ UNCHANGED <<studio, producer, export, slots, process, closing, stopping, events, tasks>>
    BY <1>2 DEF R!StartNext, R!At, R!writers, R!rest
  <2>2. PICK r : /\ thread' = [thread EXCEPT !["starter"] = r]
                 /\ r \in ThreadRec /\ r.pc \in {"idle", "next", "link"} /\ r.export = None /\ ~r.resumes
                 /\ r.pc = "link" => r.producer \in Producer
    <3>1. thread["starter"] \in ThreadRec
      BY Elements DEF R!Thread
    <3>2. CASE thread["starter"].todo = {}
      <4>1. thread' = [thread EXCEPT !["starter"] = R!IdleThread]
        BY <1>2, <3>2 DEF R!StartNext
      <4>2. R!IdleThread \in ThreadRec /\ R!IdleThread.pc = "idle" /\ R!IdleThread.export = None
            /\ ~R!IdleThread.resumes
        BY DEF R!IdleThread, ThreadRec
      <4> QED BY <4>1, <4>2
    <3>3. CASE thread["starter"].todo # {}
      <4>1. PICK p \in thread["starter"].todo :
              thread' = [thread EXCEPT !["starter"] =
                [R!IdleThread EXCEPT !.todo = thread["starter"].todo \ {p}, !.producer = p,
                                     !.pc = IF producer[p].paused THEN "next" ELSE "link"]]
        BY <1>2, <3>3 DEF R!StartNext
      <4>2. PICK r : r = [R!IdleThread EXCEPT !.todo = thread["starter"].todo \ {p}, !.producer = p,
                                     !.pc = IF producer[p].paused THEN "next" ELSE "link"]
        OBVIOUS
      <4>3. p \in Producer /\ thread["starter"].todo \ {p} \subseteq Producer
        BY <3>1 DEF ThreadRec
      <4>4. /\ r \in ThreadRec /\ r.pc \in {"idle", "next", "link"} /\ r.export = None /\ ~r.resumes
            /\ r.producer = p
        BY <4>2, <4>3 DEF R!IdleThread, ThreadRec
      <4> QED BY <4>1, <4>2, <4>3, <4>4
    <3> QED BY <3>2, <3>3
  <2>3. Core'
    BY <2>1, <2>2, Turns DEF R!Thread
  <2>4. Told' /\ RecTypes'
    BY <2>1, <2>2 DEF Told, RecTypes
  <2> QED BY <2>3, <2>4
<1>3. ASSUME R!Stop PROVE RecIInv'
  <2>1. /\ UNCHANGED <<producer, export, slots, process, thread, closing, events, tasks>>
        /\ studio' = [studio EXCEPT !.recording = FALSE] /\ stopping' = {e \in Export : R!Slotted(e)}
    BY <1>3 DEF R!Stop, R!writers, R!rest
  <2>2. Core'
    BY <2>1, Still
  <2>3. studio' \in StudioRec /\ studio'.open = studio.open /\ studio'.sessions = studio.sessions
    BY <2>1 DEF RecTypes, StudioRec
  <2>4. Told' /\ RecTypes'
    BY <2>1, <2>3 DEF Told, RecTypes
  <2> QED BY <2>2, <2>4
<1>4. ASSUME R!StopNext PROVE RecIInv'
  <2>1. UNCHANGED <<studio, events, tasks>>
    BY <1>4 DEF R!StopNext, R!rest
  <2>2. Told'
    BY <2>1 DEF Told
  <2> QED BY <1>4, <2>2, StoppingKept
<1>5. ASSUME R!CloseRoom PROVE RecIInv'
  <2>1. /\ UNCHANGED <<studio, producer, export, slots, process, thread, stopping, closing, tasks>>
        /\ events' = events \o <<R!Ev("routerClosed", None)>>
    BY <1>5 DEF R!CloseRoom, R!Post, R!writers, R!threads, R!rest
  <2>2. Core'
    BY <2>1, Still
  <2>3. Told' /\ events' \in Seq(EventRec) /\ Fits(events')
    <3>1. PICK s : s = <<R!Ev("routerClosed", None)>>
      OBVIOUS
    <3>2. s \in Seq(EventRec) /\ Fits(s) /\ Quiet(s)
      BY <3>1, Single DEF OfRoom, OfExport, OfProducer
    <3> QED BY <2>1, <3>1, <3>2, ToldKept
  <2>4. RecTypes'
    BY <2>1, <2>3 DEF RecTypes
  <2> QED BY <2>2, <2>3, <2>4
<1>6. ASSUME R!Crash PROVE RecIInv'
  <2>1. UNCHANGED <<studio, producer, export, slots, process, thread, stopping, closing, events, tasks>>
    BY <1>6 DEF R!Crash, R!writers, R!threads
  <2>2. Core'
    BY <2>1, Still
  <2>3. Told' /\ RecTypes'
    BY <2>1 DEF Told, RecTypes
  <2> QED BY <2>2, <2>3
<1> QED BY <1>1, <1>2, <1>3, <1>4, <1>5, <1>6

\* What a step of a builder does not touch, and its types.
LEMMA BuildStep ==
  ASSUME R!RecordingAssumption, RecIInv, NEW t \in R!Thread, R!Build(t) PROVE RecIInv'
<1> USE DEF RecIInv
<1>1. PICK e : e = thread[t].export
  OBVIOUS
<1>2. thread[t] \in ThreadRec /\ (thread[t].pc \in Building => e \in Export)
  BY <1>1, Elements DEF Core, Steps
<1>3. ASSUME R!Link(t) PROVE RecIInv'
  <2>1. Core'
    BY <1>3, Links
  <2>2. PICK y \in R!Fresh :
          LET p == thread[t].producer old == R!Superseded(p) IN
          /\ export' = [R!ClosedExports(export, old) EXCEPT ![y].state = "building", ![y].producer = p]
          /\ closing' = R!Scheduled(old)
          /\ producer' = [producer EXCEPT ![p].export = y]
          /\ thread' = [thread EXCEPT ![t].pc = "consume", ![t].export = y]
    BY <1>3 DEF R!Link
  <2>3. /\ thread[t].pc = "link" /\ UNCHANGED <<studio, slots, process, stopping, events, tasks>>
        /\ y \in Export
    BY <1>3 DEF R!Link, R!At, R!Fresh, R!writers, R!rest
  <2>4. thread[t].producer \in Producer
    BY <2>3 DEF Core, Steps
  <2>5. thread' \in [R!Thread -> ThreadRec]
    <3>1. thread' = [thread EXCEPT ![t] = [thread[t] EXCEPT !.pc = "consume", !.export = y]]
      BY <2>2 DEF RecTypes
    <3>2. [thread[t] EXCEPT !.pc = "consume", !.export = y] \in ThreadRec
      BY <1>2, <2>3 DEF ThreadRec
    <3> QED BY <3>1, <3>2 DEF RecTypes
  <2>6. producer' \in [Producer -> ProducerRec]
    <3>1. producer[thread[t].producer] \in ProducerRec
      BY <2>4, Elements
    <3>2. [producer[thread[t].producer] EXCEPT !.export = y] \in ProducerRec
      BY <2>3, <3>1 DEF ProducerRec
    <3> QED BY <2>2, <3>2 DEF RecTypes
  <2>7. export' \in [Export -> ExportRec]
    <3>1. PICK E : E = R!Superseded(thread[t].producer)
      OBVIOUS
    <3>2. E \in SUBSET Export
      BY <2>4, <3>1, Elements DEF R!Superseded
    <3>3. PICK X : X = R!ClosedExports(export, E)
      OBVIOUS
    <3>4. X \in [Export -> ExportRec]
      BY <3>2, <3>3, ClosedFields
    <3>5. export' = [X EXCEPT ![y].state = "building", ![y].producer = thread[t].producer]
      BY <2>2, <3>1, <3>3
    <3>6. export' = [X EXCEPT ![y] = [X[y] EXCEPT !.state = "building", !.producer = thread[t].producer]]
      BY <2>3, <3>4, <3>5
    <3>7. X[y] \in ExportRec
      BY <2>3, <3>4
    <3>8. [X[y] EXCEPT !.state = "building", !.producer = thread[t].producer] \in ExportRec
      BY <2>4, <3>7 DEF ExportRec
    <3> QED BY <3>4, <3>6, <3>8
  <2>8. closing' \subseteq Export
    <3>1. R!Superseded(thread[t].producer) \subseteq Export
      BY <2>4, Elements DEF R!Superseded
    <3> QED BY <2>2, <3>1 DEF R!Scheduled, RecTypes
  <2>9. Told' /\ RecTypes'
    BY <2>3, <2>5, <2>6, <2>7, <2>8 DEF Told, RecTypes
  <2> QED BY <2>1, <2>9
<1>4. ASSUME R!Consume(t) \/ R!RegisterExport(t) PROVE RecIInv'
  <2>1. PICK q \in {"register", "slot"} :
          /\ thread[t].pc \in {"consume", "register"} /\ thread' = [thread EXCEPT ![t].pc = q]
          /\ export' = IF q = "register"
               THEN [export EXCEPT ![e].consumer = "open", ![e].paused = TRUE, ![e].linked = TRUE]
               ELSE [export EXCEPT ![e].hooked = TRUE]
          /\ UNCHANGED <<studio, producer, slots, process, stopping, closing, events, tasks>>
    <3>1. CASE R!Consume(t)
      BY <1>1, <3>1 DEF R!Consume, R!At, R!Goto, R!writers, R!rest
    <3>2. CASE R!RegisterExport(t)
      BY <1>1, <3>2 DEF R!RegisterExport, R!At, R!Goto, R!writers, R!rest
    <3> QED BY <1>4, <3>1, <3>2
  <2>2. e \in Export
    BY <1>2, <2>1 DEF Building
  <2>3. export[e] \in ExportRec
    BY <2>2, Elements
  <2>4. PICK r : r = IF q = "register"
                     THEN [export[e] EXCEPT !.consumer = "open", !.paused = TRUE, !.linked = TRUE]
                     ELSE [export[e] EXCEPT !.hooked = TRUE]
    OBVIOUS
  <2>5. export' = [export EXCEPT ![e] = r]
    BY <2>1, <2>2, <2>4 DEF RecTypes
  <2>6. /\ r \in ExportRec
        /\ r.state = export[e].state /\ r.producer = export[e].producer
        /\ r.closed = export[e].closed /\ r.raced = export[e].raced
        /\ r.hooked = (export[e].hooked \/ q = "slot")
    <3>1. CASE q = "register"
      BY <2>3, <2>4, <3>1 DEF ExportRec
    <3>2. CASE q = "slot"
      BY <2>3, <2>4, <3>2 DEF ExportRec
    <3> QED BY <3>1, <3>2
  <2>7. export'[e] = r /\ \A x \in Export : x # e => export'[x] = export[x]
    BY <2>2, <2>5 DEF RecTypes
  <2>8. Core'
    <3>1. /\ export'[e].state = export[e].state /\ export'[e].producer = export[e].producer
          /\ export'[e].closed = export[e].closed /\ export'[e].raced = export[e].raced
          /\ export'[e].hooked = (export[e].hooked \/ q = "slot")
      BY <2>6, <2>7
    <3>2. /\ thread[t].pc \in {"consume", "register"} /\ thread' = [thread EXCEPT ![t].pc = q]
          /\ UNCHANGED <<producer, slots, process, stopping, closing>>
      BY <2>1
    <3>3. \A x \in Export : x # e => export'[x] = export[x]
      BY <2>7
    <3>4. /\ RecTypes /\ Core /\ t \in R!Thread /\ e = thread[t].export /\ q \in {"register", "slot"}
          /\ thread[t].pc \in {"consume", "register"}
          /\ thread' = [thread EXCEPT ![t].pc = q]
          /\ UNCHANGED <<producer, slots, process, stopping, closing>>
      BY <1>1, <2>1
    <3> QED BY ONLY ZenonT(60), <3>1, <3>3, <3>4, Advances
  <2>9. export' \in [Export -> ExportRec] /\ thread' \in [R!Thread -> ThreadRec]
    <3>1. [thread[t] EXCEPT !.pc = q] \in ThreadRec
      BY <1>2 DEF ThreadRec
    <3> QED BY <2>1, <2>5, <2>6, <3>1 DEF RecTypes
  <2>10. Told' /\ RecTypes'
    BY <2>1, <2>9 DEF Told, RecTypes
  <2> QED BY <2>8, <2>10
<1>5. ASSUME R!AddSlot(t) PROVE RecIInv'
  <2>1. Core'
    BY <1>1, <1>5, AddsSlot
  <2>2. /\ thread[t].pc = "slot" /\ slots' = Append(slots, [export |-> e, process |-> 0])
        /\ UNCHANGED <<studio, producer, process, stopping, closing, events, tasks>>
    BY <1>1, <1>5 DEF R!AddSlot, R!At, R!rest
  <2>3. e \in Export
    BY <1>2, <2>2 DEF Building
  <2>4. slots' \in Seq(SlotRec)
    <3>1. [export |-> e, process |-> 0] \in SlotRec
      BY <2>3 DEF SlotRec
    <3> QED BY <2>2, <3>1 DEF RecTypes
  <2>5. export' \in [Export -> ExportRec] /\ thread' \in [R!Thread -> ThreadRec]
    <3>1. CASE producer[thread[t].producer].paused
      <4>1. R!Done(t) /\ export' = R!Built(t, export)
        BY <1>5, <3>1 DEF R!AddSlot
      <4>2. [export[e] EXCEPT !.state = IF thread[t].resumes THEN export[e].state ELSE "built"] \in ExportRec
        BY <2>3, Elements DEF ExportRec
      <4>3. export' = [export EXCEPT ![e] =
              [export[e] EXCEPT !.state = IF thread[t].resumes THEN export[e].state ELSE "built"]]
        BY <1>1, <2>3, <4>1 DEF R!Built, RecTypes
      <4> QED BY <4>1, <4>2, <4>3, DoneIs DEF RecTypes
    <3>2. CASE ~producer[thread[t].producer].paused
      <4>1. thread' = [thread EXCEPT ![t].pc = "spawn"] /\ export' = export
        BY <1>5, <3>2 DEF R!AddSlot, R!Goto
      <4>2. [thread[t] EXCEPT !.pc = "spawn"] \in ThreadRec
        BY <1>2 DEF ThreadRec
      <4> QED BY <4>1, <4>2 DEF RecTypes
    <3> QED BY <3>1, <3>2
  <2>6. Told' /\ RecTypes'
    BY <2>2, <2>4, <2>5 DEF Told, RecTypes
  <2> QED BY <2>1, <2>6
<1>6. ASSUME NEW st \in {"built", "failed"}, thread[t].pc \in {"consume", "slot", "spawn"},
             R!Done(t), UNCHANGED <<studio, producer, slots, process, stopping, closing, events, tasks>>,
             export' = [export EXCEPT ![e].state = st]
               \/ (export' = export /\ thread[t].pc = "spawn"),
             export' = export \/ (st = "built" /\ ~thread[t].resumes /\ thread[t].pc = "spawn")
               \/ (st = "failed" /\ ~thread[t].resumes)
      PROVE  RecIInv'
  <2>1. e \in Export
    BY <1>2, <1>6 DEF Building
  <2>2. export[e] \in ExportRec
    BY <2>1, Elements
  <2>3. PICK r : r = [export[e] EXCEPT !.state = st]
    OBVIOUS
  <2>4. /\ r \in ExportRec /\ r.state = st /\ r.producer = export[e].producer
        /\ r.closed = export[e].closed /\ r.raced = export[e].raced
        /\ r.hooked = export[e].hooked /\ r.linked = export[e].linked
    BY <2>2, <2>3 DEF ExportRec
  <2>5. /\ \A x \in Export : x # e => export'[x] = export[x]
        /\ export' \in [Export -> ExportRec]
        /\ export' = export \/ export'[e] = r
    BY <1>6, <2>1, <2>3, <2>4 DEF RecTypes
  <2>6. /\ export'[e].producer = export[e].producer
        /\ export'[e].closed = export[e].closed /\ export'[e].raced = export[e].raced
        /\ export'[e].hooked = export[e].hooked /\ export'[e].linked = export[e].linked
    BY <2>4, <2>5
  <2>7. (export'[e].state = export[e].state /\ thread[t].pc = "spawn")
        \/ (export'[e].state = "built" /\ ~thread[t].resumes /\ thread[t].pc = "spawn")
        \/ (export'[e].state = "failed" /\ ~thread[t].resumes)
    <3>1. CASE export' = export /\ thread[t].pc = "spawn"
      BY <3>1
    <3>2. CASE export' = [export EXCEPT ![e].state = st] /\ export' # export
      BY <1>6, <2>4, <2>5, <3>2
    <3>3. CASE export' = [export EXCEPT ![e].state = st] /\ export' = export /\ thread[t].pc # "spawn"
      <4>1. ~thread[t].resumes /\ export[e].state = "building"
        BY <1>1, <1>6, <3>3 DEF Core, Steps, Builds, Building
      <4>2. export'[e].state = st
        BY <2>1, <3>3 DEF RecTypes
      <4> QED BY <3>3, <4>1, <4>2
    <3> QED BY <1>6, <3>1, <3>2, <3>3
  <2>8. UNCHANGED <<producer, slots, process, stopping, closing>>
    BY <1>6
  <2>9. Core'
    BY <1>1, <1>6, <2>5, <2>6, <2>7, <2>8, Ends
  <2>10. thread' \in [R!Thread -> ThreadRec]
    BY <1>6, DoneIs
  <2>11. Told' /\ RecTypes'
    BY <1>6, <2>5, <2>10 DEF Told, RecTypes
  <2> QED BY <2>9, <2>11
<1>7. ASSUME R!BuildFails(t) PROVE RecIInv'
  <2>1. /\ thread[t].pc \in {"consume", "slot", "spawn"} /\ R!Done(t)
        /\ thread[t].pc = "spawn" => ~thread[t].resumes
        /\ export' = [export EXCEPT ![e].state = "failed"]
        /\ UNCHANGED <<studio, producer, slots, process, stopping, closing, events, tasks>>
    BY <1>1, <1>7 DEF R!BuildFails, R!At, R!writers
  <2>2. ~thread[t].resumes
    BY <2>1 DEF Core, Steps
  <2> QED BY <1>6, <2>1, <2>2
<1>8. ASSUME R!Spawn(t), R!Cardinality(R!Running) > MaxProcesses PROVE RecIInv'
  <2>1. /\ thread[t].pc = "spawn" /\ R!Done(t) /\ export' = R!Built(t, export)
        /\ UNCHANGED <<studio, producer, slots, process, stopping, closing, events, tasks>>
    BY <1>8 DEF R!Spawn, R!At, R!rest
  <2>2. e \in Export
    BY <1>2, <2>1 DEF Building
  <2>3. export' = [export EXCEPT ![e].state = IF thread[t].resumes THEN export[e].state ELSE "built"]
    BY <1>1, <2>1 DEF R!Built
  <2>4. CASE thread[t].resumes
    <3>1. export' = export
      BY <2>2, <2>3, <2>4, Elements DEF RecTypes, ExportRec
    <3> QED BY <1>6, <2>1, <3>1
  <2>5. CASE ~thread[t].resumes
    <3>1. export' = [export EXCEPT ![e].state = "built"]
      BY <2>3, <2>5
    <3> QED BY <1>6, <2>1, <2>5, <3>1
  <2> QED BY <2>4, <2>5
<1>9. ASSUME R!Spawn(t), ~(R!Cardinality(R!Running) > MaxProcesses) PROVE RecIInv'
  <2>1. /\ thread[t].pc = "spawn"
        /\ process' = Append(process, [export |-> e, state |-> "running"])
        /\ thread' = [thread EXCEPT ![t].pc = "own", ![t].process = Len(process) + 1]
        /\ UNCHANGED <<studio, producer, export, slots, stopping, closing, events, tasks>>
    BY <1>1, <1>9 DEF R!Spawn, R!At, R!rest
  <2>2. e \in Export
    BY <1>2, <2>1 DEF Building
  <2>3. PICK s : s = [export |-> e, state |-> "running"]
    OBVIOUS
  <2>4. s \in ProcessRec /\ s.export = e
    BY <2>2, <2>3 DEF ProcessRec
  <2>5. PICK n : n = Len(process) + 1
    OBVIOUS
  <2>6. /\ process' \in Seq(ProcessRec) /\ n \in Nat
        /\ \A m \in DOMAIN process : m \in DOMAIN process' /\ process'[m] = process[m]
        /\ \A m \in DOMAIN process' : m \in DOMAIN process \/ m = n
        /\ n \in DOMAIN process' /\ process'[n].export = e
    BY <2>1, <2>3, <2>4, <2>5 DEF RecTypes
  <2>7. PICK r : r = [thread[t] EXCEPT !.pc = "own", !.process = n]
    OBVIOUS
  <2>8. thread' = [thread EXCEPT ![t] = r]
    BY <2>1, <2>5, <2>7 DEF RecTypes
  <2>9. /\ r \in ThreadRec /\ r.pc = "own" /\ r.process = n /\ r.export = e
        /\ (r.resumes <=> thread[t].resumes) /\ r.producer = thread[t].producer
    BY <1>1, <1>2, <2>6, <2>7 DEF ThreadRec
  <2>10. /\ thread' \in [R!Thread -> ThreadRec] /\ thread'[t] = r
         /\ \A u \in R!Thread : u # t => thread'[u] = thread[u]
    BY <2>8, <2>9 DEF RecTypes
  <2>11. /\ thread'[t].pc = "own" /\ thread'[t].process = n /\ thread'[t].export = e
         /\ (thread'[t].resumes <=> thread[t].resumes) /\ thread'[t].producer = thread[t].producer
         /\ UNCHANGED <<producer, export, slots, stopping, closing>>
    BY <2>1, <2>9, <2>10
  <2>12. Core'
    BY <1>1, <2>1, <2>6, <2>10, <2>11, Spawns
  <2>13. Told' /\ RecTypes'
    BY <2>1, <2>6, <2>10 DEF Told, RecTypes
  <2> QED BY <2>12, <2>13
<1>10. ASSUME R!Own(t) PROVE RecIInv'
  <2>1. PICK n : n = thread[t].process
    OBVIOUS
  <2>2. PICK b \in BOOLEAN : b = (export[e].paused /\ R!ConsumerFound(e))
    OBVIOUS
  <2>3. PICK s : s = IF b /\ ~producer[thread[t].producer].paused
                     THEN <<R!Ev("consumerResume", e)>> ELSE <<>>
    OBVIOUS
  <2>4. /\ thread[t].pc = "own" /\ R!Done(t)
        /\ slots' = [i \in DOMAIN slots |-> IF slots[i].export = e
                       THEN [slots[i] EXCEPT !.process = n] ELSE slots[i]]
        /\ export' = R!Built(t, [export EXCEPT ![e].paused = @ /\ ~b])
        /\ events' = events \o s
        /\ UNCHANGED <<studio, producer, process, stopping, closing, tasks>>
    BY <1>1, <1>10, <2>1, <2>2, <2>3 DEF R!Own, R!At, R!Post, R!rest
  <2>5. e \in Export
    BY <1>2, <2>4 DEF Building
  <2>6. n \in Nat
    BY <1>2, <2>1 DEF ThreadRec
  <2>7. /\ DOMAIN slots' = DOMAIN slots /\ slots' \in Seq(SlotRec)
        /\ \A i \in DOMAIN slots :
             /\ slots[i].export # e => slots'[i] = slots[i]
             /\ slots[i].export = e => slots'[i] = [export |-> e, process |-> n]
    <3>1. DOMAIN slots' = DOMAIN slots
      BY <2>4
    <3>2. ASSUME NEW i \in DOMAIN slots
          PROVE  /\ slots[i].export # e => slots'[i] = slots[i]
                 /\ slots[i].export = e => slots'[i] = [export |-> e, process |-> n]
                 /\ slots'[i] \in SlotRec
      BY <2>4, <2>6, Elements DEF SlotRec
    <3>3. slots' \in Seq(SlotRec)
      <4>1. slots' \in [1..Len(slots) -> SlotRec] /\ Len(slots) \in Nat
        BY <2>4, <3>2 DEF RecTypes
      <4> QED BY <4>1
    <3> QED BY <3>1, <3>2, <3>3
  <2>8. PICK st : st = IF thread[t].resumes THEN export[e].state ELSE "built"
    OBVIOUS
  <2>9. PICK r : r = [export[e] EXCEPT !.paused = export[e].paused /\ ~b, !.state = st]
    OBVIOUS
  <2>10. export[e] \in ExportRec
    BY <2>5, Elements
  <2>11. /\ r \in ExportRec /\ r.state = st /\ r.producer = export[e].producer
         /\ r.closed = export[e].closed /\ r.raced = export[e].raced
         /\ r.hooked = export[e].hooked /\ r.linked = export[e].linked
    <3>1. st \in {"none", "building", "built", "failed"}
      BY <2>8, <2>10 DEF ExportRec
    <3>2. PICK c \in BOOLEAN : c = (export[e].paused /\ ~b)
      OBVIOUS
    <3> QED BY <2>9, <2>10, <3>1, <3>2 DEF ExportRec
  <2>12. export' = [export EXCEPT ![e] = r]
    <3>1. export' = [[export EXCEPT ![e].paused = @ /\ ~b] EXCEPT ![e].state =
                       IF thread[t].resumes THEN @ ELSE "built"]
      BY <1>1, <2>4 DEF R!Built
    <3>2. export \in [Export -> ExportRec] /\ DOMAIN export = Export
      BY <1>1 DEF RecTypes
    <3>3. PICK o : o = [export[e] EXCEPT !.paused = export[e].paused /\ ~b]
      OBVIOUS
    <3>4. [export EXCEPT ![e].paused = @ /\ ~b] = [export EXCEPT ![e] = o]
      BY <3>3
    <3>5. o.state = export[e].state /\ r = [o EXCEPT !.state = st]
      BY <2>8, <2>9, <2>10, <3>3 DEF ExportRec
    <3>6. export' = [[export EXCEPT ![e] = o] EXCEPT ![e].state =
                       IF thread[t].resumes THEN @ ELSE "built"]
      BY <3>1, <3>4
    <3>7. [[export EXCEPT ![e] = o] EXCEPT ![e].state = IF thread[t].resumes THEN @ ELSE "built"]
          = [export EXCEPT ![e] = [o EXCEPT !.state = IF thread[t].resumes THEN o.state ELSE "built"]]
      BY <2>5, <3>2
    <3> QED BY <2>8, <3>5, <3>6, <3>7
  <2>13. /\ export'[e] = r /\ \A x \in Export : x # e => export'[x] = export[x]
         /\ export' \in [Export -> ExportRec]
    BY <2>5, <2>11, <2>12 DEF RecTypes
  <2>14. /\ export'[e].producer = export[e].producer
         /\ export'[e].closed = export[e].closed /\ export'[e].raced = export[e].raced
         /\ export'[e].hooked = export[e].hooked /\ export'[e].linked = export[e].linked
         /\ export'[e].state = export[e].state \/ (export'[e].state = "built" /\ ~thread[t].resumes)
         /\ UNCHANGED <<producer, process, stopping, closing>>
    BY <2>4, <2>8, <2>11, <2>13
  <2>15. Core'
    <3>1. thread[t].pc = "own" /\ R!Done(t)
      BY <2>4
    <3>2. /\ DOMAIN slots' = DOMAIN slots
          /\ \A i \in DOMAIN slots :
               /\ slots[i].export # e => slots'[i] = slots[i]
               /\ slots[i].export = e => slots'[i] = [export |-> e, process |-> n]
      BY <2>7
    <3>3. \A x \in Export : x # e => export'[x] = export[x]
      BY <2>13
    <3> QED BY <1>1, <2>1, <2>14, <3>1, <3>2, <3>3, Owns
  <2>16. s \in Seq(EventRec) /\ Fits(s) /\ Quiet(s)
    BY <2>3, <2>5, Single, Nothing DEF OfExport, OfProducer
  <2>17. Told' /\ events' \in Seq(EventRec) /\ Fits(events')
    BY <2>4, <2>16, ToldKept
  <2>18. RecTypes'
    BY <2>4, <2>7, <2>13, <2>17, DoneIs DEF RecTypes
  <2> QED BY <2>15, <2>17, <2>18
<1> QED BY <1>3, <1>4, <1>5, <1>7, <1>8, <1>9, <1>10 DEF R!Build

LEMMA CloseTaskStep ==
  ASSUME RecIInv, NEW e \in Export, R!CloseTask(e) PROVE RecIInv'
<1> USE DEF RecIInv
<1>1. /\ slots' = R!SlotsWithout(e) /\ process' = R!Killed(e) /\ closing' = closing \ {e}
      /\ events' = events \o <<R!Ev("transportClosed", e)>>
      /\ UNCHANGED <<studio, producer, export, thread, stopping, tasks>>
  BY DEF R!CloseTask, R!Post, R!threads, R!rest
<1>2. slots' \in Seq(SlotRec)
  <2>1. PICK q : q = R!SlotsWithout(e)
    OBVIOUS
  <2> QED BY <1>1, <2>1, Removed DEF Core
<1>3. process' \in Seq(ProcessRec)
  <2>1. ASSUME NEW n \in DOMAIN process PROVE process'[n] \in ProcessRec
    <3>1. process[n] \in ProcessRec
      BY Elements
    <3>2. process'[n] = [process[n] EXCEPT !.state = "killed"] \/ process'[n] = process[n]
      BY <1>1 DEF R!Killed
    <3> QED BY <3>1, <3>2 DEF ProcessRec
  <2>2. process' \in [1..Len(process) -> ProcessRec] /\ Len(process) \in Nat
    <3>1. DOMAIN process = 1..Len(process) /\ Len(process) \in Nat
      BY DEF RecTypes
    <3>2. process' = [n \in DOMAIN process |-> process'[n]]
      BY <1>1 DEF R!Killed
    <3> QED BY <2>1, <3>1, <3>2
  <2> QED BY <2>2
<1>4. Told' /\ events' \in Seq(EventRec) /\ Fits(events')
  <2>1. PICK s : s = <<R!Ev("transportClosed", e)>>
    OBVIOUS
  <2>2. s \in Seq(EventRec) /\ Fits(s) /\ Quiet(s)
    BY <2>1, Single DEF OfExport, OfProducer
  <2> QED BY <1>1, <2>1, <2>2, ToldKept
<1>5. RecTypes'
  BY <1>1, <1>2, <1>3, <1>4 DEF RecTypes
<1> QED BY <1>4, <1>5, Unslots

LEMMA ExitStep ==
  ASSUME RecIInv, NEW n \in DOMAIN process, R!ProcessExit(n) PROVE RecIInv'
<1> USE DEF RecIInv
<1>1. PICK e : e = process[n].export
  OBVIOUS
<1>2. e \in Export /\ process[n] \in ProcessRec /\ export[e] \in ExportRec
  BY <1>1, Elements
<1>3. PICK x : x = [export |-> e, process |-> n]
  OBVIOUS
<1>4. PICK b \in BOOLEAN : b = ((\E i \in DOMAIN slots : slots[i] = x) /\ ~R!Freed(e) /\ R!ConsumerFound(e))
  OBVIOUS
<1>5. PICK s : s = IF b THEN <<R!Ev("consumerPause", e)>> ELSE <<>>
  OBVIOUS
<1>6. /\ process' = [process EXCEPT ![n].state = "gone"]
      /\ slots' = [i \in DOMAIN slots |-> IF slots[i] = x THEN [slots[i] EXCEPT !.process = 0] ELSE slots[i]]
      /\ export' = [export EXCEPT ![e].paused = @ \/ b]
      /\ events' = events \o s
      /\ UNCHANGED <<studio, producer, thread, stopping, closing, tasks>>
  BY <1>1, <1>3, <1>4, <1>5 DEF R!ProcessExit, R!Post, R!threads
<1>7. /\ process' \in Seq(ProcessRec) /\ DOMAIN process' = DOMAIN process
      /\ \A m \in DOMAIN process : /\ m # n => process'[m] = process[m]
                                   /\ process'[m].export = process[m].export
      /\ process'[n].state = "gone"
  <2>1. PICK r : r = [process[n] EXCEPT !.state = "gone"]
    OBVIOUS
  <2>2. r \in ProcessRec /\ r.export = process[n].export /\ r.state = "gone"
    BY <1>2, <2>1 DEF ProcessRec
  <2>3. process' = [process EXCEPT ![n] = r]
    BY <1>6, <2>1 DEF RecTypes
  <2>4. process \in [1..Len(process) -> ProcessRec] /\ Len(process) \in Nat /\ DOMAIN process = 1..Len(process)
    BY DEF RecTypes
  <2>5. process' \in [1..Len(process) -> ProcessRec]
    BY <2>2, <2>3, <2>4
  <2> QED BY <2>2, <2>3, <2>4, <2>5
<1>8. /\ slots' \in Seq(SlotRec) /\ DOMAIN slots' = DOMAIN slots
      /\ \A i \in DOMAIN slots :
           /\ slots[i] = [export |-> e, process |-> n] => slots'[i].export = e /\ slots'[i].process = 0
           /\ slots[i] # [export |-> e, process |-> n] => slots'[i] = slots[i]
  <2>1. DOMAIN slots' = DOMAIN slots
    BY <1>6
  <2>2. ASSUME NEW i \in DOMAIN slots
        PROVE  /\ slots[i] = x => slots'[i].export = e /\ slots'[i].process = 0
               /\ slots[i] # x => slots'[i] = slots[i]
               /\ slots'[i] \in SlotRec
    <3>1. slots[i] \in SlotRec
      BY Elements
    <3>2. CASE slots[i] = x
      <4>1. slots'[i] = [slots[i] EXCEPT !.process = 0]
        BY <1>6, <3>2
      <4> QED BY <1>3, <3>1, <3>2, <4>1 DEF SlotRec
    <3>3. CASE slots[i] # x
      BY <1>6, <3>1, <3>3
    <3> QED BY <3>2, <3>3
  <2>3. slots' \in [1..Len(slots) -> SlotRec] /\ Len(slots) \in Nat
    BY <1>6, <2>2 DEF RecTypes
  <2>4. slots' \in Seq(SlotRec)
    BY <2>3
  <2> QED BY <1>3, <2>1, <2>2, <2>4
<1>9. PICK r : r = [export[e] EXCEPT !.paused = export[e].paused \/ b]
  OBVIOUS
<1>10. /\ r \in ExportRec /\ r.state = export[e].state /\ r.producer = export[e].producer
       /\ r.closed = export[e].closed /\ r.hooked = export[e].hooked
       /\ r.linked = export[e].linked /\ r.raced = export[e].raced
  <2>1. PICK c \in BOOLEAN : c = (export[e].paused \/ b)
    OBVIOUS
  <2> QED BY <1>2, <1>9, <2>1 DEF ExportRec
<1>11. export[e].state = "none" => r = export[e]
  <2>1. ASSUME export[e].state = "none" PROVE r = export[e]
    <3>1. export[e] = R!NoExport /\ ~R!Slotted(e)
      <4>1. export[e] = R!NoExport
        BY <1>2, <2>1 DEF Core, Exports
      <4>2. ~export[e].hooked
        BY <4>1 DEF R!NoExport
      <4> QED BY <1>2, <4>1, <4>2 DEF Core, Slots
    <3>2. ~b
      <4>1. x.export = e
        BY <1>3
      <4>2. \A i \in DOMAIN slots : slots[i] # x
        BY <3>1, <4>1 DEF R!Slotted
      <4> QED BY <1>4, <4>2
    <3>3. (export[e].paused \/ b) = FALSE
      BY <3>1, <3>2, NoExportKept
    <3> QED BY <1>9, <3>1, <3>3, NoExportKept
  <2> QED BY <2>1
<1>12. /\ export' \in [Export -> ExportRec]
       /\ export'[e] = r /\ \A y \in Export : y # e => export'[y] = export[y]
  BY <1>2, <1>6, <1>9, <1>10 DEF RecTypes
<1>13. \A y \in Export :
         /\ export[y].state = "none" => export'[y] = export[y]
         /\ export'[y].state = export[y].state /\ export'[y].producer = export[y].producer
         /\ export'[y].closed = export[y].closed /\ export'[y].hooked = export[y].hooked
         /\ export'[y].linked = export[y].linked /\ export'[y].raced = export[y].raced
  BY <1>10, <1>11, <1>12
<1>14. UNCHANGED <<producer, thread, stopping, closing>>
  BY <1>6
<1>15. Core'
  BY <1>1, <1>7, <1>8, <1>13, <1>14, Exits
<1>16. s \in Seq(EventRec) /\ Fits(s) /\ Quiet(s)
  BY <1>2, <1>5, Single, Nothing DEF OfExport, OfProducer
<1>17. Told' /\ events' \in Seq(EventRec) /\ Fits(events')
  BY <1>6, <1>16, ToldKept
<1>18. RecTypes'
  BY <1>6, <1>7, <1>8, <1>12, <1>17 DEF RecTypes
<1> QED BY <1>15, <1>17, <1>18

LEMMA EventsStep ==
  ASSUME R!RecordingAssumption, RecIInv, R!Handle PROVE RecIInv'
<1> USE DEF RecIInv
<1>1. PICK h : h = Head(events)
  OBVIOUS
<1>2. PICK e : e = R!Of
  OBVIOUS
<1>3. /\ events # <<>> /\ h \in EventRec /\ thread["events"].pc = "idle" /\ e = h.of
      /\ h.kind \in OfExport => e \in Export
      /\ h.kind \in OfProducer => e \in Producer
  <2>1. events # <<>> /\ thread["events"].pc = "idle"
    BY DEF R!Handle, R!OnProducer, R!OnProducerPause, R!OnProducerResume, R!OnConsumerPause,
           R!OnConsumerResume, R!OnProducerClosed, R!OnRouterClosed, R!OnRoomClosed,
           R!OnTransportClosed, R!Heads, R!At
  <2>2. events \in Seq(EventRec) /\ Fits(events)
    BY DEF RecTypes
  <2>3. e = h.of
    BY <1>1, <1>2 DEF R!Of
  <2> QED BY <1>1, <2>1, <2>2, <2>3, Rest
<1>4. ASSUME NEW k, R!Heads(k) PROVE h.kind = k
  BY <1>1, <1>4 DEF R!Heads
<1>5. ASSUME NEW s \in Seq(EventRec), Fits(s), Quiet(s), events' = Tail(events) \o s,
             tasks' = tasks, studio' = studio
      PROVE  Told' /\ events' \in Seq(EventRec) /\ Fits(events')
  BY <1>3, <1>5, ToldKept
<1>6. ASSUME events' = Tail(events), tasks' = tasks, studio' = studio
      PROVE  Told' /\ events' \in Seq(EventRec) /\ Fits(events')
  <2>1. PICK q : q = Tail(events)
    OBVIOUS
  <2>2. q \in Seq(EventRec)
    BY <1>3, <2>1, Rest DEF RecTypes
  <2>3. events' = Tail(events) \o <<>>
    BY <1>6, <2>1, <2>2
  <2> QED BY <1>5, <1>6, <2>3, Nothing
<1>7. ASSUME R!OnProducer PROVE RecIInv'
  <2>1. /\ events' = Tail(events) /\ e \in Producer
        /\ UNCHANGED <<studio, producer, export, slots, process, stopping, closing, tasks>>
    <3>1. h.kind \in {"created", "resumed"}
      BY <1>4, <1>7 DEF R!OnProducer
    <3> QED BY <1>3, <1>7, <3>1 DEF R!OnProducer, R!writers, R!rest, OfProducer
  <2>2. PICK r : /\ thread' = [thread EXCEPT !["events"] = r]
                 /\ r \in ThreadRec /\ r.pc \in {"idle", "next", "link"} /\ r.export = None /\ ~r.resumes
                 /\ r.pc = "link" => r.producer \in Producer
    <3>1. thread["events"] \in ThreadRec /\ thread["events"].export = None /\ ~thread["events"].resumes
      BY <1>3, Elements DEF R!Thread, Core, Steps
    <3>2. CASE thread' = thread
      BY <1>3, <3>1, <3>2 DEF RecTypes
    <3>3. CASE thread' = [thread EXCEPT !["events"] =
                           [R!IdleThread EXCEPT !.pc = "link", !.producer = e]]
      <4>1. PICK r : r = [R!IdleThread EXCEPT !.pc = "link", !.producer = e]
        OBVIOUS
      <4>2. r \in ThreadRec /\ r.pc = "link" /\ r.export = None /\ ~r.resumes /\ r.producer = e
        BY <2>1, <4>1 DEF R!IdleThread, ThreadRec
      <4> QED BY <2>1, <3>3, <4>1, <4>2
    <3> QED BY <1>2, <1>7, <3>2, <3>3 DEF R!OnProducer
  <2>3. Core'
    BY <1>3, <2>1, <2>2, Turns DEF R!Thread
  <2>4. RecTypes'
    BY <1>6, <2>1, <2>2 DEF RecTypes
  <2> QED BY <1>6, <2>1, <2>3, <2>4
<1>8. ASSUME R!OnProducerPause PROVE RecIInv'
  <2>1. PICK s : s = IF R!ConsumerFound(e) /\ ~export[e].paused
                     THEN <<R!Ev("consumerPause", e)>> ELSE <<>>
    OBVIOUS
  <2>2. /\ events' = Tail(events) \o s /\ e \in Export
        /\ UNCHANGED <<studio, producer, export, slots, process, thread, stopping, closing, tasks>>
    <3>1. h.kind = "producerPause"
      BY <1>4, <1>8 DEF R!OnProducerPause
    <3> QED BY <1>2, <1>3, <1>8, <2>1, <3>1 DEF R!OnProducerPause, R!writers, R!threads, R!rest, OfExport
  <2>3. s \in Seq(EventRec) /\ Fits(s) /\ Quiet(s)
    BY <2>1, <2>2, Single, Nothing DEF OfExport, OfProducer
  <2>4. Core'
    BY <2>2, Still
  <2>5. RecTypes'
    BY <1>5, <2>2, <2>3 DEF RecTypes
  <2> QED BY <1>5, <2>2, <2>3, <2>4, <2>5
<1>9. ASSUME NEW r \in ExportRec, e \in Export, export' = [export EXCEPT ![e] = r],
             r.state = export[e].state, r.producer = export[e].producer,
             r.closed = export[e].closed, r.hooked = export[e].hooked,
             r.linked = export[e].linked, r.raced = export[e].raced,
             export[e].state = "none" => r = export[e],
             UNCHANGED <<producer, slots, process, thread, stopping, closing>>
      PROVE  Core' /\ export' \in [Export -> ExportRec]
  <2>1. /\ export' \in [Export -> ExportRec]
        /\ export'[e] = r /\ \A y \in Export : y # e => export'[y] = export[y]
    BY <1>9 DEF RecTypes
  <2>2. PICK E : E = {}
    OBVIOUS
  <2>3. /\ E \in SUBSET Export /\ \A x \in E : export[x].state # "none"
        /\ closing' = R!Scheduled(E) /\ stopping' \subseteq stopping
    BY <1>9, <2>2 DEF R!Scheduled
  <2>4. \A x \in Export :
          /\ export[x].state = "none" => export'[x] = export[x]
          /\ export'[x].state = export[x].state /\ export'[x].producer = export[x].producer
          /\ export'[x].hooked = export[x].hooked /\ (export[x].raced => export'[x].raced)
          /\ x \in E /\ export[x].state # "failed" /\ ~export[x].closed =>
               /\ export'[x].closed /\ ~export'[x].linked
               /\ (\E t \in R!Thread : thread[t].export = x) => export'[x].raced
          /\ ~(x \in E /\ export[x].state # "failed" /\ ~export[x].closed) =>
               export'[x].closed = export[x].closed /\ export'[x].linked = export[x].linked
    BY <1>9, <2>1, <2>2
  <2>5. /\ UNCHANGED <<slots, process, thread>>
        /\ \A p \in Producer :
             /\ producer[p].export \notin E => producer'[p].export = producer[p].export
             /\ producer'[p].export \in {producer[p].export, None}
    BY <1>9
  <2>6. Core'
    BY <2>3, <2>4, <2>5, Closes
  <2> QED BY <2>1, <2>6
<1>10. ASSUME R!OnProducerResume PROVE RecIInv'
  <2>1. PICK f \in BOOLEAN : f = R!ConsumerFound(e)
    BY DEF R!ConsumerFound
  <2>2. PICK s : s \in {<<R!Ev("consumerResume", e)>>, <<>>} /\ events' = Tail(events) \o s
    BY <1>2, <1>10 DEF R!OnProducerResume
  <2>3. /\ export' = [export EXCEPT ![e].paused = @ /\ ~f] /\ e \in Export
        /\ UNCHANGED <<studio, producer, slots, process, thread, stopping, closing, tasks>>
    <3>1. h.kind = "producerResume"
      BY <1>4, <1>10 DEF R!OnProducerResume
    <3> QED BY <1>2, <1>3, <1>10, <2>1, <3>1 DEF R!OnProducerResume, R!writers, R!threads, R!rest, OfExport
  <2>4. s \in Seq(EventRec) /\ Fits(s) /\ Quiet(s)
    BY <2>2, <2>3, Single, Nothing DEF OfExport, OfProducer
  <2>5. export[e] \in ExportRec
    BY <2>3, Elements
  <2>6. PICK c \in BOOLEAN : c = (export[e].paused /\ ~f)
    OBVIOUS
  <2>7. PICK r : r = [export[e] EXCEPT !.paused = c]
    OBVIOUS
  <2>8. /\ r \in ExportRec /\ r.state = export[e].state /\ r.producer = export[e].producer
        /\ r.closed = export[e].closed /\ r.hooked = export[e].hooked
        /\ r.linked = export[e].linked /\ r.raced = export[e].raced
    BY <2>5, <2>7 DEF ExportRec
  <2>9. export[e].state = "none" => r = export[e]
    <3>1. ASSUME export[e].state = "none" PROVE r = export[e]
      <4>1. export[e] = R!NoExport
        BY <2>3, <3>1 DEF Core, Exports
      <4>2. c = FALSE
        BY <2>6, <4>1, NoExportKept
      <4> QED BY <2>7, <4>1, <4>2, NoExportKept
    <3> QED BY <3>1
  <2>10. export' = [export EXCEPT ![e] = r]
    BY <2>3, <2>6, <2>7 DEF RecTypes
  <2>11. Core' /\ export' \in [Export -> ExportRec]
    BY <1>9, <2>3, <2>8, <2>9, <2>10
  <2>12. RecTypes'
    BY <1>5, <2>2, <2>3, <2>4, <2>11 DEF RecTypes
  <2> QED BY <1>5, <2>2, <2>3, <2>4, <2>11, <2>12
<1>11. ASSUME R!OnTransportClosed PROVE RecIInv'
  <2>1. PICK c : c = IF export[e].consumer = "open" THEN "closed" ELSE export[e].consumer
    OBVIOUS
  <2>2. /\ export' = [export EXCEPT ![e].consumer = c] /\ e \in Export /\ events' = Tail(events)
        /\ UNCHANGED <<studio, producer, slots, process, thread, stopping, closing, tasks>>
    <3>1. h.kind = "transportClosed"
      BY <1>4, <1>11 DEF R!OnTransportClosed
    <3> QED BY <1>2, <1>3, <1>11, <2>1, <3>1 DEF R!OnTransportClosed, R!writers, R!threads, R!rest, OfExport
  <2>3. export[e] \in ExportRec
    BY <2>2, Elements
  <2>4. c \in {"none", "open", "closed"}
    BY <2>1, <2>3 DEF ExportRec
  <2>5. PICK r : r = [export[e] EXCEPT !.consumer = c]
    OBVIOUS
  <2>6. /\ r \in ExportRec /\ r.state = export[e].state /\ r.producer = export[e].producer
        /\ r.closed = export[e].closed /\ r.hooked = export[e].hooked
        /\ r.linked = export[e].linked /\ r.raced = export[e].raced
    BY <2>3, <2>4, <2>5 DEF ExportRec
  <2>7. export[e].state = "none" => r = export[e]
    <3>1. ASSUME export[e].state = "none" PROVE r = export[e]
      <4>1. export[e] = R!NoExport
        BY <2>2, <3>1 DEF Core, Exports
      <4>2. c = "none"
        BY <2>1, <4>1, NoExportKept
      <4> QED BY <2>5, <4>1, <4>2, NoExportKept
    <3> QED BY <3>1
  <2>8. export' = [export EXCEPT ![e] = r]
    BY <2>2, <2>5 DEF RecTypes
  <2>9. Core' /\ export' \in [Export -> ExportRec]
    BY <1>9, <2>2, <2>6, <2>7, <2>8
  <2>10. RecTypes'
    BY <1>6, <2>2, <2>9 DEF RecTypes
  <2> QED BY <1>6, <2>2, <2>9, <2>10
<1>12. ASSUME R!OnConsumerPause PROVE RecIInv'
  <2>1. PICK E : E = {x \in {e} : export[x].linked /\ export[x].hooked}
    OBVIOUS
  <2>2. /\ export' = R!ClosedExports(export, E) /\ producer' = R!Unlink(producer, E)
        /\ closing' = R!Scheduled(E) /\ events' = Tail(events) /\ e \in Export
        /\ UNCHANGED <<studio, slots, process, thread, stopping, tasks>>
    <3>1. h.kind = "consumerPause"
      BY <1>4, <1>12 DEF R!OnConsumerPause
    <3> QED BY <1>2, <1>3, <1>12, <2>1, <3>1 DEF R!OnConsumerPause, R!writers, R!threads, R!rest, OfExport
  <2>3. E \in SUBSET Export /\ \A x \in E : export[x].hooked
    BY <2>1, <2>2
  <2>4. \A x \in E : export[x].state # "none"
    <3>1. ~R!NoExport.hooked
      BY DEF R!NoExport
    <3> QED BY <2>3, <3>1 DEF Core, Exports
  <2>5. stopping' \subseteq stopping /\ UNCHANGED <<slots, process, thread>>
    BY <2>2
  <2>6. Core'
    BY <2>2, <2>3, <2>4, <2>5, ClosedFields, UnlinkFields, Closes
  <2>7. closing' \subseteq Export
    BY <2>2, <2>3 DEF R!Scheduled, RecTypes
  <2>8. RecTypes'
    BY <1>6, <2>2, <2>3, <2>7, ClosedFields, UnlinkFields DEF RecTypes
  <2> QED BY <1>6, <2>2, <2>6, <2>8
<1>13. ASSUME R!OnConsumerResume PROVE RecIInv'
  <2>1. PICK g \in BOOLEAN : g = (export[e].linked /\ export[e].hooked
          /\ ~\E i \in DOMAIN slots : slots[i].export = e /\ slots[i].process # 0)
    OBVIOUS
  <2>2. PICK w \in BOOLEAN : w = (g /\ thread["starter"].export = e)
    OBVIOUS
  <2>3. /\ thread' = IF g THEN [thread EXCEPT !["events"] = [R!IdleThread EXCEPT
                       !.pc = "spawn", !.export = e, !.producer = export[e].producer, !.resumes = TRUE]]
                     ELSE thread
        /\ export' = [export EXCEPT ![e].raced = @ \/ w]
        /\ events' = Tail(events) /\ e \in Export
        /\ UNCHANGED <<studio, producer, slots, process, stopping, closing, tasks>>
    <3>1. h.kind = "consumerResume"
      BY <1>4, <1>13 DEF R!OnConsumerResume
    <3> QED BY <1>2, <1>3, <1>13, <2>1, <2>2, <3>1 DEF R!OnConsumerResume, R!writers, R!rest, OfExport
  <2>4. export[e] \in ExportRec
    BY <2>3, Elements
  <2>5. CASE ~g
    <3>1. export' = export
      <4>1. (export[e].raced \/ w) = export[e].raced
        BY <2>2, <2>4, <2>5 DEF ExportRec
      <4>2. PICK c : c = export[e].raced
        OBVIOUS
      <4>3. [export[e] EXCEPT !.raced = c] = export[e]
        BY <2>4, <4>2 DEF ExportRec
      <4>4. export' = [export EXCEPT ![e] = [export[e] EXCEPT !.raced = c]]
        BY <2>3, <4>1, <4>2 DEF RecTypes
      <4> QED BY <4>3, <4>4 DEF RecTypes
    <3>2. UNCHANGED <<export, slots, process, thread, closing, producer, stopping>>
      BY <2>3, <2>5, <3>1
    <3>3. Core'
      BY <3>2, Still
    <3>4. RecTypes'
      BY <1>6, <2>3, <3>2 DEF RecTypes
    <3> QED BY <1>6, <2>3, <3>3, <3>4
  <2>6. CASE g
    <3>1. /\ export[e].linked /\ export[e].hooked
          /\ \A i \in DOMAIN slots : slots[i].export = e => slots[i].process = 0
      BY <2>1, <2>6
    <3>2. PICK r : r = [R!IdleThread EXCEPT !.pc = "spawn", !.export = e,
                                            !.producer = export[e].producer, !.resumes = TRUE]
      OBVIOUS
    <3>3. /\ r \in ThreadRec /\ r.pc = "spawn" /\ r.export = e /\ r.producer = export[e].producer
          /\ r.resumes
      <4>1. PICK p \in Producer \union {None} : p = export[e].producer
        BY <2>4 DEF ExportRec
      <4>2. r = [R!IdleThread EXCEPT !.pc = "spawn", !.export = e, !.producer = p, !.resumes = TRUE]
        BY <3>2, <4>1
      <4>3. /\ r \in ThreadRec /\ r.pc = "spawn" /\ r.export = e /\ r.producer = p /\ r.resumes
        BY <2>3, <4>2 DEF R!IdleThread, ThreadRec
      <4> QED BY <4>1, <4>3
    <3>4. thread' = [thread EXCEPT !["events"] = r]
      BY <2>3, <2>6, <3>2
    <3>5. /\ thread' \in [R!Thread -> ThreadRec] /\ thread'["events"] = r
          /\ thread'["starter"] = thread["starter"]
      BY <3>3, <3>4 DEF RecTypes, R!Thread
    <3>6. PICK c \in BOOLEAN : c = (export[e].raced \/ w)
      OBVIOUS
    <3>7. PICK x : x = [export[e] EXCEPT !.raced = c]
      OBVIOUS
    <3>8. /\ x \in ExportRec /\ x.state = export[e].state /\ x.producer = export[e].producer
          /\ x.closed = export[e].closed /\ x.hooked = export[e].hooked /\ x.linked = export[e].linked
          /\ x.raced = c
      BY <2>4, <3>7 DEF ExportRec
    <3>9. export' = [export EXCEPT ![e] = x]
      BY <2>3, <3>6, <3>7 DEF RecTypes
    <3>10. /\ export' \in [Export -> ExportRec] /\ export'[e] = x
           /\ \A y \in Export : y # e => export'[y] = export[y]
      BY <2>3, <3>8, <3>9 DEF RecTypes
    <3>11. /\ export'[e].state = export[e].state /\ export'[e].producer = export[e].producer
           /\ export'[e].closed = export[e].closed /\ export'[e].hooked = export[e].hooked
           /\ export'[e].linked = export[e].linked /\ (export[e].raced => export'[e].raced)
           /\ thread["starter"].export = e => export'[e].raced
      BY <2>2, <2>6, <3>6, <3>8, <3>10
    <3>12. /\ thread'["events"].pc = "spawn" /\ thread'["events"].export = e
           /\ thread'["events"].producer = export[e].producer /\ thread'["events"].resumes
           /\ thread'["starter"] = thread["starter"]
           /\ UNCHANGED <<producer, slots, process, stopping, closing>>
      BY <2>3, <3>3, <3>5
    <3>13. Core'
      BY <1>3, <2>3, <3>1, <3>10, <3>11, <3>12, Resumes
    <3>14. RecTypes'
      BY <1>6, <2>3, <3>5, <3>10 DEF RecTypes
    <3> QED BY <1>6, <2>3, <3>13, <3>14
  <2> QED BY <2>5, <2>6
<1>14. ASSUME R!OnProducerClosed PROVE RecIInv'
  <2>1. PICK Ps \in SUBSET Producer : R!ClosedProducers(Ps)
    BY <1>14 DEF R!OnProducerClosed
  <2>2. events' = Tail(events) /\ UNCHANGED <<studio, slots, process, thread, stopping, tasks>>
    BY <1>14 DEF R!OnProducerClosed, R!writers, R!threads, R!rest
  <2>3. /\ Core' /\ producer' \in [Producer -> ProducerRec] /\ export' \in [Export -> ExportRec]
        /\ closing' \subseteq Export
    BY <2>1, <2>2, ClosedProducersKept
  <2>4. RecTypes'
    BY <1>6, <2>2, <2>3 DEF RecTypes
  <2> QED BY <1>6, <2>2, <2>3, <2>4
<1>15. ASSUME R!OnRouterClosed PROVE RecIInv'
  <2>1. PICK Ps \in SUBSET Producer : R!ClosedProducers(Ps)
    BY <1>15 DEF R!OnRouterClosed
  <2>2. PICK s : s = IF studio.open THEN <<R!Ev("roomClosed", None)>> ELSE <<>>
    OBVIOUS
  <2>3. /\ events' = Tail(events) \o s /\ studio' = [studio EXCEPT !.open = FALSE]
        /\ UNCHANGED <<slots, process, thread, stopping, tasks>>
    BY <1>15, <2>2 DEF R!OnRouterClosed, R!writers, R!threads, R!rest
  <2>4. /\ Core' /\ producer' \in [Producer -> ProducerRec] /\ export' \in [Export -> ExportRec]
        /\ closing' \subseteq Export
    BY <2>1, <2>3, ClosedProducersKept
  <2>5. studio' \in StudioRec /\ ~studio'.open /\ studio'.sessions = studio.sessions
    BY <2>3 DEF RecTypes, StudioRec
  <2>6. s \in Seq(EventRec) /\ Fits(s) /\ Once(s) /\ (~studio.open => Quiet(s))
    BY <2>2, Single, Nothing DEF OfExport, OfProducer, OfRoom
  <2>7. PICK q : q = Tail(events)
    OBVIOUS
  <2>8. /\ q \in Seq(EventRec) /\ Fits(q) /\ Once(q) /\ (Quiet(events) => Quiet(q))
    BY <1>3, <2>7, Rest DEF RecTypes, Told
  <2>9. PICK x : x = events'
    OBVIOUS
  <2>10. x = q \o s
    BY <2>3, <2>7, <2>9
  <2>11. studio.open => Quiet(q)
    BY <2>8 DEF Told
  <2>12. x \in Seq(EventRec) /\ Fits(x) /\ Once(x)
    BY <2>6, <2>8, <2>10, <2>11, Joined
  <2>13. tasks = 0 \/ ~studio.open
    BY DEF Told
  <2>14. ~studio.open => (Quiet(q) => Quiet(x))
    BY <2>6, <2>8, <2>10, Joined
  <2>15. Told'
    <3>1. ~Quiet(x) => tasks = 0
      <4>1. CASE studio.open
        BY <2>13, <4>1
      <4>2. CASE ~studio.open
        BY <2>8, <2>14, <4>2 DEF Told
      <4> QED BY <4>1, <4>2
    <3>2. tasks # 0 => tasks = 1 /\ studio.sessions > 0
      BY DEF Told
    <3> QED BY <2>3, <2>5, <2>9, <2>12, <3>1, <3>2 DEF Told
  <2>16. RecTypes'
    BY <2>3, <2>4, <2>5, <2>9, <2>12 DEF RecTypes
  <2> QED BY <2>4, <2>15, <2>16
<1>16. ASSUME R!OnRoomClosed PROVE RecIInv'
  <2>1. /\ h.kind = "roomClosed" /\ events' = Tail(events)
        /\ tasks' = (IF studio.sessions > 0 THEN tasks + 1 ELSE tasks)
        /\ UNCHANGED <<studio, producer, export, slots, process, thread, stopping, closing>>
    <3>1. h.kind = "roomClosed"
      BY <1>4, <1>16 DEF R!OnRoomClosed
    <3> QED BY <1>16, <3>1 DEF R!OnRoomClosed, R!Recorded, R!writers, R!threads
  <2>2. Core'
    BY <2>1, Still
  <2>3. PICK q : q = Tail(events)
    OBVIOUS
  <2>4. /\ q \in Seq(EventRec) /\ Fits(q) /\ Once(q) /\ Quiet(q) /\ ~Quiet(events)
    BY <1>1, <1>3, <2>1, <2>3, Rest DEF RecTypes, Told
  <2>5. tasks = 0 /\ ~studio.open
    BY <2>4 DEF Told
  <2>6. tasks' \in Nat /\ (tasks' # 0 => tasks' = 1 /\ studio.sessions > 0)
    BY <2>1, <2>5
  <2>7. Told'
    BY <2>1, <2>3, <2>4, <2>5, <2>6 DEF Told
  <2>8. RecTypes'
    BY <2>1, <2>3, <2>4, <2>6 DEF RecTypes
  <2> QED BY <2>2, <2>7, <2>8
<1> QED BY <1>7, <1>8, <1>10, <1>11, <1>12, <1>13, <1>14, <1>15, <1>16 DEF R!Handle

LEMMA NextRecIInv ==
  ASSUME R!RecordingAssumption, RecIInv, [R!Next]_(R!vars) PROVE RecIInv'
<1>1. CASE UNCHANGED R!vars
  <2>1. UNCHANGED <<studio, producer, export, slots, process, thread, stopping, closing, events, tasks>>
    BY <1>1 DEF R!vars
  <2>2. Core'
    BY <2>1, Still DEF RecIInv
  <2> QED BY <2>1, <2>2 DEF RecIInv, RecTypes, Told
<1>2. CASE R!Next
  BY <1>2, RoomStep, BuildStep, MembersStep, CloseTaskStep, ExitStep, EventsStep DEF R!Next
<1> QED BY <1>1, <1>2

(* Whatever the starter and the event thread build for a producer, an       *)
(* export that is open is the one its producer knows of.                    *)
THEOREM OpenAlwaysLinked ==
  ASSUME R!RecordingAssumption PROVE R!Spec => [](OpenIsLinked /\ R!OpenIsLinked)
<1>1. R!Init => RecIInv
  BY Init_RecIInv
<1>2. RecIInv /\ [R!Next]_(R!vars) => RecIInv'
  BY NextRecIInv
<1>3. RecIInv => OpenIsLinked /\ R!OpenIsLinked
  BY DEF RecIInv, Core, OpenIsLinked
<1> QED BY <1>1, <1>2, <1>3, PTL DEF R!Spec

(* A slot belongs to an export that is there, a process that runs to a slot *)
(* or to the thread that is about to say so, and a room that was recorded   *)
(* submits one task, once it is closed.                                     *)
THEOREM ProcessesAlwaysOwned ==
  ASSUME R!RecordingAssumption
  PROVE  R!Spec => [](ProcessesOwned /\ R!SlotsBelong /\ R!ProcessesOwned /\ R!OneTask)
<1>1. R!Init => RecIInv
  BY Init_RecIInv
<1>2. RecIInv /\ [R!Next]_(R!vars) => RecIInv'
  BY NextRecIInv
<1>3. RecIInv => ProcessesOwned /\ R!SlotsBelong /\ R!ProcessesOwned /\ R!OneTask
  <2>1. RecIInv => R!SlotsBelong
    BY DEF RecIInv, Core, Slots, R!SlotsBelong, R!Freed
  <2>2. RecIInv => R!OneTask
    BY DEF RecIInv, RecTypes, Told, R!OneTask
  <2>3. RecIInv => R!ProcessesOwned
    BY DEF RecIInv, Core
  <2> QED BY <2>1, <2>2, <2>3 DEF ProcessesOwned
<1> QED BY <1>1, <1>2, <1>3, PTL DEF R!Spec

-----------------------------------------------------------------------------
(* Post-processing.                                                        *)

PostTypes ==
  /\ pc \in {"collect", "fix", "sort", "cut", "done", "failed"}
  /\ \A m \in media : file[m].start \in 0..MaxTime /\ file[m].end \in 0..MaxTime
                      /\ file[m].start < file[m].end
  /\ ptime \in -1..MaxTime
  /\ mlist \in Seq(media)
  /\ pc \notin {"cut", "done"} => mlist = <<>> /\ steps = <<>> /\ ptime = -1

\* A medium is in a list once.
OnceIn(list) == \A i, j \in DOMAIN list : list[i] = list[j] => i = j

\* The media that have started and not ended are in mlist.
Playing ==
  /\ OnceIn(mlist)
  /\ \A m \in media : (\E i \in DOMAIN mlist : mlist[i] = m)
                        <=> <<m, TRUE>> \notin points /\ <<m, FALSE>> \in points

\* The points before ptime are gone, those after it are to come.
Passed ==
  /\ points \subseteq media \X BOOLEAN
  /\ \A p \in points : P!Time(p) >= ptime
  /\ \A p \in (media \X BOOLEAN) \ points : P!Time(p) <= ptime
  /\ \A m \in media : <<m, TRUE>> \in points => <<m, FALSE>> \in points
  /\ pc = "done" => points = {}

\* The steps have what is recorded at t, once.
RightAt(t) ==
  IF P!Lasting(t) = {} THEN P!During(t) = {}
  ELSE \E i \in P!During(t) : P!During(t) = {i} /\ P!ToSet(steps[i].list) = P!Lasting(t)
                              /\ OnceIn(steps[i].list)

\* So it is up to ptime.
StepRec == [start : Nat, end : Nat, list : Seq(Media)]
Past ==
  /\ steps \in Seq(StepRec)
  /\ \A i \in DOMAIN steps : steps[i].end <= ptime
  /\ \A t \in 0..MaxTime : t < ptime => RightAt(t)

PostIInv == /\ media \subseteq Media /\ PostTypes
            /\ pc \in {"cut", "done"} => Playing /\ Passed /\ Past

\* q has what s has but m.
Less(q, s, m) == \A x : (\E i \in DOMAIN q : q[i] = x) <=> x # m /\ \E i \in DOMAIN s : s[i] = x

LEMMA TakenOut ==
  ASSUME NEW M, NEW s \in Seq(M), OnceIn(s), NEW c \in DOMAIN s, NEW m, m = s[c],
         NEW q, q = P!RemoveFirst(s, m)
  PROVE  q \in Seq(M) /\ OnceIn(q) /\ Less(q, s, m)
<1>1. PICK n \in Nat : n = Len(s)
  OBVIOUS
<1>2. DOMAIN s = 1..n /\ c \in 1..n
  BY <1>1
<1>3. {i \in 1..Len(s) : s[i] = m} = {c}
  BY <1>1, <1>2 DEF OnceIn
<1>4. q = SubSeq(s, 1, c - 1) \o SubSeq(s, c + 1, n)
  <2>1. P!SelectInSeq(s, LAMBDA v : v = m)
          = LET I == {i \in 1..Len(s) : s[i] = m} IN IF I # {} THEN P!Min(I) ELSE 0
    BY DEF P!SelectInSeq
  <2>2. P!Min({c}) = c
    BY <1>2 DEF P!Min
  <2>3. P!SelectInSeq(s, LAMBDA v : v = m) = c
    BY <1>3, <2>1, <2>2
  <2>4. \E i \in 1..Len(s) : s[i] = m
    BY <1>1, <1>2
  <2> QED BY <1>1, <2>3, <2>4 DEF P!RemoveFirst, P!RemoveAt
<1>5. PICK a : a = SubSeq(s, 1, c - 1)
  OBVIOUS
<1>6. PICK b : b = SubSeq(s, c + 1, n)
  OBVIOUS
<1>7. a \in Seq(M) /\ Len(a) = c - 1 /\ \A i \in 1..c - 1 : a[i] = s[i]
  BY <1>1, <1>2, <1>5
<1>8. b \in Seq(M) /\ Len(b) = n - c /\ \A i \in 1..n - c : b[i] = s[c + i]
  BY <1>1, <1>2, <1>6
<1>9. q = a \o b
  BY <1>4, <1>5, <1>6
<1>10. /\ q \in Seq(M) /\ Len(q) = Len(a) + Len(b)
       /\ \A i \in 1..Len(a) + Len(b) : q[i] = IF i <= Len(a) THEN a[i] ELSE b[i - Len(a)]
  <2>1. a \in Seq(M) /\ b \in Seq(M)
    BY <1>7, <1>8
  <2> QED BY ONLY <1>9, <2>1, Concat
<1>11. DOMAIN q = 1..n - 1
  <2>1. Len(q) = n - 1
    BY ONLY <1>1, <1>2, <1>7, <1>8, <1>10
  <2> QED BY <1>10, <2>1
<1>12. ASSUME NEW i \in 1..n - 1 PROVE q[i] = IF i < c THEN s[i] ELSE s[i + 1]
  <2>1. i \in 1..Len(a) + Len(b) /\ (i < c <=> i <= Len(a)) /\ i \in Int
    BY ONLY <1>1, <1>2, <1>7, <1>8, i \in 1..n - 1
  <2>2. CASE i < c
    <3>1. i \in 1..c - 1
      BY ONLY <1>1, <1>2, <2>1, <2>2
    <3> QED BY <1>7, <1>10, <2>1, <2>2, <3>1
  <2>3. CASE ~(i < c)
    <3>1. i - Len(a) \in 1..n - c /\ c + (i - Len(a)) = i + 1
      BY ONLY <1>1, <1>2, <1>7, i \in 1..n - 1, <2>3
    <3>2. q[i] = b[i - Len(a)]
      BY <1>10, <2>1, <2>3
    <3>3. b[i - Len(a)] = s[c + (i - Len(a))]
      BY <1>8, <3>1
    <3> QED BY <2>3, <3>1, <3>2, <3>3
  <2> QED BY <2>2, <2>3
<1>13. \A i \in DOMAIN q : /\ i < c => i \in DOMAIN s /\ i # c /\ q[i] = s[i]
                           /\ ~(i < c) => i + 1 \in DOMAIN s /\ i + 1 # c /\ q[i] = s[i + 1]
  BY ONLY <1>1, <1>2, <1>11, <1>12
<1>14. \A k \in DOMAIN s : k # c => \/ k < c /\ k \in DOMAIN q /\ q[k] = s[k]
                                    \/ ~(k < c) /\ k - 1 \in DOMAIN q /\ q[k - 1] = s[k]
  BY ONLY <1>1, <1>2, <1>11, <1>12
<1>15. OnceIn(q)
  <2>1. ASSUME NEW i \in DOMAIN q, NEW j \in DOMAIN q, q[i] = q[j] PROVE i = j
    <3>1. i \in Nat /\ j \in Nat /\ c \in Nat
      BY ONLY <1>1, <1>2, <1>11, i \in DOMAIN q, j \in DOMAIN q
    <3>2. \A k, l \in DOMAIN s : s[k] = s[l] => k = l
      BY DEF OnceIn
    <3> QED BY ONLY <1>13, <2>1, <3>1, <3>2
  <2> QED BY <2>1 DEF OnceIn
<1>16. \A i \in DOMAIN q : q[i] # m /\ \E k \in DOMAIN s : q[i] = s[k]
  BY <1>13 DEF OnceIn
<1>17. \A x : x # m /\ (\E i \in DOMAIN s : s[i] = x) => \E i \in DOMAIN q : q[i] = x
  BY <1>14
<1>18. Less(q, s, m)
  BY ONLY <1>16, <1>17 DEF Less
<1> QED BY <1>10, <1>15, <1>18

LEMMA Adds ==
  ASSUME NEW M, NEW s \in Seq(M), NEW x \in M, NEW w, w = Append(s, x)
  PROVE  /\ w \in Seq(M) /\ Len(w) = Len(s) + 1
         /\ DOMAIN w = 1..Len(s) + 1 /\ DOMAIN s = 1..Len(s) /\ Len(s) \in Nat
         /\ w[Len(s) + 1] = x /\ \A i \in DOMAIN s : w[i] = s[i]
OBVIOUS

\* A list without repetitions is as long as it has media.
LEMMA LengthIs ==
  ASSUME NEW M, NEW s \in Seq(M), OnceIn(s)
  PROVE  Len(s) = Cardinality(P!ToSet(s))
<1>1. s \in Bijection(1..Len(s), P!ToSet(s))
  <2>1. DOMAIN s = 1..Len(s) /\ s \in [1..Len(s) -> P!ToSet(s)]
    BY DEF P!ToSet
  <2> QED BY <2>1 DEF Bijection, Injection, Surjection, IsInjective, P!ToSet, OnceIn
<1>2. ExistsBijection(1..Len(s), P!ToSet(s)) /\ Len(s) \in Nat
  BY <1>1 DEF ExistsBijection
<1> QED BY <1>2, FS_CountingElements

LEMMA PostInit == ASSUME P!PostprocBounds, P!Init PROVE PostIInv
BY DEF P!PostprocBounds, P!Init, PostIInv, PostTypes

LEMMA CollectStep == ASSUME P!PostprocBounds, PostIInv, P!Collect PROVE PostIInv'
<1>1. PICK readable \in SUBSET Media : media' = readable /\ file' \in [readable -> P!File]
  BY DEF P!Collect
<1>2. pc = "collect" /\ pc' = "fix" /\ UNCHANGED <<points, mlist, ptime, steps>>
  BY DEF P!Collect
<1>3. \A f \in P!File : f.start \in 0..MaxTime /\ f.end \in 0..MaxTime /\ f.start < f.end
  BY DEF P!File
<1>4. \A m \in media' : file'[m] \in P!File
  BY <1>1
<1>5. mlist = <<>> /\ steps = <<>> /\ ptime = -1 /\ ptime \in -1..MaxTime
  BY <1>2 DEF PostIInv, PostTypes
<1>6. mlist' \in Seq(media')
  BY <1>2, <1>5
<1> QED BY <1>1, <1>2, <1>3, <1>4, <1>5, <1>6 DEF PostIInv, PostTypes

LEMMA FixStep == ASSUME PostIInv, P!Fix PROVE PostIInv'
<1>1. media' \in SUBSET media
  BY DEF P!Fix, P!Kept
<1>2. pc = "fix" /\ pc' = "sort" /\ UNCHANGED <<file, points, mlist, ptime, steps>>
  BY DEF P!Fix
<1>3. mlist = <<>> /\ steps = <<>> /\ ptime = -1 /\ ptime \in -1..MaxTime
  BY <1>2 DEF PostIInv, PostTypes
<1>4. mlist' \in Seq(media')
  BY <1>2, <1>3
<1> QED BY <1>1, <1>2, <1>3, <1>4 DEF PostIInv, PostTypes

LEMMA SortStep == ASSUME PostIInv, P!Sort PROVE PostIInv'
<1>1. /\ pc = "sort" /\ pc' \in {"failed", "cut"} /\ points' = media \X BOOLEAN
      /\ UNCHANGED <<file, media, mlist, ptime, steps>>
  BY DEF P!Sort
<1>2. mlist = <<>> /\ steps = <<>> /\ ptime = -1
  BY <1>1 DEF PostIInv, PostTypes
<1>3. PostTypes' /\ media' \subseteq Media
  BY <1>1, <1>2 DEF PostIInv, PostTypes
<1>4. Playing'
  <2>1. \A m \in media : <<m, TRUE>> \in points'
    BY <1>1
  <2>2. DOMAIN mlist' = {}
    BY <1>1, <1>2
  <2> QED BY <1>1, <2>1, <2>2 DEF Playing, OnceIn
<1>5. Passed'
  <2>1. \A p \in media \X BOOLEAN : p[1] \in media
    OBVIOUS
  <2>2. \A m \in media : file[m].start \in Int /\ file[m].end \in Int
                         /\ file[m].start >= -1 /\ file[m].end >= -1
    BY DEF PostIInv, PostTypes
  <2>3. \A p \in media \X BOOLEAN : P!Time(p) >= -1
    BY <2>1, <2>2 DEF P!Time, P!Starts
  <2>4. \A p \in points' : P!Time(p)' >= ptime'
    BY <1>1, <1>2, <2>3 DEF P!Time, P!Starts
  <2> QED BY <1>1, <2>4 DEF Passed
<1>6. Past'
  <2>1. \A t \in 0..MaxTime : ~(t < ptime')
    BY <1>1, <1>2
  <2> QED BY <1>1, <1>2, <2>1 DEF Past
<1> QED BY <1>3, <1>4, <1>5, <1>6 DEF PostIInv

\* Between two points that which is recorded is what is in mlist.
LEMMA Between ==
  ASSUME PostTypes, Playing, Passed, NEW p \in points, \A q \in points : P!Time(p) <= P!Time(q),
         NEW t \in 0..MaxTime, ptime <= t, t < P!Time(p)
  PROVE  \A m \in media : m \in P!Lasting(t) <=> \E i \in DOMAIN mlist : mlist[i] = m
<1>1. ASSUME NEW m \in media
      PROVE  m \in P!Lasting(t) <=> <<m, TRUE>> \notin points /\ <<m, FALSE>> \in points
  <2>1. <<m, TRUE>> \in media \X BOOLEAN /\ <<m, FALSE>> \in media \X BOOLEAN
    OBVIOUS
  <2>2. P!Time(<<m, TRUE>>) = file[m].start /\ P!Time(<<m, FALSE>>) = file[m].end
    BY DEF P!Time, P!Starts
  <2>3. p \in media \X BOOLEAN /\ p[1] \in media
    BY DEF Passed
  <2>4. /\ file[m].start \in Int /\ file[m].end \in Int /\ ptime \in Int /\ t \in Int
        /\ file[p[1]].start \in Int /\ file[p[1]].end \in Int
    BY <2>3 DEF PostTypes
  <2>5. P!Time(p) \in Int
    BY <2>3, <2>4 DEF P!Time
  <2>6. <<m, TRUE>> \in points <=> ~(file[m].start <= t)
    BY <2>1, <2>2, <2>4, <2>5 DEF Passed
  <2>7. <<m, FALSE>> \in points <=> t < file[m].end
    BY <2>1, <2>2, <2>4, <2>5 DEF Passed
  <2> QED BY <2>6, <2>7 DEF P!Lasting
<1> QED BY <1>1 DEF Playing

LEMMA CutPoints ==
  ASSUME PostTypes, Playing, Passed, pc = "cut", NEW p \in points,
         \A q \in points : P!Time(p) <= P!Time(q), points' = points \ {p}, ptime' = P!Time(p),
         pc' = IF points' = {} THEN "done" ELSE "cut", UNCHANGED <<file, media>>,
         mlist' = IF P!Starts(p) THEN Append(mlist, p[1]) ELSE P!RemoveFirst(mlist, p[1])
  PROVE  PostTypes' /\ Playing' /\ Passed'
<1>1. /\ points \subseteq media \X BOOLEAN
      /\ \A q \in (media \X BOOLEAN) \ points : P!Time(q) <= ptime
      /\ \A q \in points : P!Time(q) >= ptime
  BY DEF Passed
<1>2. PICK m \in media : p = <<m, TRUE>> \/ p = <<m, FALSE>>
  <2>1. p \in media \X BOOLEAN
    BY <1>1
  <2>2. PICK m \in media, b \in BOOLEAN : p = <<m, b>>
    BY <2>1
  <2>3. b = TRUE \/ b = FALSE
    OBVIOUS
  <2> QED BY <2>2, <2>3
<1>3. \A x \in media : /\ P!Time(<<x, TRUE>>) = file[x].start
                       /\ P!Time(<<x, FALSE>>) = file[x].end
  BY DEF P!Time, P!Starts
<1>4. \A x \in media : /\ file[x].start \in 0..MaxTime /\ file[x].end \in 0..MaxTime
                       /\ file[x].start < file[x].end
  BY DEF PostTypes
<1>5. P!Time(p) \in 0..MaxTime /\ ptime \in -1..MaxTime /\ P!Time(p) >= ptime
  BY <1>1, <1>2, <1>3, <1>4 DEF PostTypes
<1>6. \A q \in media \X BOOLEAN : P!Time(q)' = P!Time(q) /\ P!Time(q) \in Int
  BY <1>3, <1>4 DEF P!Time, P!Starts
<1>7. Passed'
  <2>1. \A q \in points' : P!Time(q)' >= ptime'
    BY <1>1, <1>6
  <2>2. ASSUME NEW q \in (media \X BOOLEAN) \ points' PROVE P!Time(q)' <= ptime'
    <3>1. CASE q = p
      BY <1>1, <1>6, <3>1
    <3>2. CASE q # p
      <4>1. P!Time(q) <= ptime /\ P!Time(q)' = P!Time(q) /\ P!Time(q) \in Int
        BY <1>1, <1>6, <3>2
      <4> QED BY <1>5, <4>1
    <3> QED BY <3>1, <3>2
  <2>3. ASSUME NEW x \in media, <<x, TRUE>> \in points' PROVE <<x, FALSE>> \in points'
    <3>1. <<x, TRUE>> \in points /\ <<x, FALSE>> \in points
      BY <2>3 DEF Passed
    <3>2. p # <<x, FALSE>>
      <4>1. ASSUME p = <<x, FALSE>> PROVE FALSE
        <5>1. P!Time(<<x, FALSE>>) <= P!Time(<<x, TRUE>>)
          BY <3>1, <4>1
        <5>2. file[x].end <= file[x].start
          BY <1>3, <5>1
        <5>3. file[x].start \in Int /\ file[x].end \in Int /\ file[x].start < file[x].end
          BY <1>4
        <5> QED BY <5>2, <5>3
      <4> QED BY <4>1
    <3> QED BY <3>1, <3>2
  <2>4. points' \subseteq media' \X BOOLEAN /\ (pc' = "done" => points' = {})
    BY <1>1
  <2>5. \A x \in media' : <<x, TRUE>> \in points' => <<x, FALSE>> \in points'
    BY <2>3
  <2>6. \A q \in (media' \X BOOLEAN) \ points' : P!Time(q)' <= ptime'
    BY <2>2
  <2> QED BY <2>1, <2>4, <2>5, <2>6 DEF Passed
<1>8. mlist \in Seq(media) /\ OnceIn(mlist)
  BY DEF PostTypes, Playing
<1>9. CASE p = <<m, TRUE>>
  <2>1. mlist' = Append(mlist, m)
    BY <1>9 DEF P!Starts
  <2>2. /\ mlist' \in Seq(media)
        /\ DOMAIN mlist' = 1..Len(mlist) + 1 /\ DOMAIN mlist = 1..Len(mlist) /\ Len(mlist) \in Nat
        /\ mlist'[Len(mlist) + 1] = m /\ \A i \in DOMAIN mlist : mlist'[i] = mlist[i]
    BY <1>8, <2>1, Adds
  <2>3. \A i \in DOMAIN mlist' : i = Len(mlist) + 1 \/ i \in DOMAIN mlist
    BY <2>2
  <2>4. <<m, FALSE>> \in points /\ <<m, TRUE>> \in points
    BY <1>9 DEF Passed
  <2>5. \A i \in DOMAIN mlist : mlist[i] # m
    BY <2>4 DEF Playing
  <2>6. OnceIn(mlist')
    BY <1>8, <2>2, <2>3, <2>5 DEF OnceIn
  <2>7. \A x : (\E i \in DOMAIN mlist' : mlist'[i] = x) <=> x = m \/ \E i \in DOMAIN mlist : mlist[i] = x
    BY <2>2, <2>3
  <2>8. ASSUME NEW x \in media
        PROVE  (\E i \in DOMAIN mlist' : mlist'[i] = x) <=> <<x, TRUE>> \notin points' /\ <<x, FALSE>> \in points'
    <3>1. CASE x = m
      BY <1>9, <2>4, <2>7, <3>1
    <3>2. CASE x # m
      BY <1>9, <2>7, <3>2 DEF Playing
    <3> QED BY <3>1, <3>2
  <2>9. PostTypes'
    BY <1>4, <1>5, <2>2 DEF PostTypes
  <2> QED BY <1>7, <2>6, <2>8, <2>9 DEF Playing, OnceIn
<1>10. CASE p = <<m, FALSE>>
  <2>1. mlist' = P!RemoveFirst(mlist, m)
    BY <1>10 DEF P!Starts
  <2>2. <<m, FALSE>> \in points /\ <<m, TRUE>> \notin points
    <3>1. ASSUME <<m, TRUE>> \in points PROVE FALSE
      <4>1. P!Time(<<m, FALSE>>) <= P!Time(<<m, TRUE>>)
        BY <1>10, <3>1
      <4>2. file[m].end <= file[m].start
        BY <1>3, <4>1
      <4>3. file[m].start \in Int /\ file[m].end \in Int /\ file[m].start < file[m].end
        BY <1>4
      <4> QED BY <4>2, <4>3
    <3> QED BY <1>10, <3>1
  <2>3. PICK c \in DOMAIN mlist : mlist[c] = m
    BY <2>2 DEF Playing
  <2>4. /\ mlist' \in Seq(media) /\ OnceIn(mlist')
        /\ \A x : (\E i \in DOMAIN mlist' : mlist'[i] = x) <=> x # m /\ \E i \in DOMAIN mlist : mlist[i] = x
    <3>1. PICK s \in Seq(media) : s = mlist
      BY <1>8
    <3>2. PICK q : q = P!RemoveFirst(s, m)
      OBVIOUS
    <3>3. s \in Seq(media) /\ OnceIn(s) /\ c \in DOMAIN s /\ m = s[c]
      BY <1>8, <2>3, <3>1
    <3>4. q \in Seq(media) /\ OnceIn(q) /\ Less(q, s, m)
      BY ONLY <3>2, <3>3, TakenOut
    <3>5. mlist' = q
      BY <2>1, <3>1, <3>2
    <3>6. \A x : (\E i \in DOMAIN q : q[i] = x) <=> x # m /\ \E i \in DOMAIN s : s[i] = x
      BY ONLY <3>4 DEF Less
    <3>7. mlist' \in Seq(media) /\ OnceIn(mlist')
      BY ONLY <3>4, <3>5
    <3> QED BY ONLY <3>1, <3>5, <3>6, <3>7
  <2>5. ASSUME NEW x \in media
        PROVE  (\E i \in DOMAIN mlist' : mlist'[i] = x) <=> <<x, TRUE>> \notin points' /\ <<x, FALSE>> \in points'
    <3>1. CASE x = m
      BY <1>10, <2>4, <3>1
    <3>2. CASE x # m
      BY <1>10, <2>4, <3>2 DEF Playing
    <3> QED BY <3>1, <3>2
  <2>6. PostTypes'
    BY <1>4, <1>5, <2>4 DEF PostTypes
  <2> QED BY <1>7, <2>4, <2>5, <2>6 DEF Playing, OnceIn
<1> QED BY <1>2, <1>9, <1>10

\* A step that is cut is added, the others stay.
LEMMA CutPast ==
  ASSUME media \subseteq Media, PostTypes, Playing, Passed, Past, NEW p \in points,
         \A q \in points : P!Time(p) <= P!Time(q), ptime' = P!Time(p), UNCHANGED <<file, media>>,
         steps' = IF P!CutHere(p)
                  THEN Append(steps, [start |-> ptime, end |-> P!Time(p), list |-> mlist])
                  ELSE steps
  PROVE  Past'
<1>1. PICK T : T = P!Time(p)
  OBVIOUS
<1>2. T \in 0..MaxTime /\ ptime \in -1..MaxTime /\ ptime <= T /\ ptime' = T
  <2>1. p \in media \X BOOLEAN /\ p[1] \in media
    BY DEF Passed
  <2>2. P!Time(p) \in 0..MaxTime
    BY <2>1 DEF PostTypes, P!Time
  <2> QED BY <1>1, <2>2 DEF PostTypes, Passed
<1>3. PICK n \in Nat : n = Len(steps) /\ DOMAIN steps = 1..n
  BY DEF Past
<1>4. \A i \in DOMAIN steps : /\ steps[i] \in StepRec /\ steps[i].start \in Nat /\ steps[i].end \in Nat
                              /\ steps[i].end <= ptime
  <2>1. \A i \in DOMAIN steps : steps[i] \in StepRec
    BY DEF Past
  <2> QED BY <2>1 DEF Past, StepRec
<1>5. PICK st : st = [start |-> ptime, end |-> T, list |-> mlist]
  OBVIOUS
<1>6. st.start = ptime /\ st.end = T /\ st.list = mlist
  BY <1>5
<1>7. \/ ~P!CutHere(p) /\ steps' = steps
      \/ P!CutHere(p) /\ steps' = Append(steps, st) /\ steps' \in Seq(StepRec) /\ DOMAIN steps' = 1..n + 1
         /\ steps'[n + 1] = st /\ \A i \in DOMAIN steps : steps'[i] = steps[i]
  <2>1. CASE ~P!CutHere(p)
    BY <2>1
  <2>2. CASE P!CutHere(p)
    <3>1. steps' = Append(steps, st)
      BY <1>1, <1>5, <2>2
    <3>2. ptime \in Nat /\ T \in Nat
      BY <1>2, <2>2 DEF P!CutHere
    <3>3. mlist \in Seq(Media)
      BY DEF PostTypes
    <3>4. st \in StepRec
      BY <1>5, <3>2, <3>3 DEF StepRec
    <3>5. steps \in Seq(StepRec)
      BY DEF Past
    <3>6. /\ steps' \in Seq(StepRec) /\ DOMAIN steps' = 1..Len(steps) + 1
          /\ steps'[Len(steps) + 1] = st /\ \A i \in DOMAIN steps : steps'[i] = steps[i]
      BY <3>1, <3>4, <3>5, Adds
    <3> QED BY <1>3, <2>2, <3>1, <3>6
  <2> QED BY <2>1, <2>2
<1>8. \A i \in DOMAIN steps' : \/ i \in DOMAIN steps /\ steps'[i] = steps[i]
                               \/ i = n + 1 /\ i \notin DOMAIN steps /\ steps'[i] = st
  <2>1. \A i \in 1..n + 1 : i \in 1..n \/ (i = n + 1 /\ i \notin 1..n)
    OBVIOUS
  <2> QED BY <1>3, <1>7, <2>1
<1>9. \A i \in DOMAIN steps : i \in DOMAIN steps' /\ steps'[i] = steps[i]
  BY <1>3, <1>7
<1>10. steps' \in Seq(StepRec)
  BY <1>7 DEF Past
<1>11. \A i \in DOMAIN steps' : steps'[i].end <= ptime'
  BY <1>2, <1>4, <1>6, <1>8
<1>12. \A t : P!Lasting(t)' = P!Lasting(t)
  BY DEF P!Lasting
<1>13. \A t : P!Lasting(t) \subseteq media
  BY DEF P!Lasting
<1>14. \A t : P!During(t)' = {i \in DOMAIN steps' : steps'[i].start <= t /\ t < steps'[i].end}
  BY DEF P!During
<1>15. ASSUME NEW t \in 0..MaxTime, t < ptime PROVE RightAt(t)'
  <2>1. t \in Int /\ RightAt(t)
    BY <1>15 DEF Past
  <2>2. P!During(t)' = P!During(t)
    <3>1. ~(ptime <= t)
      BY <1>2, <1>15
    <3> QED BY <1>6, <1>8, <1>9, <1>14, <3>1 DEF P!During
  <2>3. \A i \in P!During(t) : steps'[i] = steps[i]
    BY <1>9 DEF P!During
  <2>4. CASE P!Lasting(t) = {}
    <3>1. P!Lasting(t)' = {} /\ P!During(t)' = {}
      BY <1>12, <2>1, <2>2, <2>4 DEF RightAt
    <3> QED BY <3>1 DEF RightAt
  <2>5. CASE P!Lasting(t) # {}
    <3>1. PICK i \in P!During(t) : P!During(t) = {i} /\ P!ToSet(steps[i].list) = P!Lasting(t)
                                   /\ OnceIn(steps[i].list)
      BY <2>1, <2>5 DEF RightAt
    <3>2. /\ P!During(t)' = {i} /\ P!ToSet(steps'[i].list) = P!Lasting(t)'
          /\ OnceIn(steps'[i].list) /\ P!Lasting(t)' # {}
      BY <1>12, <2>2, <2>3, <2>5, <3>1
    <3> QED BY <3>2 DEF RightAt, OnceIn, P!ToSet
  <2> QED BY <2>4, <2>5
<1>16. ASSUME NEW t \in 0..MaxTime, ptime <= t, t < T PROVE RightAt(t)'
  <2>1. t \in Int /\ \A m \in media : m \in P!Lasting(t) <=> \E i \in DOMAIN mlist : mlist[i] = m
    BY <1>1, <1>16, Between
  <2>2. mlist \in Seq(media) /\ OnceIn(mlist)
    BY DEF PostTypes, Playing
  <2>3. P!ToSet(mlist) = P!Lasting(t)
    <3>1. \A i \in DOMAIN mlist : mlist[i] \in media
      BY <2>2
    <3> QED BY <1>13, <2>1, <3>1 DEF P!ToSet
  <2>4. \A i \in DOMAIN steps : ~(t < steps[i].end)
    BY <1>2, <1>4, <1>16, <2>1
  <2>5. CASE P!CutHere(p)
    <3>1. n + 1 \in DOMAIN steps' /\ steps'[n + 1] = st /\ n + 1 \notin DOMAIN steps
      BY <1>3, <1>7, <2>5
    <3>2. P!During(t)' = {n + 1}
      BY <1>6, <1>8, <1>14, <1>16, <2>4, <3>1
    <3>3. mlist # <<>>
      BY <2>5 DEF P!CutHere
    <3>4. P!ToSet(mlist) # {}
      <4>1. 1 \in DOMAIN mlist
        BY <2>2, <3>3
      <4> QED BY <4>1 DEF P!ToSet
    <3>5. /\ P!ToSet(steps'[n + 1].list) = P!Lasting(t)' /\ OnceIn(steps'[n + 1].list)
          /\ P!Lasting(t)' # {}
      BY <1>6, <1>12, <2>2, <2>3, <3>1, <3>4
    <3> QED BY <3>2, <3>5 DEF RightAt, OnceIn, P!ToSet
  <2>6. CASE ~P!CutHere(p)
    <3>1. mlist = <<>>
      <4>1. CASE ptime = -1
        <5>1. \A m \in media : <<m, TRUE>> \in points
          <6>1. ASSUME NEW m \in media, <<m, TRUE>> \notin points PROVE FALSE
            <7>1. P!Time(<<m, TRUE>>) <= ptime
              BY <6>1 DEF Passed
            <7> QED BY <4>1, <6>1, <7>1 DEF P!Time, P!Starts, PostTypes
          <6> QED BY <6>1
        <5>2. \A i \in DOMAIN mlist : mlist[i] \notin media
          BY <5>1 DEF Playing
        <5>3. mlist # <<>> => 1 \in DOMAIN mlist /\ mlist[1] \in media
          BY <2>2
        <5> QED BY <5>2, <5>3
      <4>2. CASE ptime # -1
        <5>1. T # ptime
          BY <1>2, <1>16, <2>1
        <5> QED BY <1>1, <2>6, <4>2, <5>1 DEF P!CutHere
      <4> QED BY <4>1, <4>2
    <3>2. P!Lasting(t) = {}
      BY <2>3, <3>1 DEF P!ToSet
    <3>3. P!During(t)' = {}
      BY <1>7, <1>14, <2>4, <2>6
    <3>4. P!Lasting(t)' = {}
      BY <1>12, <3>2
    <3> QED BY <3>3, <3>4 DEF RightAt
  <2> QED BY <2>5, <2>6
<1>17. \A t \in 0..MaxTime : t < ptime' => RightAt(t)'
  <2>1. \A t \in 0..MaxTime : t < T => (ptime <= t \/ t < ptime)
    BY <1>2
  <2> QED BY <1>2, <1>15, <1>16, <2>1
<1> QED BY <1>10, <1>11, <1>17 DEF Past

LEMMA PostNext == ASSUME P!PostprocBounds, PostIInv, [P!Next]_(P!vars) PROVE PostIInv'
<1>1. CASE P!Collect
  BY <1>1, CollectStep
<1>2. CASE P!Fix
  BY <1>2, FixStep
<1>3. CASE P!Sort
  BY <1>3, SortStep
<1>4. CASE P!Cut
  <2>1. PICK p \in points :
          /\ \A q \in points : P!Time(p) <= P!Time(q)
          /\ steps' = IF P!CutHere(p)
                      THEN Append(steps, [start |-> ptime, end |-> P!Time(p), list |-> mlist])
                      ELSE steps
          /\ mlist' = IF P!Starts(p) THEN Append(mlist, p[1]) ELSE P!RemoveFirst(mlist, p[1])
          /\ ptime' = P!Time(p)
          /\ points' = points \ {p}
    BY <1>4 DEF P!Cut
  <2>2. pc = "cut" /\ (pc' = IF points' = {} THEN "done" ELSE "cut") /\ UNCHANGED <<file, media>>
    BY <1>4 DEF P!Cut
  <2>3. media \subseteq Media /\ PostTypes /\ Playing /\ Passed /\ Past
    BY <2>2 DEF PostIInv
  <2>4. PostTypes' /\ Playing' /\ Passed'
    BY <2>1, <2>2, <2>3, CutPoints
  <2>5. Past'
    BY <2>1, <2>2, <2>3, CutPast
  <2> QED BY <2>2, <2>3, <2>4, <2>5 DEF PostIInv
<1>5. CASE UNCHANGED P!vars
  <2>1. UNCHANGED <<file, media, points, mlist, ptime, steps, pc>>
    BY <1>5 DEF P!vars
  <2>2. PostTypes' = PostTypes
    BY <2>1 DEF PostTypes
  <2>3. Playing' = Playing
    BY <2>1 DEF Playing, OnceIn
  <2>4. Passed' = Passed
    BY <2>1 DEF Passed, P!Time, P!Starts
  <2>5. Past' = Past
    BY <2>1 DEF Past, RightAt, OnceIn, P!Lasting, P!During, P!ToSet
  <2> QED BY <2>1, <2>2, <2>3, <2>4, <2>5 DEF PostIInv
<1> QED BY <1>1, <1>2, <1>3, <1>4, <1>5 DEF P!Next

\* The steps into which a recording is cut show at every instant what was recorded
\* then, once: no medium is missing, shown twice, or shown after its end, however many
\* files there are and in whatever order those that start or end together are taken
\* (_postproc_run).
THEOREM StepsAlwaysTheRecording ==
  ASSUME P!PostprocBounds PROVE P!Spec => [](StepsAreTheRecording /\ P!StepsAreTheRecording)
<1>1. P!Init => PostIInv
  BY PostInit
<1>2. PostIInv /\ [P!Next]_(P!vars) => PostIInv'
  BY PostNext
<1>3. PostIInv => StepsAreTheRecording /\ P!StepsAreTheRecording
  <2>1. ASSUME PostIInv, pc = "done", NEW t \in 0..MaxTime
        PROVE  IF P!Lasting(t) = {} THEN P!During(t) = {}
               ELSE \E i \in P!During(t) :
                      /\ P!During(t) = {i} /\ P!ToSet(steps[i].list) = P!Lasting(t)
                      /\ Len(steps[i].list) = P!Cardinality(P!Lasting(t))
    <3>1. PostTypes /\ Passed /\ Past /\ points = {} /\ t \in Int /\ ptime \in Int
      <4>1. PostTypes /\ Passed /\ Past
        BY <2>1 DEF PostIInv
      <4>2. points = {}
        BY <2>1, <4>1 DEF Passed
      <4>3. ptime \in Int
        BY <4>1 DEF PostTypes
      <4> QED BY <4>1, <4>2, <4>3
    <3>2. CASE t < ptime
      <4>1. RightAt(t)
        BY <2>1, <3>1, <3>2 DEF Past
      <4>2. CASE P!Lasting(t) = {}
        BY <4>1, <4>2 DEF RightAt
      <4>3. CASE P!Lasting(t) # {}
        <5>1. PICK i \in P!During(t) : P!During(t) = {i} /\ P!ToSet(steps[i].list) = P!Lasting(t)
                                       /\ OnceIn(steps[i].list)
          BY <4>1, <4>3 DEF RightAt
        <5>2. steps[i] \in StepRec
          BY <3>1 DEF P!During, Past
        <5>3. steps[i].list \in Seq(Media)
          BY <5>2 DEF StepRec
        <5>4. Len(steps[i].list) = Cardinality(P!Lasting(t))
          BY <5>1, <5>3, LengthIs
        <5>5. Cardinality(P!Lasting(t)) = P!Cardinality(P!Lasting(t))
          BY DEF Cardinality, P!Cardinality
        <5> QED BY <4>3, <5>1, <5>4, <5>5
      <4> QED BY <4>2, <4>3
    <3>3. CASE ~(t < ptime)
      <4>1. \A m \in media : file[m].end <= ptime /\ file[m].end \in Int
        <5>1. ASSUME NEW m \in media PROVE file[m].end <= ptime /\ file[m].end \in Int
          <6>1. P!Time(<<m, FALSE>>) <= ptime
            BY <3>1 DEF Passed
          <6> QED BY <3>1, <6>1 DEF P!Time, P!Starts, PostTypes
        <5> QED BY <5>1
      <4>2. P!Lasting(t) = {}
        BY <3>1, <3>3, <4>1 DEF P!Lasting
      <4>3. \A i \in DOMAIN steps : steps[i].end <= ptime /\ steps[i].end \in Int
        <5>1. \A i \in DOMAIN steps : steps[i] \in StepRec
          BY <3>1 DEF Past
        <5> QED BY <3>1, <5>1 DEF Past, StepRec
      <4>4. P!During(t) = {}
        BY <3>1, <3>3, <4>3 DEF P!During
      <4> QED BY <4>2, <4>4
    <3> QED BY <3>2, <3>3
  <2> QED BY <2>1 DEF StepsAreTheRecording, P!StepsAreTheRecording
<1> QED BY <1>1, <1>2, <1>3, PTL DEF P!Spec

-----------------------------------------------------------------------------
(* Post-processing: who is seen where.                                     *)

\* The least of a set of naturals.
LEMMA LeastNat ==
  ASSUME NEW T \in SUBSET Nat, T # {}
  PROVE  \E n \in T : \A m \in T : n <= m
<1>1. PICK Low : Low = {0..m : m \in T}
  OBVIOUS
<1>2. Low \subseteq FiniteSubsetsOf(Nat) /\ Low # {}
  <2>1. ASSUME NEW m \in Nat PROVE 0..m \in FiniteSubsetsOf(Nat)
    <3>1. IsFiniteSet(0..m)
      BY FS_Interval
    <3>2. 0..m \in SUBSET Nat
      OBVIOUS
    <3> QED BY <3>1, <3>2 DEF FiniteSubsetsOf
  <2> QED BY <1>1, <2>1
<1>3. PICK x \in Low : \A y \in Low : ~ (<<y, x>> \in StrictSubsetOrdering(Nat))
  <2>1. IsWellFoundedOn(StrictSubsetOrdering(Nat), FiniteSubsetsOf(Nat))
    BY FS_StrictSubsetOrderingWellFounded
  <2> QED BY <1>2, <2>1, WFMin
<1>4. PICK n \in T : x = 0..n
  BY <1>1
<1>5. ASSUME NEW m \in T, ~(n <= m) PROVE FALSE
  <2>1. m \in Nat /\ n \in Nat /\ m < n
    BY <1>5
  <2>2. 0..m \subseteq 0..n /\ n \in 0..n /\ n \notin 0..m
    BY <2>1
  <2>3. 0..m \in SUBSET Nat /\ 0..n \in SUBSET Nat /\ 0..m # 0..n
    BY <2>1, <2>2
  <2>4. <<0..m, 0..n>> \in StrictSubsetOrdering(Nat)
    BY <2>2, <2>3 DEF StrictSubsetOrdering
  <2>5. 0..m \in Low
    BY <1>1
  <2> QED BY <1>3, <1>4, <2>4, <2>5
<1> QED BY <1>5

\* The side of the grid.
LEMMA RootIs ==
  ASSUME NEW n \in Nat
  PROVE  P!Root(n) \in Nat /\ P!Root(n) * P!Root(n) >= n
<1>1. PICK T : T = {r \in 0..n : r * r >= n}
  OBVIOUS
<1>2. n \in T /\ T \in SUBSET Nat
  <2>1. n * n >= n
    OBVIOUS
  <2> QED BY <1>1, <2>1
<1>3. PICK r \in T : \A m \in T : r <= m
  BY <1>2, LeastNat
<1>4. r \in 0..n /\ r * r >= n
  BY <1>1
<1>5. ASSUME NEW s \in 0..(r - 1) PROVE s * s < n
  <2>1. s \in 0..n /\ s \in Nat /\ ~(r <= s) /\ s * s \in Nat
    BY <1>4
  <2>2. s \notin T
    BY <1>3, <2>1
  <2> QED BY <1>1, <2>1, <2>2
<1>6. \E q \in 0..n : q * q >= n /\ \A s \in 0..(q - 1) : s * s < n
  BY <1>4, <1>5
<1>7. P!Root(n) \in 0..n /\ P!Root(n) * P!Root(n) >= n
  BY <1>6 DEF P!Root
<1> QED BY <1>7

LEMMA Divided ==
  ASSUME NEW r \in Nat, r # 0, NEW i \in Nat
  PROVE  /\ i \div r \in Nat /\ i % r \in 0..(r - 1)
         /\ i = r * (i \div r) + (i % r)
OBVIOUS

LEMMA InGrid ==
  ASSUME NEW r \in Nat, NEW i \in Nat, i < r * r
  PROVE  r # 0 /\ i \div r < r
<1>1. r # 0
  OBVIOUS
<1>2. PICK q \in Nat : q = i \div r
  BY <1>1, Divided
<1>3. PICK m \in Nat : i = r * q + m
  <2>1. i % r \in Nat /\ i = r * (i \div r) + (i % r)
    BY <1>1
  <2> QED BY ONLY <1>2, <2>1
<1>4. ASSUME q >= r PROVE FALSE
  <2>1. PICK d \in Nat : q = r + d
    BY <1>4, q - r \in Nat
  <2>2. r * q = r * r + r * d
    BY <2>1
  <2>3. r * q \in Nat /\ r * r \in Nat /\ r * d \in Nat
    OBVIOUS
  <2> QED BY <1>3, <2>2, <2>3
<1> QED BY <1>1, <1>2, <1>4

\* Each index has a cell of its own, inside the picture.
LEMMA CellsApart ==
  ASSUME NEW n \in Nat
  PROVE  /\ \A i, j \in 0..(n - 1) : P!Cell(n, i) = P!Cell(n, j) => i = j
         /\ \A i \in 0..(n - 1) : P!Cell(n, i)[1] < P!Columns(n) /\ P!Cell(n, i)[2] < P!Rows(n)
<1>1. PICK c : c = P!Columns(n)
  OBVIOUS
<1>2. PICK r : r = P!Rows(n)
  OBVIOUS
<1>3. \A i : P!Cell(n, i)[1] = i % c /\ P!Cell(n, i)[2] = i \div c
  BY <1>1 DEF P!Cell
<1>4. ASSUME NEW i \in 0..(n - 1) PROVE c \in Nat /\ c # 0 /\ i \div c < r
  <2>1. CASE n < 4
    <3>1. c = n /\ r = 1
      BY <1>1, <1>2, <2>1 DEF P!Columns, P!Rows
    <3>2. i \in Nat /\ n \in Nat /\ n # 0 /\ i < n
      OBVIOUS
    <3>3. i \div n = 0
      <4>1. i = 0 \/ i = 1 \/ i = 2
        BY <2>1, <3>2
      <4>2. n = 1 \/ n = 2 \/ n = 3
        BY <2>1, <3>2
      <4> QED BY <3>2, <4>1, <4>2
    <3> QED BY <3>1, <3>2, <3>3
  <2>2. CASE ~(n < 4)
    <3>1. c = P!Root(n) /\ r = P!Root(n)
      BY <1>1, <1>2, <2>2 DEF P!Columns, P!Rows
    <3>2. c \in Nat /\ c * c >= n /\ r = c /\ c * c \in Nat
      BY <3>1, RootIs
    <3>3. i \in Nat /\ i < c * c
      BY <3>2
    <3>4. c # 0 /\ i \div c < c
      BY ONLY <3>2, <3>3, InGrid
    <3> QED BY <3>2, <3>4
  <2> QED BY <2>1, <2>2
<1>5. ASSUME NEW i \in 0..(n - 1) PROVE P!Cell(n, i)[1] < c /\ P!Cell(n, i)[2] < r
  <2>1. i % c \in 0..(c - 1) /\ c \in Nat
    BY <1>4, Divided
  <2>2. i % c < c
    BY <2>1
  <2> QED BY <1>3, <1>4, <2>2
<1>6. ASSUME NEW i \in 0..(n - 1), NEW j \in 0..(n - 1), P!Cell(n, i) = P!Cell(n, j) PROVE i = j
  <2>1. i % c = j % c /\ i \div c = j \div c
    BY <1>3, <1>6
  <2>2. i = c * (i \div c) + (i % c) /\ j = c * (j \div c) + (j % c)
    <3>1. c \in Nat /\ c # 0 /\ i \in Nat /\ j \in Nat
      BY <1>4
    <3> QED BY ONLY <3>1, Divided
  <2> QED BY ONLY <2>1, <2>2
<1> QED BY <1>1, <1>2, <1>5, <1>6

\* Those that are shown have indices from zero on, each its own.
LEMMA PlacesApart ==
  ASSUME NEW M, NEW list \in Seq(M)
  PROVE  /\ P!Cardinality(P!Shown(list)) \in Nat
         /\ \A i \in P!Shown(list) : P!Place(list, i) \in 0..(P!Cardinality(P!Shown(list)) - 1)
         /\ \A i, j \in P!Shown(list) : P!Place(list, i) = P!Place(list, j) => i = j
<1>1. PICK shown : shown = P!Shown(list)
  OBVIOUS
<1>2. shown \subseteq 1..Len(list) /\ Len(list) \in Nat
  BY <1>1 DEF P!Shown
<1>3. IsFiniteSet(shown)
  <2>1. IsFiniteSet(1..Len(list)) /\ shown \in SUBSET (1..Len(list))
    BY <1>2, FS_Interval
  <2> QED BY <2>1, FS_Subset
<1>4. \A X : P!Cardinality(X) = Cardinality(X)
  BY DEF P!Cardinality, Cardinality
<1> DEFINE Under(i) == {k \in shown : k < i}
<1>5. \A i \in shown : P!Place(list, i) = Cardinality(Under(i))
  BY <1>1, <1>4 DEF P!Place
<1>6. \A i \in shown : IsFiniteSet(Under(i)) /\ Cardinality(Under(i)) \in Nat
  <2>1. \A i \in shown : Under(i) \in SUBSET shown
    OBVIOUS
  <2> HIDE DEF Under
  <2> QED BY <1>3, <2>1, FS_Subset, FS_CardinalityType
<1>7. Cardinality(shown) \in Nat
  BY <1>3, FS_CardinalityType
<1>8. ASSUME NEW i \in shown PROVE Cardinality(Under(i)) < Cardinality(shown)
  <2>1. PICK b : b = Under(i)
    OBVIOUS
  <2>2. b \in SUBSET shown /\ b # shown
    BY <1>2, <2>1
  <2>3. Cardinality(b) <= Cardinality(shown) /\ (Cardinality(shown) = Cardinality(b) => shown = b)
    BY ONLY <1>3, <2>2, FS_Subset
  <2>4. Cardinality(b) \in Nat
    BY <1>6, <2>1
  <2> QED BY ONLY <1>7, <2>1, <2>2, <2>3, <2>4
<1>9. ASSUME NEW i \in shown, NEW j \in shown, i < j PROVE Cardinality(Under(i)) # Cardinality(Under(j))
  <2>1. Under(i) \in SUBSET Under(j) /\ i \in Under(j) /\ i \notin Under(i)
    <3>1. \A k \in shown : k \in Int
      BY <1>2
    <3>2. \A k \in shown : k < i => k < j
      BY <1>9, <3>1
    <3>3. ~(i < i)
      BY <3>1
    <3> QED BY <1>9, <3>2, <3>3
  <2>2. IsFiniteSet(Under(j)) /\ Under(i) # Under(j)
    BY <1>6, <2>1
  <2> HIDE DEF Under
  <2> QED BY <2>1, <2>2, FS_Subset
<1>10. \A i, j \in shown : i < j \/ i = j \/ j < i
  BY <1>2
<1> HIDE DEF Under
<1>11. \A i \in shown : P!Place(list, i) \in 0..(Cardinality(shown) - 1)
  BY <1>5, <1>6, <1>7, <1>8
<1>12. \A i, j \in shown : P!Place(list, i) = P!Place(list, j) => i = j
  BY <1>5, <1>9, <1>10
<1> QED BY <1>1, <1>4, <1>7, <1>11, <1>12

LEMMA AllSeen ==
  ASSUME NEW list \in Seq(Media), NEW n, n = P!Cardinality(P!Shown(list))
  PROVE  /\ \A i, j \in P!Shown(list) :
              P!Cell(n, P!Place(list, i)) = P!Cell(n, P!Place(list, j)) => i = j
         /\ \A i \in P!Shown(list) : /\ P!Cell(n, P!Place(list, i))[1] < P!Columns(n)
                                     /\ P!Cell(n, P!Place(list, i))[2] < P!Rows(n)
         /\ {file[m].user : m \in P!ToSet(list)} = {file[m].user : m \in P!Active(list)}
         /\ P!Heard(list) \union P!Active(list) = P!ToSet(list)
<1>1. /\ n \in Nat /\ \A i \in P!Shown(list) : P!Place(list, i) \in 0..(n - 1)
      /\ \A i, j \in P!Shown(list) : P!Place(list, i) = P!Place(list, j) => i = j
  BY PlacesApart
<1>2. /\ \A i, j \in 0..(n - 1) : P!Cell(n, i) = P!Cell(n, j) => i = j
      /\ \A i \in 0..(n - 1) : P!Cell(n, i)[1] < P!Columns(n) /\ P!Cell(n, i)[2] < P!Rows(n)
  BY ONLY <1>1, CellsApart
<1>3. ASSUME NEW m \in P!ToSet(list) PROVE \E x \in P!Active(list) : file[x].user = file[m].user
  BY DEF P!Active
<1>4. P!Active(list) \subseteq P!ToSet(list)
  BY DEF P!Active
<1>5. P!Heard(list) \union P!Active(list) = P!ToSet(list)
  BY DEF P!Heard, P!Active
<1>6. \A i, j \in P!Shown(list) : P!Cell(n, P!Place(list, i)) = P!Cell(n, P!Place(list, j)) => i = j
  BY ONLY <1>1, <1>2
<1>7. \A i \in P!Shown(list) : /\ P!Cell(n, P!Place(list, i))[1] < P!Columns(n)
                               /\ P!Cell(n, P!Place(list, i))[2] < P!Rows(n)
  BY ONLY <1>1, <1>2
<1>8. {file[m].user : m \in P!ToSet(list)} = {file[m].user : m \in P!Active(list)}
  BY <1>3, <1>4
<1> QED BY ONLY <1>5, <1>6, <1>7, <1>8

\* The list of a step is of media.
ListsAreMedia ==
  \A i \in DOMAIN steps : steps[i].list \in Seq(Media)

LEMMA PostLists == ASSUME PostIInv PROVE ListsAreMedia
<1>1. CASE pc \in {"cut", "done"}
  <2>1. steps \in Seq(StepRec)
    BY <1>1 DEF PostIInv, Past
  <2>2. \A i \in DOMAIN steps : steps[i] \in StepRec
    BY <2>1
  <2> QED BY <2>2 DEF StepRec, ListsAreMedia
<1>2. CASE pc \notin {"cut", "done"}
  <2>1. steps = <<>>
    BY <1>2 DEF PostIInv, PostTypes
  <2> QED BY <2>1 DEF ListsAreMedia
<1> QED BY <1>1, <1>2

LEMMA ListsAllSeen == ASSUME ListsAreMedia PROVE P!EverybodySeen
<1>1. ASSUME NEW s \in DOMAIN steps, NEW list, list = steps[s].list,
             NEW n, n = P!Cardinality(P!Shown(list))
      PROVE  /\ \A i, j \in P!Shown(list) :
                  P!Cell(n, P!Place(list, i)) = P!Cell(n, P!Place(list, j)) => i = j
             /\ \A i \in P!Shown(list) : /\ P!Cell(n, P!Place(list, i))[1] < P!Columns(n)
                                         /\ P!Cell(n, P!Place(list, i))[2] < P!Rows(n)
             /\ {file[m].user : m \in P!ToSet(list)} = {file[m].user : m \in P!Active(list)}
             /\ P!Heard(list) \union P!Active(list) = P!ToSet(list)
  <2>1. list \in Seq(Media)
    BY <1>1 DEF ListsAreMedia
  <2> QED BY <1>1, <2>1, AllSeen
<1> QED BY <1>1 DEF P!EverybodySeen

\* However many play at once, everybody in a step of the recording is seen in
\* it, in a cell of their own inside the picture, and who speaks is heard
\* (_postproc_generate_step, _m_apply_layout).
THEOREM EverybodyAlwaysSeen ==
  ASSUME P!PostprocBounds
  PROVE  P!Spec => [](EverybodySeen /\ P!EverybodySeen)
<1>1. P!Init => PostIInv
  BY PostInit
<1>2. PostIInv /\ [P!Next]_(P!vars) => PostIInv'
  BY PostNext
<1>3. PostIInv => EverybodySeen /\ P!EverybodySeen
  BY PostLists, ListsAllSeen DEF EverybodySeen
<1> QED BY <1>1, <1>2, <1>3, PTL DEF P!Spec
-----------------------------------------------------------------------------
(* The H.264 profiles.                                                     *)

LEMMA PatternIs ==
  /\ DOMAIN H!Pattern = 1..8
  /\ H!Pattern[1] = [profile |-> "cb",   idc |-> 66,  mask |-> {6, 3, 2, 1, 0},    bits |-> {6}]
  /\ H!Pattern[2] = [profile |-> "cb",   idc |-> 77,  mask |-> {7, 3, 2, 1, 0},    bits |-> {7}]
  /\ H!Pattern[3] = [profile |-> "cb",   idc |-> 88,  mask |-> {7, 6, 3, 2, 1, 0}, bits |-> {7, 6}]
  /\ H!Pattern[4] = [profile |-> "b",    idc |-> 66,  mask |-> {6, 3, 2, 1, 0},    bits |-> {}]
  /\ H!Pattern[5] = [profile |-> "b",    idc |-> 88,  mask |-> {7, 6, 3, 2, 1, 0}, bits |-> {7}]
  /\ H!Pattern[6] = [profile |-> "main", idc |-> 77,  mask |-> {7, 5, 3, 2, 1, 0}, bits |-> {}]
  /\ H!Pattern[7] = [profile |-> "high", idc |-> 100, mask |-> 0..7,               bits |-> {}]
  /\ H!Pattern[8] = [profile |-> "ch",   idc |-> 100, mask |-> 0..7,               bits |-> {3, 2}]
BY DEF H!Pattern, H!Baseline, H!Main, H!Extended, H!High

\* The patterns that an id fits.
FitsId(id) == {i \in DOMAIN H!Pattern : H!Pattern[i].idc = id.idc
                                        /\ id.iop \cap H!Pattern[i].mask = H!Pattern[i].bits}

\* The first pattern that fits is the one found.
LEMMA FirstIs ==
  ASSUME NEW id, NEW k \in FitsId(id), \A j \in FitsId(id) : k <= j, id.level \in H!Named
  PROVE  H!Parse(id) = {[profile |-> H!Pattern[k].profile, level |-> H!Level(id)]}
<1>1. PICK fit : fit = FitsId(id)
  OBVIOUS
<1>2. fit \subseteq 1..8
  BY <1>1, PatternIs DEF FitsId
<1>3. (CHOOSE i \in fit : \A j \in fit : i <= j) = k
  BY <1>1, <1>2
<1>4. fit # {} /\ ~(id.level \notin H!Named \/ fit = {})
  BY <1>1
<1>5. H!Parse(id) =
        IF id.level \notin H!Named \/ fit = {} THEN {}
        ELSE LET i == CHOOSE i \in fit : \A j \in fit : i <= j
             IN  {[profile |-> H!Pattern[i].profile, level |-> H!Level(id)]}
  BY <1>1 DEF H!Parse, FitsId
<1> QED BY <1>3, <1>4, <1>5

LEMMA FirstFits ==
  ASSUME NEW fit \in SUBSET (1..8), fit # {}
  PROVE  \E k \in fit : \A j \in fit : k <= j
<1>1. \A k \in 1..8 : k \in {1, 2, 3, 4, 5, 6, 7, 8}
  OBVIOUS
<1>2. \A k \in fit : k \in {1, 2, 3, 4, 5, 6, 7, 8}
  BY <1>1
<1>3. CASE 1 \in fit
  BY <1>2, <1>3
<1>4. CASE 1 \notin fit /\ 2 \in fit
  BY <1>2, <1>4
<1>5. CASE {1, 2} \cap fit = {} /\ 3 \in fit
  BY <1>2, <1>5
<1>6. CASE {1, 2, 3} \cap fit = {} /\ 4 \in fit
  BY <1>2, <1>6
<1>7. CASE {1, 2, 3, 4} \cap fit = {} /\ 5 \in fit
  BY <1>2, <1>7
<1>8. CASE {1, 2, 3, 4, 5} \cap fit = {} /\ 6 \in fit
  BY <1>2, <1>8
<1>9. CASE {1, 2, 3, 4, 5, 6} \cap fit = {} /\ 7 \in fit
  BY <1>2, <1>9
<1>10. CASE {1, 2, 3, 4, 5, 6, 7} \cap fit = {}
  <2>1. \A j \in fit : j = 8
    <3>1. ASSUME NEW j \in fit, j # 8 PROVE FALSE
      <4>1. j \in {1, 2, 3, 4, 5, 6, 7}
        BY <1>2, <3>1
      <4> QED BY <1>10, <3>1, <4>1
    <3> QED BY <3>1
  <2>2. PICK k \in fit : TRUE
    OBVIOUS
  <2>3. k = 8 /\ \A j \in fit : k <= j
    BY <2>1
  <2> QED BY <2>3
<1> QED BY <1>3, <1>4, <1>5, <1>6, <1>7, <1>8, <1>9, <1>10

\* What is found is one of the profiles that there are, at a level that there is.
LEMMA ParseIs ==
  ASSUME NEW id
  PROVE  /\ H!Parse(id) \subseteq H!Plid
         /\ \A x, y \in H!Parse(id) : x = y
<1>1. CASE id.level \notin H!Named \/ FitsId(id) = {}
  <2>1. H!Parse(id) = {}
    BY <1>1 DEF H!Parse, FitsId
  <2> QED BY <2>1
<1>2. CASE id.level \in H!Named /\ FitsId(id) # {}
  <2>1. FitsId(id) \subseteq 1..8
    BY PatternIs DEF FitsId
  <2>2. PICK k \in FitsId(id) : \A j \in FitsId(id) : k <= j
    BY <1>2, <2>1, FirstFits
  <2>3. H!Parse(id) = {[profile |-> H!Pattern[k].profile, level |-> H!Level(id)]}
    BY <1>2, <2>2, FirstIs
  <2>4. H!Pattern[k].profile \in {"cb", "b", "main", "ch", "high"}
    <3>1. \A n \in 1..8 : n \in {1, 2, 3, 4, 5, 6, 7, 8}
      OBVIOUS
    <3>2. k \in {1, 2, 3, 4, 5, 6, 7, 8}
      BY <2>1, <3>1
    <3> QED BY <3>2, PatternIs
  <2>5. H!Level(id) \in {H!L1b} \cup H!Named
    BY <1>2 DEF H!Level
  <2>6. [profile |-> H!Pattern[k].profile, level |-> H!Level(id)] \in H!Plid
    BY <2>4, <2>5 DEF H!Plid
  <2> QED BY <2>3, <2>6
<1> QED BY <1>1, <1>2

\* What is written is read back as it was.
LEMMA WrittenIsRead ==
  ASSUME NEW a \in H!Plid, NEW w \in H!Write(a)
  PROVE  H!Parse(w) = {a}
<1>1. PICK p : p = a.profile
  OBVIOUS
<1>2. PICK l : l = a.level
  OBVIOUS
<1>3. /\ p \in {"cb", "b", "main", "ch", "high"} /\ l \in {0} \cup H!Named
      /\ a = [profile |-> p, level |-> l]
  BY <1>1, <1>2 DEF H!Plid, H!L1b
<1>4. \/ /\ l # 0 /\ w.level = l /\ w.idc = H!Written[p].idc /\ w.iop = H!Written[p].iop
      \/ /\ l = 0 /\ H!Written[p].idc # 100 /\ w.level = 11 /\ w.idc = H!Written[p].idc
         /\ w.iop = IF p = "cb" THEN {7, 6, 5, 4} ELSE {4}
  BY <1>1, <1>2 DEF H!Write, H!L1b, H!L11, H!High
<1>5. /\ H!Written["cb"].idc = 66 /\ H!Written["cb"].iop = {7, 6, 5}
      /\ H!Written["b"].idc = 66 /\ H!Written["b"].iop = {}
      /\ H!Written["main"].idc = 77 /\ H!Written["main"].iop = {}
      /\ H!Written["ch"].idc = 100 /\ H!Written["ch"].iop = {3, 2}
      /\ H!Written["high"].idc = 100 /\ H!Written["high"].iop = {}
  BY DEF H!Written, H!Baseline, H!Main, H!High
<1>6. 0 \notin H!Named /\ 11 \in H!Named
  BY DEF H!Named
<1>7. w.level \in H!Named /\ H!Level(w) = l
  <2>1. CASE l # 0
    <3>1. 4 \notin w.iop
      BY <1>3, <1>4, <1>5, <2>1
    <3> QED BY <1>3, <1>4, <2>1, <3>1 DEF H!Level
  <2>2. CASE l = 0
    <3>1. 4 \in w.iop
      BY <1>4, <2>2
    <3> QED BY <1>4, <1>6, <2>2, <3>1 DEF H!Level, H!L11, H!L1b
  <2> QED BY <2>1, <2>2
<1>8. \A k : k \in FitsId(w) <=> k \in 1..8 /\ H!Pattern[k].idc = w.idc
                                /\ w.iop \cap H!Pattern[k].mask = H!Pattern[k].bits
  BY PatternIs DEF FitsId
<1>9. \A k \in 1..8 : k \in {1, 2, 3, 4, 5, 6, 7, 8}
  OBVIOUS
<1>10. ASSUME NEW k \in 1..8, k \in FitsId(w), \A j \in FitsId(w) : k <= j, H!Pattern[k].profile = p
       PROVE  H!Parse(w) = {a}
  BY <1>3, <1>7, <1>10, FirstIs
<1>11. CASE p = "cb"
  <2>1. w.idc = 66 /\ (w.iop = {7, 6, 5} \/ w.iop = {7, 6, 5, 4})
    BY <1>4, <1>5, <1>11
  <2>2. w.iop \cap {6, 3, 2, 1, 0} = {6}
    BY <2>1
  <2>3. 1 \in FitsId(w)
    BY <1>8, <2>1, <2>2, PatternIs
  <2>4. \A j \in FitsId(w) : 1 <= j
    BY <1>8
  <2> QED BY <1>10, <1>11, <2>3, <2>4, PatternIs
<1>12. CASE p = "b"
  <2>1. w.idc = 66 /\ (w.iop = {} \/ w.iop = {4})
    BY <1>4, <1>5, <1>12
  <2>2. w.iop \cap {6, 3, 2, 1, 0} = {}
    BY <2>1
  <2>3. 4 \in FitsId(w)
    BY <1>8, <2>1, <2>2, PatternIs
  <2>4. 1 \notin FitsId(w) /\ 2 \notin FitsId(w) /\ 3 \notin FitsId(w)
    BY <1>8, <2>1, <2>2, PatternIs
  <2>5. \A j \in FitsId(w) : 4 <= j
    BY <1>8, <1>9, <2>4
  <2> QED BY <1>10, <1>12, <2>3, <2>5, PatternIs
<1>13. CASE p = "main"
  <2>1. w.idc = 77 /\ (w.iop = {} \/ w.iop = {4})
    BY <1>4, <1>5, <1>13
  <2>2. w.iop \cap {7, 5, 3, 2, 1, 0} = {} /\ 7 \notin w.iop
    BY <2>1
  <2>3. 6 \in FitsId(w)
    BY <1>8, <2>1, <2>2, PatternIs
  <2>4. {1, 2, 3, 4, 5} \cap FitsId(w) = {}
    <3>1. 2 \notin FitsId(w)
      BY <1>8, <2>2, PatternIs
    <3> QED BY <1>8, <2>1, <3>1, PatternIs
  <2>5. \A j \in FitsId(w) : 6 <= j
    BY <1>8, <1>9, <2>4
  <2> QED BY <1>10, <1>13, <2>3, <2>5, PatternIs
<1>14. CASE p \in {"ch", "high"}
  <2>1. w.idc = 100 /\ ((p = "high" /\ w.iop = {}) \/ (p = "ch" /\ w.iop = {3, 2}))
    BY <1>4, <1>5, <1>14
  <2>2. w.iop \cap (0..7) = w.iop
    BY <2>1
  <2>3. {1, 2, 3, 4, 5, 6} \cap FitsId(w) = {}
    BY <1>8, <2>1, PatternIs
  <2>4. \A j \in FitsId(w) : 7 <= j
    BY <1>8, <1>9, <2>3
  <2>5. CASE p = "high"
    <3>1. 7 \in FitsId(w)
      BY <1>8, <2>1, <2>2, <2>5, PatternIs
    <3> QED BY <1>10, <2>4, <2>5, <3>1, PatternIs
  <2>6. CASE p = "ch"
    <3>1. 8 \in FitsId(w) /\ 7 \notin FitsId(w)
      BY <1>8, <2>1, <2>2, <2>6, PatternIs
    <3>2. \A j \in FitsId(w) : 8 <= j
      BY <1>8, <1>9, <2>3, <3>1
    <3> QED BY <1>10, <2>6, <3>1, <3>2, PatternIs
  <2> QED BY <1>14, <2>5, <2>6
<1> QED BY <1>3, <1>11, <1>12, <1>13, <1>14

\* An answer is what was written for an id that is agreed.
Agreed ==
  /\ asymmetry \in BOOLEAN
  /\ equal = TRUE /\ answer \notin {None, Odd} =>
       \E a \in H!Answer(local, remote, asymmetry) : a # None /\ answer \in H!Write(a)

LEMMA MatchStep == Agreed /\ [H!Next]_(H!vars) => Agreed'
<1>1. ASSUME Agreed, H!Match PROVE Agreed'
  <2>1. asymmetry' \in BOOLEAN /\ UNCHANGED <<local, remote, asymmetry>>
    BY <1>1 DEF Agreed, H!Match
  <2>2. ASSUME equal' = TRUE, answer' \notin {None, Odd}
        PROVE  \E a \in H!Answer(local, remote, asymmetry) : a # None /\ answer' \in H!Write(a)
    <3>1. \E a \in H!Answer(local, remote, asymmetry) :
            answer' \in IF a = None THEN {None} ELSE IF H!Write(a) = {} THEN {Odd} ELSE H!Write(a)
      BY <1>1, <2>2 DEF H!Match
    <3> QED BY <2>2, <3>1
  <2> QED BY <2>1, <2>2 DEF Agreed
<1>2. ASSUME Agreed, UNCHANGED H!vars PROVE Agreed'
  BY <1>2 DEF Agreed, H!vars, H!Answer, H!Meaning
<1> QED BY <1>1, <1>2 DEF H!Next

\* The levels but 1b are compared as numbers.
LEMMA LeastIs ==
  ASSUME NEW a \in H!Named, NEW b \in H!Named
  PROVE  H!Least(a, b) = IF H!Height(a) <= H!Height(b) THEN a ELSE b
<1>1. a \in Nat /\ b \in Nat /\ a # 0 /\ b # 0
  BY DEF H!Named
<1>2. H!Least(a, b) = IF a < b THEN a ELSE b
  BY <1>1 DEF H!Least, H!Lesser, H!L1b
<1>3. H!Height(a) = 2 * a /\ H!Height(b) = 2 * b
  BY <1>1 DEF H!Height, H!L1b
<1> QED BY <1>1, <1>2, <1>3

LEMMA AgreedIsUnderstood ==
  ASSUME Agreed, equal = TRUE, answer \notin {None, Odd}
  PROVE  /\ H!Parse(answer) # {}
         /\ \A x \in H!Meaning(local), y \in H!Meaning(remote), z \in H!Parse(answer) :
              /\ z.profile = x.profile /\ z.profile = y.profile
              /\ H!L1b \notin {x.level, y.level} =>
                   z.level = IF asymmetry \/ H!Height(x.level) <= H!Height(y.level) THEN x.level
                             ELSE y.level
<1>1. PICK a \in H!Answer(local, remote, asymmetry) : a # None /\ answer \in H!Write(a)
  BY DEF Agreed
<1>2. PICK x \in H!Meaning(local), y \in H!Meaning(remote) :
        /\ x.profile = y.profile
        /\ a = [profile |-> x.profile,
                level |-> IF asymmetry THEN x.level ELSE H!Least(x.level, y.level)]
  BY <1>1 DEF H!Answer
<1>3. \A p : H!Meaning(p) \subseteq H!Plid /\ \A v, w \in H!Meaning(p) : v = w
  <2>1. H!Default \in H!Plid
    BY DEF H!Default, H!Plid, H!Named
  <2> QED BY <2>1, ParseIs DEF H!Meaning
<1>4. /\ x \in H!Plid /\ y \in H!Plid
      /\ x.profile \in {"cb", "b", "main", "ch", "high"}
      /\ x.level \in {0} \cup H!Named /\ y.level \in {0} \cup H!Named
  BY <1>3 DEF H!Plid, H!L1b
<1>5. H!Least(x.level, y.level) \in {0} \cup H!Named
  BY <1>4 DEF H!Least
<1>6. PICK l : l = IF asymmetry THEN x.level ELSE H!Least(x.level, y.level)
  OBVIOUS
<1>7. l \in {0} \cup H!Named /\ a = [profile |-> x.profile, level |-> l]
  BY <1>2, <1>4, <1>5, <1>6
<1>8. a \in H!Plid /\ a.profile = x.profile /\ a.level = l
  BY <1>4, <1>7 DEF H!Plid, H!L1b
<1>9. H!Parse(answer) = {a}
  BY <1>1, <1>8, WrittenIsRead
<1>10. ASSUME x.level # 0, y.level # 0
       PROVE  l = IF asymmetry \/ H!Height(x.level) <= H!Height(y.level) THEN x.level ELSE y.level
  <2>1. x.level \in H!Named /\ y.level \in H!Named
    BY <1>4, <1>10
  <2>2. H!Least(x.level, y.level)
          = IF H!Height(x.level) <= H!Height(y.level) THEN x.level ELSE y.level
    BY <2>1, LeastIs
  <2>3. CASE asymmetry
    BY <1>6, <2>3
  <2>4. CASE ~asymmetry
    BY <1>6, <2>2, <2>4
  <2> QED BY <2>3, <2>4
<1>11. ASSUME NEW v \in H!Meaning(local), NEW w \in H!Meaning(remote), NEW z \in H!Parse(answer)
       PROVE  /\ z.profile = v.profile /\ z.profile = w.profile
              /\ H!L1b \notin {v.level, w.level} =>
                   z.level = IF asymmetry \/ H!Height(v.level) <= H!Height(w.level) THEN v.level
                             ELSE w.level
  <2>1. v = x /\ w = y /\ z = a
    BY <1>3, <1>9, <1>11
  <2>2. z.profile = v.profile /\ z.profile = w.profile
    BY <1>2, <1>8, <2>1
  <2>3. ASSUME H!L1b \notin {v.level, w.level}
        PROVE  z.level = IF asymmetry \/ H!Height(v.level) <= H!Height(w.level) THEN v.level
                         ELSE w.level
    <3>1. x.level # 0 /\ y.level # 0
      BY <2>1, <2>3 DEF H!L1b
    <3> QED BY <1>8, <1>10, <2>1, <3>1
  <2> QED BY <2>2, <2>3
<1> QED BY <1>9, <1>11

\* The id that answers an offer is read by the other side as the profile that both
\* have, at the level that was agreed, whatever constraint bits and levels come in
\* (h256_plid_to_answer, h256_plid_write, h264_plid_parse).
THEOREM AnswersUnderstood == H!Spec => [](AnswerUnderstood /\ H!AnswerUnderstood)
<1>1. H!Init => Agreed
  BY DEF H!Init, Agreed
<1>2. Agreed => AnswerUnderstood /\ H!AnswerUnderstood
  BY AgreedIsUnderstood DEF AnswerUnderstood, H!AnswerUnderstood
<1> QED BY <1>1, <1>2, MatchStep, PTL DEF H!Spec

-----------------------------------------------------------------------------
(* Negotiation: the codecs of a router.                                    *)

Base == [ok |-> TRUE, pool |-> Pool, codecs |-> <<>>]
Highest(s) == N!Max(s)

\* The fold over config, as a function on sets of its positions.
Folds(it, D) ==
  it = [s \in SUBSET D |->
          IF s = {} THEN Base ELSE N!Merge(it[s \ {Highest(s)}], config[Highest(s)])]

LEMMA FoldIs ==
  N!Capabilities = (CHOOSE it : Folds(it, DOMAIN config))[DOMAIN config]
BY DEF N!Capabilities, N!FoldLeft, N!MapThenFoldSet, Folds, Base, Highest

LEMMA HighestIs == ASSUME NEW k \in Nat, NEW s \in SUBSET (1..k), k \in s PROVE Highest(s) = k
<1>1. s \subseteq Int /\ \A y \in s : k >= y
  OBVIOUS
<1>2. \A x \in s : (\A y \in s : x >= y) => x = k
  BY <1>1
<1> QED BY <1>1, <1>2 DEF Highest, N!Max

LEMMA FoldsOnce == ASSUME NEW k \in Nat PROVE \E it : Folds(it, 1..k)
<1>1. PICK Bad : Bad = {m \in Nat : ~\E it : Folds(it, 1..m)}
  OBVIOUS
<1>2. SUFFICES ASSUME Bad # {} PROVE FALSE
  BY <1>1
<1>3. PICK m \in Bad : \A x \in Bad : m <= x
  <2>1. Bad \in SUBSET Nat
    BY <1>1
  <2> QED BY <1>2, <2>1, LeastNat
<1>4. m \in Nat /\ ~\E it : Folds(it, 1..m)
  BY <1>1
<1>5. CASE m = 0
  <2>1. PICK it : it = [s \in SUBSET (1..m) |-> Base]
    OBVIOUS
  <2>2. 1..m = {}
    BY <1>5
  <2>3. \A s \in SUBSET (1..m) : s = {}
    BY <2>2
  <2>4. Folds(it, 1..m)
    BY <2>1, <2>3 DEF Folds
  <2> QED BY <1>4, <2>4
<1>6. CASE m # 0
  <2>1. m - 1 \in Nat /\ ~(m <= m - 1)
    BY <1>4, <1>6
  <2>2. m - 1 \notin Bad
    BY <1>3, <2>1
  <2>3. PICK h : Folds(h, 1..m - 1)
    BY <1>1, <2>1, <2>2
  <2>4. PICK it : it = [s \in SUBSET (1..m) |-> IF m \in s THEN N!Merge(h[s \ {m}], config[m]) ELSE h[s]]
    OBVIOUS
  <2>5. ASSUME NEW s \in SUBSET (1..m)
        PROVE  it[s] = IF s = {} THEN Base ELSE N!Merge(it[s \ {Highest(s)}], config[Highest(s)])
    <3>1. CASE m \in s
      <4>1. Highest(s) = m
        BY <1>4, <3>1, HighestIs
      <4>2. s \ {m} \in SUBSET (1..m) /\ m \notin s \ {m}
        OBVIOUS
      <4>3. it[s \ {m}] = h[s \ {m}]
        BY <2>4, <4>2
      <4> QED BY <2>4, <3>1, <4>1, <4>3
    <3>2. CASE m \notin s
      <4>1. s \in SUBSET (1..m - 1)
        BY <1>4, <3>2
      <4>2. h[s] = IF s = {} THEN Base ELSE N!Merge(h[s \ {Highest(s)}], config[Highest(s)])
        BY <2>3, <4>1 DEF Folds
      <4>3. s \ {Highest(s)} \in SUBSET (1..m) /\ m \notin s \ {Highest(s)}
        BY <3>2
      <4>4. it[s \ {Highest(s)}] = h[s \ {Highest(s)}] /\ it[s] = h[s]
        BY <2>4, <3>2, <4>3
      <4> QED BY <4>2, <4>4
    <3> QED BY <3>1, <3>2
  <2>6. Folds(it, 1..m)
    BY <2>4, <2>5 DEF Folds
  <2> QED BY <1>4, <2>6
<1> QED BY <1>5, <1>6

\* The codecs of a router are made of the configured ones, one after the other.
LEMMA MergedInTurn ==
  ASSUME NEW n \in Nat, DOMAIN config = 1..n
  PROVE  \E g : /\ g[0] = Base /\ g[n] = N!Capabilities
                /\ \A k \in 1..n : g[k] = N!Merge(g[k - 1], config[k])
<1>1. PICK it : it = CHOOSE f : Folds(f, 1..n)
  OBVIOUS
<1>2. Folds(it, 1..n)
  BY <1>1, FoldsOnce
<1>3. PICK g : g = [k \in 0..n |-> it[1..k]]
  OBVIOUS
<1>4. g[n] = N!Capabilities
  BY <1>1, <1>3, FoldIs
<1>5. g[0] = Base
  <2>1. 1..0 = {} /\ {} \in SUBSET (1..n)
    OBVIOUS
  <2>2. it[{}] = Base
    BY <1>2, <2>1 DEF Folds
  <2> QED BY <1>3, <2>1, <2>2
<1>6. ASSUME NEW k \in 1..n PROVE g[k] = N!Merge(g[k - 1], config[k])
  <2>1. 1..k \in SUBSET (1..n) /\ k \in 1..k /\ (1..k) \ {k} = 1..k - 1 /\ k \in Nat
    OBVIOUS
  <2>2. Highest(1..k) = k
    BY <2>1, HighestIs
  <2>3. it[1..k] = N!Merge(it[1..k - 1], config[k])
    <3>1. it[1..k] = N!Merge(it[(1..k) \ {Highest(1..k)}], config[Highest(1..k)])
      BY <1>2, <2>1 DEF Folds
    <3> QED BY <2>1, <2>2, <3>1
  <2>4. k \in 0..n /\ k - 1 \in 0..n
    OBVIOUS
  <2> QED BY <1>3, <2>3, <2>4
<1> QED BY <1>4, <1>5, <1>6

LEMMA TailIs ==
  ASSUME NEW M, NEW s \in Seq(M), s # <<>>
  PROVE  /\ Tail(s) \in Seq(M) /\ 1 \in DOMAIN s /\ Head(s) = s[1] /\ Head(s) \in M
         /\ \A i \in DOMAIN Tail(s) : i + 1 \in DOMAIN s /\ i + 1 # 1 /\ Tail(s)[i] = s[i + 1]
<1>1. PICK n \in Nat : n = Len(s) /\ DOMAIN s = 1..n
  OBVIOUS
<1>2. n # 0
  BY <1>1
<1>3. Tail(s) \in Seq(M) /\ Len(Tail(s)) = n - 1 /\ \A i \in 1..n - 1 : Tail(s)[i] = s[i + 1]
  BY <1>1, <1>2
<1>4. DOMAIN Tail(s) = 1..n - 1
  BY <1>2, <1>3
<1>5. \A i \in 1..n - 1 : i + 1 \in 1..n /\ i + 1 # 1
  BY <1>2
<1>6. 1 \in 1..n
  BY <1>2
<1> QED BY <1>1, <1>3, <1>4, <1>5, <1>6

LEMMA TailOnce ==
  ASSUME NEW M, NEW s \in Seq(M), s # <<>>, OnceIn(s)
  PROVE  OnceIn(Tail(s)) /\ \A i \in DOMAIN Tail(s) : Tail(s)[i] # Head(s)
<1>1. \A i \in DOMAIN Tail(s) : i + 1 \in DOMAIN s /\ i + 1 # 1 /\ Tail(s)[i] = s[i + 1]
  BY TailIs
<1>2. Head(s) = s[1] /\ 1 \in DOMAIN s /\ \A i, j \in DOMAIN s : s[i] = s[j] => i = j
  BY TailIs DEF OnceIn
<1>3. \A i \in DOMAIN Tail(s) : i \in Nat
  BY TailIs
<1>4. \A i \in DOMAIN Tail(s) : Tail(s)[i] # Head(s)
  BY <1>1, <1>2
<1>5. \A i, j \in DOMAIN Tail(s) : Tail(s)[i] = Tail(s)[j] => i = j
  <2>1. ASSUME NEW i \in DOMAIN Tail(s), NEW j \in DOMAIN Tail(s), Tail(s)[i] = Tail(s)[j] PROVE i = j
    <3>1. i + 1 = j + 1
      BY <1>1, <1>2, <2>1
    <3> QED BY <1>3, <3>1
  <2> QED BY <2>1
<1> QED BY <1>4, <1>5 DEF OnceIn

\* The two RemoveFirst are one.
LEMMA SameRemoval == ASSUME NEW s, NEW x PROVE N!RemoveFirst(s, x) = P!RemoveFirst(s, x)
BY DEF N!RemoveFirst, N!SelectInSeq, N!Min, N!RemoveAt, P!RemoveFirst, P!SelectInSeq, P!Min, P!RemoveAt

\* Without takes the type out of the pool.
LEMMA WithoutIs ==
  ASSUME NEW M, NEW s \in Seq(M), OnceIn(s), NEW x, NEW q, q = N!Without(s, x)
  PROVE  /\ q \in Seq(M) /\ OnceIn(q)
         /\ \A i \in DOMAIN q : q[i] # x /\ \E k \in DOMAIN s : q[i] = s[k]
<1>1. q = P!RemoveFirst(s, x)
  BY SameRemoval DEF N!Without
<1>2. CASE \E c \in DOMAIN s : s[c] = x
  <2>1. PICK c \in DOMAIN s : x = s[c]
    BY <1>2
  <2>2. q \in Seq(M) /\ OnceIn(q) /\ Less(q, s, x)
    BY <1>1, <2>1, TakenOut
  <2>3. \A i \in DOMAIN q : q[i] # x /\ \E k \in DOMAIN s : s[k] = q[i]
    BY <2>2 DEF Less
  <2> QED BY <2>2, <2>3
<1>3. CASE ~\E c \in DOMAIN s : s[c] = x
  <2>1. ~\E i \in 1..Len(s) : s[i] = x
    BY <1>3
  <2>2. P!SelectInSeq(s, LAMBDA v : v = x) = 0
    <3>1. {i \in 1..Len(s) : s[i] = x} = {}
      BY <2>1
    <3>2. P!SelectInSeq(s, LAMBDA v : v = x)
            = LET I == {i \in 1..Len(s) : s[i] = x} IN IF I # {} THEN P!Min(I) ELSE 0
      BY DEF P!SelectInSeq
    <3> QED BY <3>1, <3>2
  <2>3. q = s
    BY <1>1, <2>1, <2>2 DEF P!RemoveFirst
  <2> QED BY <1>3, <2>3
<1> QED BY <1>2, <1>3

CodecRec == [fmt : Format \union {Rtx}, pt : Nat, apt : Nat]

\* What is configured: formats once, with types.
Configured ==
  \E n \in Nat :
    /\ DOMAIN config = 1..n
    /\ \A i \in 1..n : config[i].fmt \in Format /\ config[i].pt \in Nat
    /\ \A i, j \in 1..n : config[i].fmt = config[j].fmt => i = j

\* Where a type may come from when k codecs are done.
FromPool(x, k) ==
  /\ \E i \in DOMAIN Pool : x = Pool[i]
  /\ \E j \in 1..k : config[j].pt = 0 \/ config[j].fmt \in Video
Own(x, k) == x # 0 /\ \E j \in 1..k : config[j].fmt \in Known /\ N!OwnType(config[j]) = x

TypesOnce(codes) == \A i, j \in DOMAIN codes : codes[i].pt = codes[j].pt => i = j

\* The codecs so far have types of their own, and those in the pool are others.
Apt(codes, free, k) ==
  /\ codes \in Seq(CodecRec) /\ TypesOnce(codes)
  /\ free \in Seq(Nat \ {0}) /\ OnceIn(free)
  /\ \A i \in DOMAIN free : \E j \in DOMAIN Pool : free[i] = Pool[j]
  /\ \A i \in DOMAIN codes : /\ FromPool(codes[i].pt, k) \/ Own(codes[i].pt, k)
                             /\ \A j \in DOMAIN free : codes[i].pt # free[j]

Merged(acc, k) ==
  /\ acc = [ok |-> acc.ok, pool |-> acc.pool, codecs |-> acc.codecs]
  /\ acc.ok \in BOOLEAN /\ Apt(acc.codecs, acc.pool, k)

LEMMA AptLater ==
  ASSUME NEW codes, NEW free, NEW k \in Nat, k # 0, Apt(codes, free, k - 1)
  PROVE  Apt(codes, free, k)
<1>1. \A j \in 1..k - 1 : j \in 1..k
  OBVIOUS
<1>2. \A x : (FromPool(x, k - 1) => FromPool(x, k)) /\ (Own(x, k - 1) => Own(x, k))
  BY <1>1 DEF FromPool, Own
<1> QED BY <1>2 DEF Apt

LEMMA AptLess ==
  ASSUME NEW codes, NEW free, NEW k, Apt(codes, free, k),
         NEW rest \in Seq(Nat \ {0}), OnceIn(rest),
         \A i \in DOMAIN rest : \E j \in DOMAIN free : rest[i] = free[j]
  PROVE  Apt(codes, rest, k)
BY DEF Apt

LEMMA AptMore ==
  ASSUME NEW codes, NEW free, NEW k, Apt(codes, free, k),
         NEW c \in CodecRec, FromPool(c.pt, k) \/ Own(c.pt, k),
         \A j \in DOMAIN free : c.pt # free[j],
         \A i \in DOMAIN codes : codes[i].pt # c.pt,
         NEW w, w = Append(codes, c)
  PROVE  Apt(w, free, k)
<1>1. codes \in Seq(CodecRec)
  BY DEF Apt
<1>2. PICK n \in Nat : n = Len(codes) /\ DOMAIN codes = 1..n
  BY <1>1
<1>3. w \in Seq(CodecRec) /\ DOMAIN w = 1..n + 1 /\ w[n + 1] = c /\ \A i \in 1..n : w[i] = codes[i]
  BY <1>1, <1>2, Adds
<1>4. \A i \in 1..n + 1 : i \in 1..n \/ i = n + 1
  BY <1>2
<1>5. TypesOnce(w)
  BY <1>2, <1>3, <1>4 DEF Apt, TypesOnce
<1> QED BY <1>2, <1>3, <1>4, <1>5 DEF Apt

LEMMA PoolIs ==
  /\ Pool \in Seq(Nat \ {0}) /\ OnceIn(Pool)
  /\ Known \subseteq Format /\ Video \subseteq Format /\ Rtx \notin Format
  /\ Fixed \in [Known -> Nat]
  /\ \A f, g \in Known : Fixed[f] # 0 =>
       (Fixed[f] = Fixed[g] => f = g) /\ \A i \in DOMAIN Pool : Fixed[f] # Pool[i]
BY PartsAssumption DEF N!NegotiationAssumption, N!IsInjective, OnceIn

\* Where configured types come first, what is a codec's own is nobody's yet, and is
\* not in the pool once it is taken out.
LEMMA OwnIsOwn ==
  ASSUME Configured, N!ConfiguredFirst, NEW n \in Nat, DOMAIN config = 1..n, NEW k \in 1..n,
         config[k].fmt \in Known, NEW own, own = N!OwnType(config[k]), own # 0,
         NEW codes, NEW free, Apt(codes, free, k - 1)
  PROVE  \A i \in DOMAIN codes : codes[i].pt # own
<1>1. ASSUME NEW i \in DOMAIN codes, codes[i].pt = own PROVE FALSE
  <2>1. \A x, y \in 1..n : config[x].pt # 0 =>
          /\ N!OwnType(config[y]) = config[x].pt => x = y
          /\ y < x => config[y].pt # 0 /\ config[y].fmt \notin Video
    BY DEF N!ConfiguredFirst
  <2>2. \A x \in 1..n : config[x].fmt \in Known =>
          N!OwnType(config[x]) = IF config[x].pt = 0 THEN Fixed[config[x].fmt] ELSE config[x].pt
    BY DEF N!OwnType
  <2>3. \A x \in 1..n, y \in 1..n : config[x].fmt = config[y].fmt => x = y
    BY DEF Configured
  <2>4. \A j \in 1..k - 1 : j \in 1..n /\ j < k /\ j # k
    OBVIOUS
  <2>5. CASE FromPool(own, k - 1)
    <3>1. PICK j \in 1..k - 1 : config[j].pt = 0 \/ config[j].fmt \in Video
      BY <2>5 DEF FromPool
    <3>2. config[k].pt = 0
      BY <2>1, <2>4, <3>1
    <3>3. own = Fixed[config[k].fmt]
      BY <2>2, <3>2
    <3> QED BY <2>5, <3>3, PoolIs DEF FromPool
  <2>6. CASE Own(own, k - 1)
    <3>1. PICK j \in 1..k - 1 : config[j].fmt \in Known /\ N!OwnType(config[j]) = own
      BY <2>6 DEF Own
    <3>2. j \in 1..n /\ j # k
      BY <2>4
    <3>3. CASE config[k].pt # 0
      BY <2>1, <2>2, <3>1, <3>2, <3>3
    <3>4. CASE config[j].pt # 0
      BY <2>1, <2>2, <3>1, <3>2, <3>4
    <3>5. CASE config[k].pt = 0 /\ config[j].pt = 0
      <4>1. Fixed[config[k].fmt] = Fixed[config[j].fmt] /\ Fixed[config[k].fmt] # 0
        BY <2>2, <3>1, <3>2, <3>5
      <4>2. config[k].fmt = config[j].fmt
        BY <3>1, <4>1, PoolIs
      <4> QED BY <2>3, <3>2, <4>2
    <3> QED BY <3>3, <3>4, <3>5
  <2> QED BY <1>1, <2>5, <2>6 DEF Apt
<1> QED BY <1>1

LEMMA MergeStep ==
  ASSUME Configured, N!ConfiguredFirst, NEW n \in Nat, DOMAIN config = 1..n, NEW k \in 1..n,
         NEW acc, Merged(acc, k - 1), NEW q, q = N!Merge(acc, config[k])
  PROVE  Merged(q, k)
<1>1. PICK uc : uc = config[k]
  OBVIOUS
<1>2. uc.fmt \in Format /\ uc.pt \in Nat /\ k \in Nat /\ k # 0 /\ k \in 1..k
  BY <1>1 DEF Configured
<1>3. PICK codes, free : codes = acc.codecs /\ free = acc.pool
  OBVIOUS
<1>4. Apt(codes, free, k)
  BY <1>2, <1>3, AptLater DEF Merged
<1>5. Merged(acc, k)
  BY <1>3, <1>4 DEF Merged
<1>6. PICK own : own = N!OwnType(uc)
  OBVIOUS
<1>7. PICK short \in BOOLEAN : short = (own = 0 /\ free = <<>>)
  OBVIOUS
<1>8. PICK pt : pt = IF own # 0 \/ short THEN own ELSE Head(free)
  OBVIOUS
<1>9. PICK rest : rest = IF uc.pt # 0 THEN N!Without(free, uc.pt)
                         ELSE IF own # 0 \/ short THEN free ELSE Tail(free)
  OBVIOUS
<1>10. q = IF ~acc.ok \/ uc.fmt \notin Known THEN acc
           ELSE IF short \/ (uc.fmt \in Video /\ rest = <<>>) THEN [acc EXCEPT !.ok = FALSE]
           ELSE IF uc.fmt \in Video
                THEN [ok |-> TRUE, pool |-> Tail(rest),
                      codecs |-> codes \o <<N!Codec(uc.fmt, pt, 0), N!Codec(Rtx, Head(rest), pt)>>]
                ELSE [ok |-> TRUE, pool |-> rest, codecs |-> Append(codes, N!Codec(uc.fmt, pt, 0))]
  BY <1>1, <1>3, <1>6, <1>7, <1>8, <1>9 DEF N!Merge
<1>11. CASE ~acc.ok \/ uc.fmt \notin Known
  BY <1>5, <1>10, <1>11
<1>12. CASE acc.ok /\ uc.fmt \in Known /\ (short \/ (uc.fmt \in Video /\ rest = <<>>))
  <2>1. q = [acc EXCEPT !.ok = FALSE]
    BY <1>10, <1>12
  <2>2. q = [ok |-> FALSE, pool |-> free, codecs |-> codes]
    BY <1>3, <2>1 DEF Merged
  <2> QED BY <1>4, <2>2 DEF Merged
<1>13. CASE acc.ok /\ uc.fmt \in Known /\ ~short /\ ~(uc.fmt \in Video /\ rest = <<>>)
  <2>1. /\ codes \in Seq(CodecRec) /\ free \in Seq(Nat \ {0}) /\ OnceIn(free)
        /\ \A i \in DOMAIN free : \E j \in DOMAIN Pool : free[i] = Pool[j]
        /\ \A i \in DOMAIN codes : \A j \in DOMAIN free : codes[i].pt # free[j]
    BY <1>4 DEF Apt
  \* The type and what is left of the pool.
  <2>2. /\ pt \in Nat /\ (FromPool(pt, k) \/ Own(pt, k))
        /\ rest \in Seq(Nat \ {0}) /\ OnceIn(rest)
        /\ \A i \in DOMAIN rest : rest[i] # pt /\ \E j \in DOMAIN free : rest[i] = free[j]
        /\ \A i \in DOMAIN codes : codes[i].pt # pt
    <3>1. CASE own # 0
      <4>1. pt = own /\ own \in Nat /\ Own(pt, k)
        BY <1>1, <1>2, <1>6, <1>8, <1>13, <3>1, PoolIs DEF N!OwnType, Own
      <4>2. \A i \in DOMAIN codes : codes[i].pt # own
        BY <1>1, <1>3, <1>6, <1>13, <3>1, OwnIsOwn DEF Merged
      <4>3. CASE uc.pt # 0
        <5>1. own = uc.pt /\ rest = N!Without(free, own)
          BY <1>6, <1>9, <4>3 DEF N!OwnType
        <5> QED BY <2>1, <4>1, <4>2, <5>1, WithoutIs
      <4>4. CASE uc.pt = 0
        <5>1. own = Fixed[uc.fmt] /\ rest = free
          BY <1>6, <1>9, <1>13, <3>1, <4>4 DEF N!OwnType
        <5>2. \A i \in DOMAIN Pool : own # Pool[i]
          BY <1>13, <3>1, <5>1, PoolIs
        <5> QED BY <2>1, <4>1, <4>2, <5>1, <5>2
      <4> QED BY <4>3, <4>4
    <3>2. CASE own = 0
      <4>1. uc.pt = 0 /\ free # <<>> /\ pt = Head(free) /\ rest = Tail(free)
        BY <1>6, <1>7, <1>8, <1>9, <1>13, <3>2 DEF N!OwnType
      <4>2. /\ Tail(free) \in Seq(Nat \ {0}) /\ 1 \in DOMAIN free /\ Head(free) = free[1] /\ Head(free) \in Nat
            /\ \A i \in DOMAIN Tail(free) : i + 1 \in DOMAIN free /\ Tail(free)[i] = free[i + 1]
        BY <2>1, <4>1, TailIs
      <4>3. OnceIn(Tail(free)) /\ \A i \in DOMAIN Tail(free) : Tail(free)[i] # Head(free)
        BY <2>1, <4>1, TailOnce
      <4>4. FromPool(pt, k)
        BY <1>1, <1>2, <2>1, <4>1, <4>2 DEF FromPool
      <4> QED BY <2>1, <4>1, <4>2, <4>3, <4>4
    <3> QED BY <3>1, <3>2
  <2>3. Apt(codes, rest, k)
    BY <1>4, <2>2, AptLess
  <2>4. PICK c : c = N!Codec(uc.fmt, pt, 0)
    OBVIOUS
  <2>5. c \in CodecRec /\ c.pt = pt
    BY <1>2, <2>2, <2>4 DEF N!Codec, CodecRec
  <2>6. PICK w : w = Append(codes, c)
    OBVIOUS
  <2>7. CASE uc.fmt \notin Video
    <3>1. Apt(w, rest, k)
      BY <2>2, <2>3, <2>5, <2>6, AptMore
    <3>2. q = [ok |-> TRUE, pool |-> rest, codecs |-> w]
      BY <1>10, <1>13, <2>4, <2>6, <2>7
    <3> QED BY <3>1, <3>2 DEF Merged
  <2>8. CASE uc.fmt \in Video
    <3>1. rest # <<>>
      BY <1>13, <2>8
    <3>2. PICK h, t : h = Head(rest) /\ t = Tail(rest)
      OBVIOUS
    <3>3. /\ t \in Seq(Nat \ {0}) /\ 1 \in DOMAIN rest /\ h = rest[1] /\ h \in Nat
          /\ \A i \in DOMAIN t : i + 1 \in DOMAIN rest /\ t[i] = rest[i + 1]
      BY <2>2, <3>1, <3>2, TailIs
    <3>4. OnceIn(t) /\ \A i \in DOMAIN t : t[i] # h
      BY <2>2, <3>1, <3>2, TailOnce
    <3>5. Apt(codes, t, k)
      BY <2>3, <3>3, <3>4, AptLess
    <3>6. Apt(w, t, k)
      <4>1. \A i \in DOMAIN t : t[i] # pt
        BY <2>2, <3>3
      <4> QED BY <2>2, <2>5, <2>6, <3>5, <4>1, AptMore
    <3>7. PICK d : d = N!Codec(Rtx, h, pt)
      OBVIOUS
    <3>8. d \in CodecRec /\ d.pt = h
      BY <2>2, <3>3, <3>7 DEF N!Codec, CodecRec
    <3>9. FromPool(h, k)
      <4>1. \E i \in DOMAIN Pool : h = Pool[i]
        BY <2>1, <2>2, <3>3
      <4> QED BY <1>1, <1>2, <2>8, <4>1 DEF FromPool
    <3>10. \A i \in DOMAIN w : w[i].pt # h
      <4>1. h # pt /\ \A i \in DOMAIN codes : codes[i].pt # h
        BY <2>3, <2>2, <3>3 DEF Apt
      <4>2. w[Len(codes) + 1] = c /\ DOMAIN w = 1..Len(codes) + 1 /\ DOMAIN codes = 1..Len(codes)
            /\ Len(codes) \in Nat /\ \A i \in DOMAIN codes : w[i] = codes[i]
        BY <2>1, <2>5, <2>6, Adds
      <4>3. \A i \in DOMAIN w : i \in DOMAIN codes \/ i = Len(codes) + 1
        BY <4>2
      <4> QED BY <2>5, <4>1, <4>2, <4>3
    <3>11. PICK v : v = Append(w, d)
      OBVIOUS
    <3>12. Apt(v, t, k)
      BY <3>4, <3>6, <3>8, <3>9, <3>10, <3>11, AptMore
    <3>13. v = codes \o <<c, d>>
      <4>1. codes \in Seq(CodecRec) /\ c \in CodecRec /\ d \in CodecRec
        BY <2>1, <2>5, <3>8
      <4> QED BY ONLY <2>6, <3>11, <4>1
    <3>14. q = [ok |-> TRUE, pool |-> t, codecs |-> v]
      <4>1. q = [ok |-> TRUE, pool |-> t, codecs |-> codes \o <<c, d>>]
        BY <1>10, <1>13, <2>4, <2>8, <3>2, <3>7
      <4> QED BY <3>13, <4>1
    <3> QED BY <3>12, <3>14 DEF Merged
  <2> QED BY <2>7, <2>8
<1> QED BY <1>11, <1>12, <1>13

\* So no two codecs of a router share a type.
LEMMA CapabilitiesApart ==
  ASSUME Configured, N!ConfiguredFirst
  PROVE  N!Capabilities.codecs \in Seq(CodecRec) /\ TypesOnce(N!Capabilities.codecs)
<1>1. PICK n \in Nat : DOMAIN config = 1..n
  BY DEF Configured
<1>2. PICK g : /\ g[0] = Base /\ g[n] = N!Capabilities
               /\ \A k \in 1..n : g[k] = N!Merge(g[k - 1], config[k])
  BY <1>1, MergedInTurn
<1>3. Merged(g[0], 0)
  <2>1. Base = [ok |-> TRUE, pool |-> Pool, codecs |-> <<>>]
    BY DEF Base
  <2>2. Apt(<<>>, Pool, 0)
    BY PoolIs DEF Apt, TypesOnce
  <2> QED BY <1>2, <2>1, <2>2 DEF Merged
<1>4. PICK Bad : Bad = {k \in 0..n : ~Merged(g[k], k)}
  OBVIOUS
<1>5. ASSUME Bad # {} PROVE FALSE
  <2>1. PICK k \in Bad : \A x \in Bad : k <= x
    <3>1. Bad \in SUBSET Nat
      BY <1>4
    <3> QED BY <1>5, <3>1, LeastNat
  <2>2. k \in 0..n /\ ~Merged(g[k], k)
    BY <1>4
  <2>3. k # 0
    BY <1>3, <2>2
  <2>4. k \in 1..n /\ k - 1 \in 0..n /\ ~(k <= k - 1)
    BY <2>2, <2>3
  <2>5. Merged(g[k - 1], k - 1)
    BY <1>4, <2>1, <2>4
  <2>6. Merged(g[k], k)
    BY <1>1, <1>2, <2>4, <2>5, MergeStep
  <2> QED BY <2>2, <2>6
<1>6. Merged(N!Capabilities, n)
  BY <1>2, <1>4, <1>5
<1> QED BY <1>6 DEF Merged, Apt

LEMMA CapOfIs ==
  ASSUME NEW c, NEW x \in N!CapOf(c)
  PROVE  \E i \in DOMAIN caps : x = caps[i] /\ x.fmt = c.fmt
BY DEF N!CapOf, N!First

LEMMA RtxOfIs ==
  ASSUME NEW pt, NEW x \in N!RtxOf(caps, pt)
  PROVE  x.fmt = Rtx /\ x.apt = pt /\ \E i \in DOMAIN caps : x = caps[i]
BY DEF N!RtxOf, N!First

\* What the browser sends, by places.
LEMMA SentIs ==
  ASSUME NEW fmts \in N!Lists(Format), NEW repeated, NEW astray,
         NEW s, s = N!Sent(fmts, repeated, astray)
  PROVE  \A i \in DOMAIN s : /\ i \in Nat /\ s[i].pt = i
                             /\ s[i].fmt = Rtx \/ s[i].fmt \in Format
<1>1. PICK n \in Nat : fmts \in [1..n -> Format]
  BY DEF N!Lists
<1>2. Len(fmts) = n /\ DOMAIN fmts = 1..n
  BY <1>1
<1>3. PICK again : again = {n + i : i \in {j \in 1..n : fmts[j] \in repeated}}
  OBVIOUS
<1>4. s = [i \in (1..n) \union again |->
             IF i <= n THEN N!Codec(fmts[i], i, 0) ELSE N!Codec(Rtx, i, IF astray THEN 0 ELSE i - n)]
  BY <1>2, <1>3 DEF N!Sent
<1>5. again \subseteq Nat
  BY <1>3
<1>6. ASSUME NEW i \in (1..n) \union again
      PROVE  i \in Nat /\ s[i].pt = i /\ (s[i].fmt = Rtx \/ s[i].fmt \in Format)
  <2>1. i \in Nat
    BY <1>5
  <2>2. CASE i <= n
    <3>1. s[i] = N!Codec(fmts[i], i, 0)
      BY <1>4, <2>2
    <3>2. i \in 1..n
      <4>1. \A j \in again : j \in Nat /\ j > n
        BY <1>3
      <4> QED BY <2>1, <2>2, <4>1
    <3> QED BY <1>1, <2>1, <3>1, <3>2 DEF N!Codec
  <2>3. CASE ~(i <= n)
    BY <1>4, <2>1, <2>3 DEF N!Codec
  <2> QED BY <2>2, <2>3
<1> QED BY <1>4, <1>6

\* The mapping that is made of what is sent.
MapOf(s) == UNION {{<<c.pt, cc.pt>> : cc \in N!MappedTo(c, s)} : c \in N!Range(s)}

LEMMA MapOfIs ==
  ASSUME NEW s
  PROVE  /\ \A x \in MapOf(s) : \E i \in DOMAIN s : \E cc \in N!MappedTo(s[i], s) : x = <<s[i].pt, cc.pt>>
         /\ \A i \in DOMAIN s : \A cc \in N!MappedTo(s[i], s) : <<s[i].pt, cc.pt>> \in MapOf(s)
BY DEF MapOf, N!Range

\* A media codec is mapped to the router's codec of its format.
LEMMA CapabilityIs ==
  ASSUME caps \in Seq(CodecRec), TypesOnce(caps),
         NEW s, \A i \in DOMAIN s : s[i].pt = i,
         NEW i \in DOMAIN s, N!IsMedia(s[i]), N!MappedTo(s[i], s) # {},
         NEW cap, cap = N!Capability(s[i], MapOf(s))
  PROVE  /\ cap \in N!CapOf(s[i]) /\ cap.fmt = s[i].fmt /\ <<i, cap.pt>> \in MapOf(s)
         /\ \E j \in DOMAIN caps : cap = caps[j]
<1>1. PICK map : map = MapOf(s)
  OBVIOUS
<1>2. N!MappedTo(s[i], s) = N!CapOf(s[i])
  BY DEF N!MappedTo
<1>3. PICK to : to = CHOOSE x \in map : x[1] = s[i].pt
  OBVIOUS
<1>4. to \in map /\ to[1] = i
  <2>1. PICK cc \in N!CapOf(s[i]) : <<i, cc.pt>> \in map
    BY <1>1, <1>2, MapOfIs
  <2>2. <<i, cc.pt>>[1] = s[i].pt
    OBVIOUS
  <2> QED BY <1>3, <2>1, <2>2
<1>5. PICK cc \in N!CapOf(s[i]) : to = <<i, cc.pt>>
  <2>1. PICK j \in DOMAIN s : \E cc \in N!MappedTo(s[j], s) : to = <<s[j].pt, cc.pt>>
    BY <1>1, <1>4, MapOfIs
  <2>2. j = i
    BY <1>4, <2>1
  <2> QED BY <1>2, <2>1, <2>2
<1>6. PICK j \in DOMAIN caps : cc = caps[j] /\ cc.fmt = s[i].fmt
  BY CapOfIs
<1>7. PICK found : found = {caps[k] : k \in {k \in DOMAIN caps :
                              caps[k].pt = to[2] /\ \A l \in DOMAIN caps : caps[l].pt = to[2] => k <= l}}
  OBVIOUS
<1>8. cap = CHOOSE x \in found : TRUE
  BY <1>1, <1>3, <1>7 DEF N!Capability, N!First, N!Only
<1>9. to[2] = caps[j].pt
  BY <1>5, <1>6
<1>10. \A k \in DOMAIN caps : caps[k].pt = to[2] => k = j
  BY <1>9 DEF TypesOnce
<1>11. j <= j
  <2>1. DOMAIN caps = 1..Len(caps) /\ Len(caps) \in Nat
    OBVIOUS
  <2> QED BY <2>1
<1>12. found = {caps[j]}
  BY <1>7, <1>9, <1>10, <1>11
<1>13. cap = cc
  BY <1>6, <1>8, <1>12
<1> QED BY <1>1, <1>4, <1>5, <1>6, <1>13

LEMMA Halves ==
  ASSUME NEW i \in Nat
  PROVE  /\ (2 * i) % 2 = 0 /\ (2 * i) \div 2 = i
         /\ (2 * i + 1) % 2 = 1 /\ (2 * i + 1) \div 2 = i
OBVIOUS

\* A place of the consumable codecs has the router's codec of a media codec that is
\* sent, or its repetitions.
MediaAt(cons, s, map, k, i) ==
  /\ k = 2 * i /\ i \in DOMAIN s /\ N!IsMedia(s[i])
  /\ \E j \in DOMAIN caps : /\ cons[k] = N!Codec(caps[j].fmt, caps[j].pt, 0)
                            /\ caps[j].fmt = s[i].fmt /\ <<s[i].pt, caps[j].pt>> \in map
AgainAt(cons, k, i) ==
  /\ k = 2 * i + 1 /\ 2 * i \in DOMAIN cons
  /\ \E j \in DOMAIN caps : cons[k] = caps[j] /\ caps[j].fmt = Rtx /\ caps[j].apt = cons[2 * i].pt

\* They are nothing else, and repetitions that are sent are mapped to theirs.
Linked(cons, s, map) ==
  /\ \A k \in DOMAIN cons :
       /\ k \in Nat
       /\ \E i \in Nat : \/ MediaAt(cons, s, map, k, i)
                         \/ AgainAt(cons, k, i) /\ MediaAt(cons, s, map, 2 * i, i)
  /\ \A k \in DOMAIN cons, i \in DOMAIN s : MediaAt(cons, s, map, k, i) =>
       \A r \in DOMAIN s, l \in DOMAIN cons :
         /\ s[r].fmt = Rtx /\ s[r].apt = s[i].pt
         /\ cons[l].fmt = Rtx /\ cons[l].apt = cons[k].pt
         => <<s[r].pt, cons[l].pt>> \in map

LEMMA ConsumableIs ==
  ASSUME caps \in Seq(CodecRec), TypesOnce(caps),
         NEW s, \A i \in DOMAIN s : /\ i \in Nat /\ s[i].pt = i
                                    /\ s[i].fmt = Rtx \/ s[i].fmt \in Format,
         \A c \in N!Range(s) : N!MappedTo(c, s) # {},
         NEW map, map = MapOf(s), NEW cons, cons = N!Consumable(s, map)
  PROVE  Linked(cons, s, map)
<1>1. PICK med : med = {i \in DOMAIN s : N!IsMedia(s[i])}
  OBVIOUS
<1>2. PICK cap : cap = [i \in med |-> N!Capability(s[i], map)]
  OBVIOUS
<1>3. PICK again : again = [i \in med |-> N!RtxOf(caps, cap[i].pt)]
  OBVIOUS
<1>4. PICK twice : twice = {i \in med : again[i] # {}}
  OBVIOUS
<1>5. PICK dom : dom = {2 * i : i \in med} \union {2 * i + 1 : i \in twice}
  OBVIOUS
<1>6. cons = [k \in {2 * i : i \in {i \in DOMAIN s : N!IsMedia(s[i])}} \union
                     {2 * i + 1 : i \in {j \in {i \in DOMAIN s : N!IsMedia(s[i])} :
                                           N!RtxOf(caps, N!Capability(s[j], map).pt) # {}}} |->
                IF k % 2 = 0
                THEN N!Codec(N!Capability(s[k \div 2], map).fmt, N!Capability(s[k \div 2], map).pt, 0)
                ELSE N!Only(N!RtxOf(caps, N!Capability(s[k \div 2], map).pt))]
  BY DEF N!Consumable
<1>7. /\ {i \in DOMAIN s : N!IsMedia(s[i])} = med
      /\ {j \in med : N!RtxOf(caps, N!Capability(s[j], map).pt) # {}} = twice
  <2>1. \A j \in med : again[j] = N!RtxOf(caps, N!Capability(s[j], map).pt)
    BY <1>2, <1>3
  <2> QED BY <1>1, <1>4, <2>1
<1>8. DOMAIN cons = dom
  BY <1>5, <1>6, <1>7
<1>each. ASSUME NEW k \in dom
       PROVE  cons[k] = IF k % 2 = 0
                THEN N!Codec(N!Capability(s[k \div 2], map).fmt, N!Capability(s[k \div 2], map).pt, 0)
                ELSE N!Only(N!RtxOf(caps, N!Capability(s[k \div 2], map).pt))
  BY <1>6, <1>8
<1>9. med \subseteq DOMAIN s /\ med \subseteq Nat /\ twice \subseteq med
  BY <1>1, <1>4
<1>10. ASSUME NEW i \in med
       PROVE  /\ 2 * i \in dom /\ cons[2 * i] = N!Codec(cap[i].fmt, cap[i].pt, 0)
              /\ cons[2 * i].fmt = cap[i].fmt /\ cons[2 * i].pt = cap[i].pt
  <2>1. (2 * i) % 2 = 0 /\ (2 * i) \div 2 = i
    BY <1>9, Halves
  <2>2. 2 * i \in dom
    BY <1>5
  <2>3. cons[2 * i] = N!Codec(N!Capability(s[i], map).fmt, N!Capability(s[i], map).pt, 0)
    BY <1>6, <1>8, <2>1, <2>2
  <2>4. cons[2 * i] = N!Codec(cap[i].fmt, cap[i].pt, 0)
    BY <1>2, <2>3
  <2> QED BY <2>2, <2>4 DEF N!Codec
<1>11. ASSUME NEW i \in twice
       PROVE  2 * i + 1 \in dom /\ cons[2 * i + 1] \in again[i]
  <2>1. (2 * i + 1) % 2 = 1 /\ (2 * i + 1) \div 2 = i
    BY <1>9, Halves
  <2>2. 2 * i + 1 \in dom
    BY <1>5
  <2>3. cons[2 * i + 1] = N!Only(N!RtxOf(caps, N!Capability(s[i], map).pt))
    <3>1. (2 * i + 1) % 2 # 0
      BY <2>1
    <3> QED BY <1>each, <2>1, <2>2, <3>1
  <2>4. cons[2 * i + 1] = N!Only(again[i])
    BY <1>2, <1>3, <1>9, <2>3
  <2>5. again[i] # {}
    BY <1>4
  <2> QED BY <2>2, <2>4, <2>5 DEF N!Only
<1>12. ASSUME NEW i \in med
       PROVE  /\ cap[i] \in N!CapOf(s[i]) /\ cap[i].fmt = s[i].fmt /\ <<s[i].pt, cap[i].pt>> \in map
              /\ \E j \in DOMAIN caps : cap[i] = caps[j]
  <2>1. i \in DOMAIN s /\ N!IsMedia(s[i]) /\ s[i].pt = i
    BY <1>1
  <2>2. N!MappedTo(s[i], s) # {}
    BY <2>1 DEF N!Range
  <2>3. cap[i] = N!Capability(s[i], MapOf(s))
    BY <1>2
  <2>4. \A x \in DOMAIN s : s[x].pt = x
    OBVIOUS
  <2> QED BY <2>1, <2>2, <2>3, <2>4, CapabilityIs
<1>13. ASSUME NEW i \in med PROVE MediaAt(cons, s, map, 2 * i, i)
  <2>1. PICK j \in DOMAIN caps : cap[i] = caps[j]
    BY <1>12
  <2>2. /\ i \in DOMAIN s /\ N!IsMedia(s[i])
        /\ cons[2 * i] = N!Codec(caps[j].fmt, caps[j].pt, 0)
        /\ caps[j].fmt = s[i].fmt /\ <<s[i].pt, caps[j].pt>> \in map
    BY <1>1, <1>10, <1>12, <2>1
  <2> QED BY <2>2 DEF MediaAt
<1>14. ASSUME NEW i \in twice PROVE AgainAt(cons, 2 * i + 1, i)
  <2>1. cons[2 * i].pt = cap[i].pt /\ 2 * i \in DOMAIN cons
    BY <1>8, <1>9, <1>10
  <2>2. cons[2 * i + 1] \in N!RtxOf(caps, cap[i].pt)
    BY <1>3, <1>9, <1>11
  <2>3. cons[2 * i + 1].fmt = Rtx /\ cons[2 * i + 1].apt = cap[i].pt
        /\ \E j \in DOMAIN caps : cons[2 * i + 1] = caps[j]
    BY <2>2, RtxOfIs
  <2> QED BY <2>1, <2>3 DEF AgainAt
<1>15. ASSUME NEW k \in DOMAIN cons
       PROVE  /\ k \in Nat
              /\ \E i \in Nat : \/ MediaAt(cons, s, map, k, i)
                                \/ AgainAt(cons, k, i) /\ MediaAt(cons, s, map, 2 * i, i)
  <2>1. CASE \E i \in med : k = 2 * i
    BY <1>9, <1>13, <2>1
  <2>2. CASE \E i \in twice : k = 2 * i + 1
    BY <1>9, <1>13, <1>14, <2>2
  <2> QED BY <1>5, <1>8, <2>1, <2>2
<1>16. ASSUME NEW k \in DOMAIN cons, NEW i \in DOMAIN s, MediaAt(cons, s, map, k, i),
              NEW r \in DOMAIN s, NEW l \in DOMAIN cons,
              s[r].fmt = Rtx, s[r].apt = s[i].pt, cons[l].fmt = Rtx, cons[l].apt = cons[k].pt
       PROVE  <<s[r].pt, cons[l].pt>> \in map
  <2>1. i \in med /\ k = 2 * i /\ cons[k].pt = cap[i].pt
    <3>1. i \in med /\ k = 2 * i
      BY <1>1, <1>16 DEF MediaAt
    <3> QED BY <1>10, <3>1
  <2>2. cons[l] \in N!RtxOf(caps, cap[i].pt)
    <3>1. ASSUME NEW x \in med, l = 2 * x PROVE FALSE
      <4>1. cons[l].fmt = s[x].fmt /\ N!IsMedia(s[x])
        BY <1>1, <1>10, <1>12, <3>1
      <4> QED BY <1>16, <4>1 DEF N!IsMedia
    <3>2. PICK x \in twice : l = 2 * x + 1
      BY <1>5, <1>8, <3>1
    <3>3. cons[l] \in N!RtxOf(caps, cap[x].pt)
      BY <1>3, <1>9, <1>11, <3>2
    <3>4. cap[x].pt = cap[i].pt
      BY <1>16, <2>1, <3>3, RtxOfIs
    <3> QED BY <3>3, <3>4
  <2>3. s[i] \in N!First(s, LAMBDA x : x.pt = s[r].apt)
    <3>1. \A x \in DOMAIN s : s[x].pt = s[r].apt => x = i
      BY <1>16
    <3>2. i <= i
      OBVIOUS
    <3> QED BY <1>16, <3>1, <3>2 DEF N!First
  <2>4. cons[l] \in N!MappedTo(s[r], s)
    <3>1. ~N!IsMedia(s[r])
      BY <1>16 DEF N!IsMedia
    <3>2. cap[i] \in IF N!IsMedia(s[i]) THEN N!CapOf(s[i]) ELSE {}
      BY <1>1, <1>12, <2>1
    <3>3. N!MappedTo(s[r], s) =
            UNION {UNION {N!RtxOf(caps, m.pt) : m \in IF N!IsMedia(a) THEN N!CapOf(a) ELSE {}} :
                     a \in N!First(s, LAMBDA x : x.pt = s[r].apt)}
      BY <3>1 DEF N!MappedTo
    <3>4. cons[l] \in UNION {N!RtxOf(caps, m.pt) : m \in IF N!IsMedia(s[i]) THEN N!CapOf(s[i]) ELSE {}}
      BY <2>2, <3>2
    <3> QED BY <2>3, <3>3, <3>4
  <2> QED BY <2>4, MapOfIs
<1> QED BY <1>15, <1>16 DEF Linked


\* What such a place has, and a codec of the same type is of the same format.
LEMMA PlaceIs ==
  ASSUME NEW cons, NEW s, NEW map, Linked(cons, s, map), NEW k \in DOMAIN cons
  PROVE  /\ k \in Nat
         /\ N!IsMedia(cons[k]) =>
              \E i \in Nat : MediaAt(cons, s, map, k, i)
         /\ ~N!IsMedia(cons[k]) =>
              \E i \in Nat : AgainAt(cons, k, i) /\ MediaAt(cons, s, map, 2 * i, i)
<1>1. ASSUME NEW i, MediaAt(cons, s, map, k, i) PROVE N!IsMedia(cons[k])
  BY <1>1 DEF MediaAt, N!IsMedia, N!Codec
<1>2. ASSUME NEW i, AgainAt(cons, k, i) PROVE ~N!IsMedia(cons[k])
  BY <1>2 DEF AgainAt, N!IsMedia
<1>3. /\ k \in Nat
      /\ \E i \in Nat : \/ MediaAt(cons, s, map, k, i)
                        \/ AgainAt(cons, k, i) /\ MediaAt(cons, s, map, 2 * i, i)
  BY DEF Linked
<1> QED BY <1>1, <1>2, <1>3

LEMMA OfOneType ==
  ASSUME TypesOnce(caps), NEW cons, NEW s, NEW map, Linked(cons, s, map),
         NEW k \in DOMAIN cons, NEW i, MediaAt(cons, s, map, k, i),
         NEW l \in DOMAIN cons, cons[l].pt = cons[k].pt
  PROVE  cons[l].fmt = cons[k].fmt
<1>1. PICK a \in DOMAIN caps : cons[k].fmt = caps[a].fmt /\ cons[k].pt = caps[a].pt
  BY DEF MediaAt, N!Codec
<1>2. \E b \in DOMAIN caps : cons[l].fmt = caps[b].fmt /\ cons[l].pt = caps[b].pt
  <2>1. CASE N!IsMedia(cons[l])
    <3>1. PICK j \in Nat : MediaAt(cons, s, map, l, j)
      BY <2>1, PlaceIs
    <3> QED BY <3>1 DEF MediaAt, N!Codec
  <2>2. CASE ~N!IsMedia(cons[l])
    <3>1. PICK j \in Nat : AgainAt(cons, l, j)
      BY <2>2, PlaceIs
    <3> QED BY <3>1 DEF AgainAt
  <2> QED BY <2>1, <2>2
<1> QED BY <1>1, <1>2 DEF TypesOnce

\* What is left for who plays some formats.
Played(cons, fmts) == {i \in DOMAIN cons : N!Plays(fmts, cons[i])}
LeftFor(cons, fmts) ==
  {i \in Played(cons, fmts) : \/ N!IsMedia(cons[i])
                              \/ \E j \in Played(cons, fmts) : cons[j].pt = cons[i].apt}

LEMMA SanitizedIs ==
  ASSUME NEW cons, NEW fmts, NEW list,
         list = N!Sanitized(N!Restrict(cons, {i \in DOMAIN cons : N!Plays(fmts, cons[i])}))
  PROVE  DOMAIN list = LeftFor(cons, fmts) /\ \A i \in LeftFor(cons, fmts) : list[i] = cons[i]
<1>1. PICK played : played = Played(cons, fmts)
  OBVIOUS
<1>2. PICK w : w = [i \in played |-> cons[i]]
  OBVIOUS
<1>3. list = N!Sanitized(w)
  BY <1>1, <1>2 DEF N!Restrict, Played
<1>4. list = [k \in {i \in DOMAIN w : \/ N!IsMedia(w[i])
                                      \/ \E j \in DOMAIN w : w[j].pt = w[i].apt} |-> w[k]]
  BY <1>3 DEF N!Sanitized, N!Restrict
<1>5. DOMAIN w = played /\ \A i \in played : w[i] = cons[i]
  BY <1>2
<1>6. {i \in DOMAIN w : \/ N!IsMedia(w[i])
                        \/ \E j \in DOMAIN w : w[j].pt = w[i].apt} = LeftFor(cons, fmts)
  <2>1. \A i \in played : (\E j \in DOMAIN w : w[j].pt = w[i].apt)
                            <=> (\E j \in played : cons[j].pt = cons[i].apt)
    BY <1>5
  <2>2. \A i \in played : N!IsMedia(w[i]) <=> N!IsMedia(cons[i])
    BY <1>5
  <2> QED BY <1>1, <1>5, <2>1, <2>2 DEF LeftFor
<1>7. LeftFor(cons, fmts) \subseteq played
  BY <1>1 DEF LeftFor
<1> QED BY <1>4, <1>5, <1>6, <1>7

\* Repetitions that are left follow what they repeat.
LEMMA LeftFollow ==
  ASSUME TypesOnce(caps), NEW cons, NEW s, NEW map, Linked(cons, s, map),
         NEW fmts, NEW k \in LeftFor(cons, fmts), ~N!IsMedia(cons[k])
  PROVE  \E i \in Nat : /\ k = 2 * i + 1 /\ 2 * i \in LeftFor(cons, fmts)
                        /\ N!IsMedia(cons[2 * i]) /\ cons[2 * i].pt = cons[k].apt
<1>1. k \in DOMAIN cons
  BY DEF LeftFor, Played
<1>2. PICK i \in Nat : AgainAt(cons, k, i) /\ MediaAt(cons, s, map, 2 * i, i)
  BY <1>1, PlaceIs
<1>3. k = 2 * i + 1 /\ 2 * i \in DOMAIN cons /\ cons[k].apt = cons[2 * i].pt
  BY <1>2 DEF AgainAt
<1>4. PICK j \in Played(cons, fmts) : cons[j].pt = cons[k].apt
  BY DEF LeftFor
<1>5. cons[j].fmt = cons[2 * i].fmt
  <2>1. j \in DOMAIN cons
    BY DEF Played
  <2> QED BY <1>2, <1>3, <1>4, <2>1, OfOneType
<1>6. 2 * i \in Played(cons, fmts)
  BY <1>3, <1>5 DEF Played, N!Plays
<1>7. N!IsMedia(cons[2 * i])
  BY <1>2 DEF MediaAt, N!IsMedia, N!Codec
<1> QED BY <1>3, <1>6, <1>7 DEF LeftFor

\* So the first codec that is left is a media codec wherever there is one.
LEMMA FirstIsMedia ==
  ASSUME TypesOnce(caps), NEW cons, NEW s, NEW map, Linked(cons, s, map),
         NEW fmts, NEW list, DOMAIN list = LeftFor(cons, fmts),
         \A i \in LeftFor(cons, fmts) : list[i] = cons[i]
  PROVE  (\E c \in N!First(list, LAMBDA c : TRUE) : N!IsMedia(c))
           <=> \E i \in DOMAIN cons : N!IsMedia(cons[i]) /\ N!Plays(fmts, cons[i])
<1>1. PICK left : left = LeftFor(cons, fmts)
  OBVIOUS
<1>2. N!First(list, LAMBDA c : TRUE) = {list[i] : i \in {i \in left : \A j \in left : i <= j}}
  BY <1>1 DEF N!First
<1>3. left \in SUBSET Nat /\ left \subseteq DOMAIN cons
  BY <1>1, PlaceIs DEF LeftFor, Played
<1>4. ASSUME NEW c \in N!First(list, LAMBDA c : TRUE), N!IsMedia(c)
      PROVE  \E i \in DOMAIN cons : N!IsMedia(cons[i]) /\ N!Plays(fmts, cons[i])
  <2>1. PICK i \in left : c = list[i]
    BY <1>2
  <2>2. list[i] = cons[i] /\ i \in DOMAIN cons /\ N!Plays(fmts, cons[i])
    BY <1>1 DEF LeftFor, Played
  <2> QED BY <1>4, <2>1, <2>2
<1>5. ASSUME NEW i \in DOMAIN cons, N!IsMedia(cons[i]), N!Plays(fmts, cons[i])
      PROVE  \E c \in N!First(list, LAMBDA c : TRUE) : N!IsMedia(c)
  <2>1. i \in left
    BY <1>1, <1>5 DEF LeftFor, Played
  <2>2. PICK k \in left : \A j \in left : k <= j
    BY <1>3, <2>1, LeastNat
  <2>3. list[k] \in N!First(list, LAMBDA c : TRUE) /\ list[k] = cons[k]
    BY <1>1, <1>2, <2>2
  <2>4. ASSUME ~N!IsMedia(cons[k]) PROVE FALSE
    <3>1. PICK j \in Nat : k = 2 * j + 1 /\ 2 * j \in left
      BY <1>1, <2>4, LeftFollow
    <3>2. ~(2 * j + 1 <= 2 * j)
      OBVIOUS
    <3> QED BY <2>2, <3>1, <3>2
  <2> QED BY <2>3, <2>4
<1> QED BY <1>4, <1>5

\* What a consumer of s gets.
PlaysIt(s, map, g) ==
  \A i \in DOMAIN g :
    /\ IF N!IsMedia(g[i].codec)
       THEN \E p \in N!Range(s) :
              /\ p.fmt = g[i].codec.fmt /\ <<p.pt, g[i].codec.pt>> \in map
              /\ \A r \in N!Range(s) :
                   (r.fmt = Rtx /\ r.apt = p.pt) =>
                     \A j \in DOMAIN g :
                       (g[j].codec.fmt = Rtx /\ g[j].codec.apt = g[i].codec.pt)
                         => <<r.pt, g[j].codec.pt>> \in map
       ELSE \E j \in DOMAIN g : N!IsMedia(g[j].codec) /\ g[j].codec.pt = g[i].codec.apt
    /\ ~({"transport-cc", "goog-remb"} \subseteq g[i].fb)

LEMMA ReducedIs ==
  ASSUME NEW fb, NEW ext PROVE ~({"transport-cc", "goog-remb"} \subseteq N!Reduced(fb, ext))
BY DEF N!Reduced

LEMMA PlaysProducer ==
  ASSUME TypesOnce(caps), NEW cons, NEW s, NEW map, Linked(cons, s, map),
         NEW fmts, NEW g, DOMAIN g = LeftFor(cons, fmts),
         \A i \in DOMAIN g : /\ g[i].codec = cons[i]
                             /\ ~({"transport-cc", "goog-remb"} \subseteq g[i].fb)
  PROVE  PlaysIt(s, map, g)
<1>1. LeftFor(cons, fmts) \subseteq DOMAIN cons
  BY DEF LeftFor, Played
<1>2. ASSUME NEW i \in DOMAIN g, N!IsMedia(g[i].codec)
      PROVE  \E p \in N!Range(s) :
              /\ p.fmt = g[i].codec.fmt /\ <<p.pt, g[i].codec.pt>> \in map
              /\ \A r \in N!Range(s) :
                   (r.fmt = Rtx /\ r.apt = p.pt) =>
                     \A j \in DOMAIN g :
                       (g[j].codec.fmt = Rtx /\ g[j].codec.apt = g[i].codec.pt)
                         => <<r.pt, g[j].codec.pt>> \in map
  <2>1. i \in DOMAIN cons /\ g[i].codec = cons[i]
    BY <1>1
  <2>2. PICK x \in Nat : MediaAt(cons, s, map, i, x)
    BY <1>2, <2>1, PlaceIs
  <2>3. x \in DOMAIN s /\ s[x].fmt = cons[i].fmt /\ <<s[x].pt, cons[i].pt>> \in map
    BY <2>2 DEF MediaAt, N!Codec
  <2>4. ASSUME NEW r \in DOMAIN s, s[r].fmt = Rtx, s[r].apt = s[x].pt,
               NEW j \in DOMAIN g, g[j].codec.fmt = Rtx, g[j].codec.apt = g[i].codec.pt
        PROVE  <<s[r].pt, g[j].codec.pt>> \in map
    <3>1. j \in DOMAIN cons /\ g[j].codec = cons[j]
      BY <1>1
    <3> QED BY <2>1, <2>2, <2>3, <2>4, <3>1 DEF Linked
  <2>5. s[x] \in N!Range(s)
    BY <2>3 DEF N!Range
  <2>6. ASSUME NEW r \in N!Range(s), r.fmt = Rtx, r.apt = s[x].pt,
               NEW j \in DOMAIN g, g[j].codec.fmt = Rtx, g[j].codec.apt = g[i].codec.pt
        PROVE  <<r.pt, g[j].codec.pt>> \in map
    <3>1. PICK y \in DOMAIN s : r = s[y]
      BY DEF N!Range
    <3> QED BY <2>4, <2>6, <3>1
  <2>7. s[x].fmt = g[i].codec.fmt /\ <<s[x].pt, g[i].codec.pt>> \in map
    BY <2>1, <2>3
  <2> QED BY <2>5, <2>6, <2>7
<1>3. ASSUME NEW i \in DOMAIN g, ~N!IsMedia(g[i].codec)
      PROVE  \E j \in DOMAIN g : N!IsMedia(g[j].codec) /\ g[j].codec.pt = g[i].codec.apt
  <2>1. i \in LeftFor(cons, fmts) /\ g[i].codec = cons[i]
    OBVIOUS
  <2>2. PICK x \in Nat : /\ 2 * x \in LeftFor(cons, fmts) /\ N!IsMedia(cons[2 * x])
                         /\ cons[2 * x].pt = cons[i].apt
    BY <1>3, <2>1, LeftFollow
  <2> QED BY <2>1, <2>2
<1> QED BY <1>2, <1>3 DEF PlaysIt

-----------------------------------------------------------------------------
\* What a behaviour of the negotiation keeps.
RouterApt == caps \in Seq(CodecRec) /\ TypesOnce(caps)
Consumed == device.fmts # <<>> => (N!CanConsume(device) <=> at = "done")

NegotiationInv ==
  /\ Configured
  /\ at \in {"router", "producer", "consumer"} => device.fmts = <<>>
  /\ N!ConfiguredFirst =>
       /\ RouterApt /\ Consumed
       /\ at = "consumer" => Linked(consumable, params, mapping)
       /\ at = "done" => PlaysIt(params, mapping, got)

LEMMA NegotiationInit == N!Init => NegotiationInv
<1> SUFFICES ASSUME N!Init PROVE NegotiationInv
  OBVIOUS
<1>1. at = "router" /\ caps = <<>> /\ device = [fmts |-> <<>>, fb |-> {}, ext |-> {}]
  BY DEF N!Init
<1>2. Configured
  <2>1. PICK fmts, types :
          /\ fmts \in N!Lists(Format) /\ types \in [DOMAIN fmts -> Types]
          /\ config = [i \in DOMAIN fmts |-> [fmt |-> fmts[i], pt |-> types[i]]]
    BY DEF N!Init
  <2>2. PICK n \in Nat : fmts \in [1..n -> Format] /\ N!IsInjective(fmts)
    BY <2>1 DEF N!Lists
  <2>3. Types \subseteq Nat
    BY PartsAssumption DEF N!NegotiationAssumption
  <2>4. \A i \in 1..n : fmts[i] \in Format /\ types[i] \in Nat
    BY <2>1, <2>2, <2>3
  <2>5. \A i, j \in 1..n : fmts[i] = fmts[j] => i = j
    BY <2>2 DEF N!IsInjective
  <2>6. DOMAIN config = 1..n /\ \A i \in 1..n : config[i].fmt = fmts[i] /\ config[i].pt = types[i]
    BY <2>1, <2>2
  <2>7. \A i \in 1..n : config[i].fmt \in Format /\ config[i].pt \in Nat
    BY <2>4, <2>6
  <2>8. \A i, j \in 1..n : config[i].fmt = config[j].fmt => i = j
    BY <2>5, <2>6
  <2> QED BY ONLY <2>2, <2>6, <2>7, <2>8 DEF Configured
<1>3. RouterApt
  BY <1>1 DEF RouterApt, TypesOnce
<1>4. device.fmts = <<>>
  BY <1>1
<1> QED BY <1>1, <1>2, <1>3, <1>4 DEF NegotiationInv, Consumed

LEMMA ConfigStays ==
  ASSUME config' = config
  PROVE  (Configured' <=> Configured) /\ (N!ConfiguredFirst' <=> N!ConfiguredFirst)
BY DEF Configured, N!ConfiguredFirst, N!OwnType

LEMMA LinkedStays ==
  ASSUME caps' = caps, Linked(consumable', params', mapping')
  PROVE  Linked(consumable, params, mapping)'
BY DEF Linked, MediaAt, AgainAt

LEMMA NegotiationStep == NegotiationInv /\ [N!Next]_(N!vars) => NegotiationInv'
<1> SUFFICES ASSUME NegotiationInv, [N!Next]_(N!vars) PROVE NegotiationInv'
  OBVIOUS
<1>1. CASE N!MakeRouter
  <2>1. /\ at = "router" /\ at' \in {"producer", "refused"}
        /\ caps' = IF N!Capabilities.ok THEN N!Capabilities.codecs ELSE <<>>
        /\ config' = config /\ device' = device
    BY <1>1 DEF N!MakeRouter
  <2>2. Configured' /\ (N!ConfiguredFirst' <=> N!ConfiguredFirst)
    BY <2>1, ConfigStays DEF NegotiationInv
  <2>3. device'.fmts = <<>>
    BY <2>1 DEF NegotiationInv
  <2>4. ASSUME N!ConfiguredFirst PROVE RouterApt'
    <3>1. N!Capabilities.codecs \in Seq(CodecRec) /\ TypesOnce(N!Capabilities.codecs)
      BY <2>4, CapabilitiesApart DEF NegotiationInv
    <3>2. <<>> \in Seq(CodecRec) /\ TypesOnce(<<>>)
      BY DEF TypesOnce
    <3>3. caps' \in Seq(CodecRec) /\ TypesOnce(caps')
      BY <2>1, <3>1, <3>2
    <3> QED BY <3>3 DEF RouterApt
  <2> QED BY <2>1, <2>2, <2>3, <2>4 DEF NegotiationInv, Consumed
<1>2. CASE N!Produce
  <2>1. at = "producer" /\ config' = config /\ caps' = caps /\ device' = device
    BY <1>2 DEF N!Produce
  <2>2. PICK fmts, repeated, astray, sent, map :
          /\ fmts \in N!Lists(Format) /\ sent = N!Sent(fmts, repeated, astray)
          /\ map = UNION {{<<c.pt, cc.pt>> : cc \in N!MappedTo(c, sent)} : c \in N!Range(sent)}
          /\ params' = sent
          /\ IF \A c \in N!Range(sent) : N!MappedTo(c, sent) # {}
             THEN mapping' = map /\ consumable' = N!Consumable(sent, map) /\ at' = "consumer"
             ELSE at' = "refused"
    BY <1>2 DEF N!Produce
  <2>3. Configured' /\ (N!ConfiguredFirst' <=> N!ConfiguredFirst)
    BY <2>1, ConfigStays DEF NegotiationInv
  <2>4. device'.fmts = <<>> /\ at' \in {"consumer", "refused"}
    BY <2>1, <2>2 DEF NegotiationInv
  <2>5. ASSUME N!ConfiguredFirst PROVE RouterApt /\ RouterApt'
    BY <2>1, <2>5 DEF NegotiationInv, RouterApt
  <2>6. ASSUME N!ConfiguredFirst, at' = "consumer" PROVE Linked(consumable, params, mapping)'
    <3>1. /\ \A c \in N!Range(sent) : N!MappedTo(c, sent) # {}
          /\ mapping' = map /\ consumable' = N!Consumable(sent, map)
      BY <2>2, <2>6
    <3>2. map = MapOf(sent)
      BY <2>2 DEF MapOf
    <3>3. \A i \in DOMAIN sent : /\ i \in Nat /\ sent[i].pt = i
                                 /\ sent[i].fmt = Rtx \/ sent[i].fmt \in Format
      BY <2>2, SentIs
    <3>4. caps \in Seq(CodecRec) /\ TypesOnce(caps)
      BY <2>5, <2>6 DEF RouterApt
    <3>5. Linked(N!Consumable(sent, map), sent, map)
      BY <3>1, <3>2, <3>3, <3>4, ConsumableIs
    <3>6. Linked(consumable', params', mapping')
      BY <2>2, <3>1, <3>5
    <3> QED BY <2>1, <3>6, LinkedStays
  <2>7. Consumed'
    BY <2>4 DEF Consumed
  <2>8. at' # "done" /\ at' # "router" /\ at' # "producer"
    BY <2>4
  <2> QED BY ONLY <2>3, <2>4, <2>5, <2>6, <2>7, <2>8 DEF NegotiationInv
<1>3. CASE N!Consume
  <2>1. /\ at = "consumer" /\ config' = config /\ caps' = caps /\ params' = params
        /\ mapping' = mapping /\ consumable' = consumable
    BY <1>3 DEF N!Consume
  <2>2. PICK fmts, fb, ext : device' = [fmts |-> fmts, fb |-> fb, ext |-> ext]
    BY <1>3 DEF N!Consume
  <2>3. PICK list :
          /\ list = N!Sanitized(N!Restrict(consumable,
                      {i \in DOMAIN consumable : N!Plays(device'.fmts, consumable[i])}))
          /\ IF \A c \in N!First(list, LAMBDA c : TRUE) : ~N!IsMedia(c)
             THEN at' = "refused"
             ELSE /\ got' = [i \in DOMAIN list |->
                              [codec |-> list[i], fb |-> N!Reduced(device'.fb, device'.ext)]]
                  /\ at' = "done"
    BY <1>3 DEF N!Consume
  <2>4. Configured' /\ (N!ConfiguredFirst' <=> N!ConfiguredFirst) /\ at' \in {"refused", "done"}
    BY <2>1, <2>3, ConfigStays DEF NegotiationInv
  <2>5. device'.fmts = fmts
    BY <2>2
  <2>6. DOMAIN list = LeftFor(consumable, fmts) /\ \A i \in LeftFor(consumable, fmts) : list[i] = consumable[i]
    BY <2>3, <2>5, SanitizedIs
  <2>7. ASSUME N!ConfiguredFirst PROVE RouterApt' /\ TypesOnce(caps) /\ Linked(consumable, params, mapping)
    BY <2>1, <2>7 DEF NegotiationInv, RouterApt
  <2>8. ASSUME N!ConfiguredFirst PROVE Consumed'
    <3>1. at' = "done" <=> \E c \in N!First(list, LAMBDA c : TRUE) : N!IsMedia(c)
      BY <2>3
    <3>2. (\E c \in N!First(list, LAMBDA c : TRUE) : N!IsMedia(c))
            <=> \E i \in DOMAIN consumable : N!IsMedia(consumable[i]) /\ N!Plays(fmts, consumable[i])
      BY <2>6, <2>7, <2>8, FirstIsMedia
    <3>3. N!CanConsume(device)' <=>
            \E i \in DOMAIN consumable : N!IsMedia(consumable[i]) /\ N!Plays(fmts, consumable[i])
      BY <2>1, <2>5 DEF N!CanConsume
    <3> QED BY <3>1, <3>2, <3>3 DEF Consumed
  <2>9. ASSUME N!ConfiguredFirst, at' = "done" PROVE PlaysIt(params', mapping', got')
    <3>1. PICK g : g = got'
      OBVIOUS
    <3>2. PICK less : less = N!Reduced(device'.fb, device'.ext)
      OBVIOUS
    <3>3. g = [i \in DOMAIN list |-> [codec |-> list[i], fb |-> less]]
      BY <2>3, <2>9, <3>1, <3>2
    <3>4. ~({"transport-cc", "goog-remb"} \subseteq less)
      BY <3>2, ReducedIs
    <3>5. DOMAIN g = LeftFor(consumable, fmts)
          /\ \A i \in DOMAIN g : /\ g[i].codec = consumable[i]
                                 /\ ~({"transport-cc", "goog-remb"} \subseteq g[i].fb)
      BY <2>6, <3>3, <3>4
    <3>6. PlaysIt(params, mapping, g)
      BY <2>7, <2>9, <3>5, PlaysProducer
    <3> QED BY <2>1, <3>1, <3>6
  <2> QED BY <2>4, <2>7, <2>8, <2>9 DEF NegotiationInv
<1>4. CASE UNCHANGED N!vars
  <2>1. /\ config' = config /\ caps' = caps /\ params' = params /\ mapping' = mapping
        /\ consumable' = consumable /\ device' = device /\ got' = got /\ at' = at
    BY <1>4 DEF N!vars
  <2>2. (Configured' <=> Configured) /\ (N!ConfiguredFirst' <=> N!ConfiguredFirst)
    BY <2>1, ConfigStays
  <2>3. (RouterApt' <=> RouterApt) /\ (Consumed' <=> Consumed)
    BY <2>1 DEF RouterApt, Consumed, N!CanConsume
  <2>4. /\ at' \in {"router", "producer", "consumer"} => device'.fmts = <<>>
        /\ N!ConfiguredFirst =>
             /\ at' = "consumer" => Linked(consumable, params, mapping)'
             /\ at' = "done" => PlaysIt(params', mapping', got')
    <3>1. ASSUME N!ConfiguredFirst, at' = "consumer" PROVE Linked(consumable, params, mapping)'
      <4>1. Linked(consumable', params', mapping')
        BY <2>1, <3>1 DEF NegotiationInv
      <4> QED BY <2>1, <4>1, LinkedStays
    <3> QED BY <2>1, <3>1 DEF NegotiationInv
  <2>5. Configured /\ (N!ConfiguredFirst => RouterApt /\ Consumed)
    BY DEF NegotiationInv
  <2> QED BY ONLY <2>2, <2>3, <2>4, <2>5 DEF NegotiationInv
<1> QED BY <1>1, <1>2, <1>3, <1>4 DEF N!Next

LEMMA NegotiationShows ==
  NegotiationInv => N!TypesApart /\ N!CanConsumeIsConsumed /\ N!ConsumerPlaysProducer
<1> SUFFICES ASSUME NegotiationInv
             PROVE  N!TypesApart /\ N!CanConsumeIsConsumed /\ N!ConsumerPlaysProducer
  OBVIOUS
<1>1. N!TypesApart
  BY DEF NegotiationInv, RouterApt, TypesOnce, N!TypesApart
<1>2. N!CanConsumeIsConsumed
  BY DEF NegotiationInv, Consumed, N!CanConsumeIsConsumed
<1>3. N!ConsumerPlaysProducer
  <2> SUFFICES ASSUME at = "done", N!ConfiguredFirst, NEW list, list = [i \in DOMAIN got |-> got[i].codec]
               PROVE  \A i \in DOMAIN list :
          /\ IF N!IsMedia(list[i])
             THEN \E s \in N!Range(params) :
                    /\ s.fmt = list[i].fmt /\ <<s.pt, list[i].pt>> \in mapping
                    /\ \A r \in N!Range(params) :
                         (r.fmt = Rtx /\ r.apt = s.pt) =>
                           \A c \in N!Range(list) :
                             (c.fmt = Rtx /\ c.apt = list[i].pt) => <<r.pt, c.pt>> \in mapping
             ELSE \E c \in N!Range(list) : N!IsMedia(c) /\ c.pt = list[i].apt
          /\ ~({"transport-cc", "goog-remb"} \subseteq got[i].fb)
    BY DEF N!ConsumerPlaysProducer
  <2>1. PlaysIt(params, mapping, got)
    BY DEF NegotiationInv
  <2>2. DOMAIN list = DOMAIN got /\ \A i \in DOMAIN got : list[i] = got[i].codec
    OBVIOUS
  <2>3. ASSUME NEW i \in DOMAIN got, N!IsMedia(got[i].codec)
        PROVE  \E s \in N!Range(params) :
                 /\ s.fmt = list[i].fmt /\ <<s.pt, list[i].pt>> \in mapping
                 /\ \A r \in N!Range(params) :
                      (r.fmt = Rtx /\ r.apt = s.pt) =>
                        \A c \in N!Range(list) :
                          (c.fmt = Rtx /\ c.apt = list[i].pt) => <<r.pt, c.pt>> \in mapping
    <3>1. PICK s \in N!Range(params) :
              /\ s.fmt = got[i].codec.fmt /\ <<s.pt, got[i].codec.pt>> \in mapping
              /\ \A r \in N!Range(params) :
                   (r.fmt = Rtx /\ r.apt = s.pt) =>
                     \A j \in DOMAIN got :
                       (got[j].codec.fmt = Rtx /\ got[j].codec.apt = got[i].codec.pt)
                         => <<r.pt, got[j].codec.pt>> \in mapping
      BY <2>1, <2>3 DEF PlaysIt
    <3>2. ASSUME NEW r \in N!Range(params), r.fmt = Rtx, r.apt = s.pt,
                 NEW c \in N!Range(list), c.fmt = Rtx, c.apt = list[i].pt
          PROVE  <<r.pt, c.pt>> \in mapping
      <4>1. PICK j \in DOMAIN got : c = got[j].codec
        BY <2>2 DEF N!Range
      <4> QED BY <2>2, <3>1, <3>2, <4>1
    <3> QED BY <2>2, <3>1, <3>2
  <2>4. ASSUME NEW i \in DOMAIN got, ~N!IsMedia(got[i].codec)
        PROVE  \E c \in N!Range(list) : N!IsMedia(c) /\ c.pt = list[i].apt
    <3>1. PICK j \in DOMAIN got : N!IsMedia(got[j].codec) /\ got[j].codec.pt = got[i].codec.apt
      BY <2>1, <2>4 DEF PlaysIt
    <3>2. got[j].codec \in N!Range(list)
      BY <2>2 DEF N!Range
    <3> QED BY <2>2, <3>1, <3>2
  <2>5. \A i \in DOMAIN got : ~({"transport-cc", "goog-remb"} \subseteq got[i].fb)
    BY <2>1 DEF PlaysIt
  <2> QED BY <2>2, <2>3, <2>4, <2>5
<1> QED BY <1>1, <1>2, <1>3

(* Where configured types come first, no two codecs of a router share a type *)
(* and exactly who is said to be able to consume a stream can be made a      *)
(* consumer of it, for every pool of types and every list of formats: the    *)
(* checks of _rct_producer_can_consume and of _rct_consumer_produce_input,   *)
(* which are written apart, come to the same.                                *)
THEOREM WhoCanConsumes ==
  N!Spec => [](CanConsumeIsConsumed /\ N!TypesApart /\ N!CanConsumeIsConsumed)
<1>1. NegotiationInv => CanConsumeIsConsumed /\ N!TypesApart /\ N!CanConsumeIsConsumed
  BY NegotiationShows DEF CanConsumeIsConsumed
<1> QED BY <1>1, NegotiationInit, NegotiationStep, PTL DEF N!Spec

(* And what it plays is what the producer sends, by types of its own.        *)
THEOREM ConsumersPlay == N!Spec => [](ConsumerPlaysProducer /\ N!ConsumerPlaysProducer)
<1>1. NegotiationInv => ConsumerPlaysProducer /\ N!ConsumerPlaysProducer
  BY NegotiationShows DEF ConsumerPlaysProducer
<1> QED BY <1>1, NegotiationInit, NegotiationStep, PTL DEF N!Spec
=============================================================================
