---------------------------- MODULE RoomStreams ----------------------------
(***************************************************************************)
(* Media of the members of one room (rct_room.c): a member has receiving   *)
(* and sending transports, produces streams on the latter, and gets one    *)
(* consumer for each stream of the others on the former.  Who offers a     *)
(* stream to whom is decided in two places: by the one who produces it,    *)
(* for the members present, and by the one who asks for the streams there  *)
(* are.  Both decide under the registry lock and create the consumers one  *)
(* by one without it.  Counts and addresses are RctResources's subject:    *)
(* here a resource is registered while it is open or something refers to   *)
(* it, and no id is used twice.                                            *)
(***************************************************************************)
EXTENDS Naturals, Sequences, FiniteSets, SequencesExt

CONSTANTS Member, Sender,   \* members, and those who may send (a meeting: all)
          Recv, Send,       \* ids of receiving and of sending transports
          Producer, Consumer, None,
          Ask,         \* the directions that the browser of each member may ask for
          MaxTroubles  \* bound on failed creations

ASSUME RoomStreamsAssumption ==
  /\ Sender \subseteq Member
  /\ \A S \in {Member, Recv, Send, Producer, Consumer} : IsFiniteSet(S) /\ None \notin S
  /\ Recv \cap Send = {} /\ Producer \cap Consumer = {}
  /\ (Recv \cup Send) \cap (Producer \cup Consumer) = {}
  /\ Ask \in [Member -> SUBSET SUBSET {"recv", "send"}]
  /\ MaxTroubles \in Nat

VARIABLES
  members,   \* room->members
  left,      \* members that were closed
  refs,      \* member->resource_refs; _map_resource_member is its inverse
  recvs,     \* the receiving transports among them, the newest first
  st,        \* state of every resource
  up,        \* a transport's member, a producer's transport, a consumer's producer
  via,       \* the receiving transport of a consumer
  request,   \* what the handler of each member's session is doing
  closes,    \* close events on their way to the event thread
  hand,      \* the event thread: what it collects from, what it drops
  acquired,  \* history: members that asked for the streams on their transport
  missed,    \* history: consumers that could not be created
  failed     \* creations that failed so far

vars == <<members, left, refs, recvs, st, up, via, request, closes, hand, acquired, missed, failed>>

Transport == Recv \cup Send
Res == Transport \cup Producer \cup Consumer

Idle == [do |-> "idle"]

\* A consumer on its way: for whom, of what and whose, where, its id if any.
Offer == [to : Member, p : Producer, of : Member, t : Recv, c : Consumer \cup {None}]

ASSUME NoneAssumption == None \notin Offer

Request ==
  {Idle}
    \cup [do : {"init"}, want : SUBSET {"recv", "send"}, made : SUBSET Transport]
    \cup [do : {"produce"}, t : Send, p : Producer]
    \cup [do : {"offer"}, todo : SUBSET (Member \X Producer), now : {None} \cup Offer,
          pin : {None} \cup Producer]

TypeOK ==
  /\ members \subseteq Member /\ left \subseteq Member
  /\ refs \in [Member -> SUBSET Res]
  /\ recvs \in [Member -> Seq(Recv)]
  /\ st \in [Res -> {"free", "open", "closed"}]
  /\ up \in [Res -> Member \cup Res \cup {None}]
  /\ via \in [Consumer -> Recv \cup {None}]
  /\ request \in [Member -> Request]
  /\ closes \subseteq Res
  /\ hand \in [from : Res \cup {None}, ids : Seq(Res)]
  /\ acquired \in [Member -> BOOLEAN]
  /\ missed \subseteq Member \X Producer
  /\ failed \in 0..MaxTroubles

Init ==
  /\ members = {} /\ left = {}
  /\ refs = [m \in Member |-> {}] /\ recvs = [m \in Member |-> <<>>]
  /\ st = [r \in Res |-> "free"] /\ up = [r \in Res |-> None]
  /\ via = [c \in Consumer |-> None]
  /\ request = [m \in Member |-> Idle]
  /\ closes = {} /\ hand = [from |-> None, ids |-> <<>>]
  /\ acquired = [m \in Member |-> FALSE] /\ missed = {}
  /\ failed = 0
-----------------------------------------------------------------------------
(* What is found by its id.                                                *)

Now(x) == IF request[x].do = "offer" THEN request[x].now ELSE None

Referenced(r) == \E m \in Member : r \in refs[m]

ConsumerFound(c) ==
  \/ st[c] = "open"
  \/ Referenced(c)
  \/ \E x \in Member : Now(x) # None /\ Now(x).c = c

ProducerFound(p) ==
  \/ st[p] = "open"
  \/ Referenced(p)
  \/ \E x \in Member : \/ request[x].do = "produce" /\ request[x].p = p
                       \/ request[x].do = "offer" /\ request[x].pin = p
  \/ \E c \in Consumer : up[c] = p /\ ConsumerFound(c)

TransportFound(t) ==
  \/ st[t] = "open"
  \/ Referenced(t)
  \/ \E x \in Member : request[x].do = "produce" /\ request[x].t = t
  \/ \E p \in Producer : up[p] = t /\ ProducerFound(p)
  \/ \E c \in Consumer : via[c] = t /\ ConsumerFound(c)

Found(r) == \/ r \in Consumer /\ ConsumerFound(r)
            \/ r \in Producer /\ ProducerFound(r)
            \/ r \in Transport /\ TransportFound(r)

\* The requests that hold a member: its own, unless it asks for the streams of
\* the others, and those that create a consumer for it or of its stream.
\* Mutant: transports_init only has the member's id.
HeldByOffers(m) ==
  \/ request[m].do = "produce"
  \/ request[m].do = "offer" /\ request[m].pin # None
  \/ \E x \in Member : Now(x) # None /\ m \in {Now(x).to, Now(x).of}
Held(m) ==
  \/ request[m].do \in {"init", "produce"}
  \/ request[m].do = "offer" /\ request[m].pin # None
  \/ \E x \in Member : Now(x) # None /\ m \in {Now(x).to, Now(x).of}

MemberFound(m) == m \in members \/ Held(m)

\* _member_dispose_lk, in the step that takes the last hold of a closed member:
\* its references go and a task closes its transports.
Settle(refsNow, queue) ==
  LET gone == {m \in Member : m \in left' /\ ~Held(m)'}
  IN  /\ refs' = [m \in Member |-> IF m \in gone THEN {} ELSE refsNow[m]]
      /\ closes' = queue \cup (Transport \cap UNION {refsNow[m] : m \in gone})

\* Ids are alike: one that was never used.
IsFresh(r, S) == st[r] = "free" /\ r = CHOOSE x \in S : st[x] = "free"

\* A creation fails: it had to, or it is one of a bounded number.
Trouble(forced) ==
  IF forced THEN UNCHANGED failed ELSE failed < MaxTroubles /\ failed' = failed + 1

With(m, R) == [refs EXCEPT ![m] = @ \cup R]
Become(x, r) == request' = [request EXCEPT ![x] = r]
-----------------------------------------------------------------------------
Join(m) ==
  /\ m \notin members \cup left
  /\ members' = members \cup {m}
  /\ UNCHANGED <<left, refs, recvs, st, up, via, request, closes, hand, acquired, missed, failed>>

\* A session leaves, is closed or replaced, whatever its request is doing.
Leave(m) ==
  /\ m \in members
  /\ members' = members \ {m} /\ left' = left \cup {m}
  /\ UNCHANGED request
  /\ Settle(refs, closes)
  /\ UNCHANGED <<recvs, st, up, via, hand, acquired, missed, failed>>

-----------------------------------------------------------------------------
(* transports_init                                                         *)

Directions(t) == IF t \in Recv THEN "recv" ELSE "send"

\* The transports of these directions so far are closed, asynchronously.
InitBegin(m, want) ==
  /\ m \in members /\ request[m] = Idle
  /\ LET dirs == IF m \in Sender THEN want ELSE want \ {"send"}
     IN  /\ Become(m, [do |-> "init", want |-> dirs, made |-> {}])
         /\ closes' = closes
              \cup {t \in refs[m] \cap Transport : Directions(t) \in dirs /\ st[t] = "open"}
         /\ acquired' = [acquired EXCEPT ![m] = @ /\ "recv" \notin dirs]
  /\ UNCHANGED <<members, left, refs, recvs, st, up, via, hand, missed, failed>>

MakeTransport(m, t) ==
  /\ request[m].do = "init" /\ Directions(t) \in request[m].want
  /\ t \in Send => "recv" \notin request[m].want
  /\ IsFresh(t, IF t \in Recv THEN Recv ELSE Send)
  /\ st' = [st EXCEPT ![t] = "open"] /\ up' = [up EXCEPT ![t] = m]
  /\ Become(m, [request[m] EXCEPT !.want = @ \ {Directions(t)}, !.made = @ \cup {t}])
  /\ UNCHANGED <<members, left, refs, recvs, via, closes, hand, acquired, missed, failed>>

\* One of two cannot be created: the one that was is closed.
MakeFails(m) ==
  /\ request[m].do = "init" /\ request[m].want # {}
  /\ Trouble(~\E t \in Transport : st[t] = "free" /\ Directions(t) \in request[m].want)
  /\ Become(m, Idle)
  /\ UNCHANGED left
  /\ Settle(refs, closes \cup request[m].made)
  /\ UNCHANGED <<members, recvs, st, up, via, hand, acquired, missed>>

\* A transport just made goes to the front of the member's references.
\* Mutant: it goes to the end.
AppendRelays(m, T) ==
  [recvs EXCEPT ![m] = IF T = {} THEN @ ELSE Append(@, CHOOSE t \in T : TRUE)]
Unshift(m, T) ==
  [recvs EXCEPT ![m] = IF T = {} THEN @ ELSE <<CHOOSE t \in T : TRUE>> \o @]

InitEnd(m) ==
  /\ request[m].do = "init" /\ request[m].want = {}
  /\ Become(m, Idle)
  /\ UNCHANGED left
  /\ LET good == {t \in request[m].made : TransportFound(t)}
     IN  /\ recvs' = Unshift(m, good \cap Recv)
         /\ Settle(With(m, good), closes)
  /\ UNCHANGED <<members, st, up, via, hand, acquired, missed, failed>>

-----------------------------------------------------------------------------
(* transport_produce                                                       *)

\* The transport may be closed: the member still refers to it.
ProduceBegin(m, t, p) ==
  /\ m \in members /\ request[m] = Idle
  /\ t \in refs[m] \cap Send /\ IsFresh(p, Producer)
  /\ st' = [st EXCEPT ![p] = "open"] /\ up' = [up EXCEPT ![p] = t]
  /\ Become(m, [do |-> "produce", t |-> t, p |-> p])
  /\ UNCHANGED <<members, left, refs, recvs, via, closes, hand, acquired, missed, failed>>

ProduceFails(m) ==
  /\ request[m].do = "produce"
  /\ Trouble(FALSE)
  /\ st' = [st EXCEPT ![request[m].p] = "closed"]
  /\ Become(m, Idle)
  /\ UNCHANGED left
  /\ Settle(refs, closes)
  /\ UNCHANGED <<members, recvs, up, via, hand, acquired, missed>>

\* The members that get the stream without asking.
Audience(m) == members \ {m}

ProduceDone(m) ==
  /\ request[m].do = "produce"
  /\ UNCHANGED left
  /\ LET p == request[m].p
     IN  IF st[p] = "open"
         THEN /\ Become(m, [do |-> "offer", todo |-> Audience(m) \X {p}, now |-> None, pin |-> p])
              /\ Settle(With(m, {p}), closes)
         ELSE /\ Become(m, Idle)
              /\ Settle(refs, closes)
  /\ UNCHANGED <<members, recvs, st, up, via, hand, acquired, missed, failed>>

\* producer_close
CloseProducer(m, p) ==
  /\ request[m] = Idle /\ p \in refs[m] \cap Producer /\ st[p] = "open"
  /\ closes' = closes \cup {p}
  /\ UNCHANGED <<members, left, refs, recvs, st, up, via, request, hand, acquired, missed, failed>>

-----------------------------------------------------------------------------
(* acquire_room_streams, and the consumers that it and produce create      *)

\* _rct_member_findref_by_flag_lk: the first that is open.
Relay(m) ==
  LET open == {i \in DOMAIN recvs[m] : recvs[m][i] \in refs[m] /\ st[recvs[m][i]] = "open"}
  IN  IF open = {} THEN None ELSE recvs[m][CHOOSE i \in open : \A j \in open : i <= j]

Streams(m) ==
  {p \in Producer : st[p] = "open" /\ \E x \in members \ {m} : p \in refs[x]}

\* Once for every receiving transport, as the browser does.
Acquire(m) ==
  /\ m \in members /\ request[m] = Idle /\ ~acquired[m]
  /\ Become(m, [do |-> "offer", todo |-> {m} \X Streams(m), now |-> None, pin |-> None])
  /\ acquired' = [acquired EXCEPT ![m] = Relay(m) # None]
  /\ UNCHANGED <<members, left, refs, recvs, st, up, via, closes, hand, missed, failed>>

OwnersFound(p) == {m \in Member : p \in refs[m] /\ MemberFound(m)}

\* _consumer_create up to the unlock; it ends here if there is no transport or
\* nobody has the producer any more.
OfferBegin(x) ==
  /\ request[x].do = "offer" /\ request[x].now = None
  /\ \E o \in request[x].todo :
       LET rest == [request[x] EXCEPT !.todo = @ \ {o}]
       IN  IF MemberFound(o[1]) /\ OwnersFound(o[2]) # {} /\ Relay(o[1]) # None
           THEN \E m \in OwnersFound(o[2]) :
                  Become(x, [rest EXCEPT !.now =
                    [to |-> o[1], p |-> o[2], of |-> m, t |-> Relay(o[1]), c |-> None]])
           ELSE Become(x, rest)
  /\ UNCHANGED <<members, left, refs, recvs, st, up, via, closes, hand, acquired, missed, failed>>

\* rct_consumer_create2 up to the command: neither parent need be open.
OfferBuild(x, c) ==
  /\ Now(x) # None /\ Now(x).c = None /\ IsFresh(c, Consumer)
  /\ ProducerFound(Now(x).p) /\ TransportFound(Now(x).t)
  /\ st' = [st EXCEPT ![c] = "open"]
  /\ up' = [up EXCEPT ![c] = Now(x).p] /\ via' = [via EXCEPT ![c] = Now(x).t]
  /\ Become(x, [request[x] EXCEPT !.now.c = c])
  /\ UNCHANGED <<members, left, refs, recvs, closes, hand, acquired, missed, failed>>

\* Cannot consume, a parent is gone, or the worker refuses.
OfferFails(x) ==
  /\ Now(x) # None
  /\ Trouble(\/ ~ProducerFound(Now(x).p) \/ ~TransportFound(Now(x).t)
             \/ Now(x).c = None /\ ~\E c \in Consumer : st[c] = "free")
  /\ st' = [r \in Res |-> IF r = Now(x).c THEN "closed" ELSE st[r]]
  /\ Become(x, [request[x] EXCEPT !.now = None])
  /\ missed' = missed \cup {<<Now(x).to, Now(x).p>>}
  /\ UNCHANGED left
  /\ Settle(refs, closes)
  /\ UNCHANGED <<members, recvs, up, via, hand, acquired>>

\* The consumer is found again, unless it was closed, and is the member's.
OfferDone(x) ==
  /\ Now(x) # None /\ Now(x).c # None
  /\ Become(x, [request[x] EXCEPT !.now = None])
  /\ UNCHANGED left
  /\ Settle(IF st[Now(x).c] = "open" THEN With(Now(x).to, {Now(x).c}) ELSE refs, closes)
  /\ UNCHANGED <<members, recvs, st, up, via, hand, acquired, missed, failed>>

OfferEnd(x) ==
  /\ request[x].do = "offer" /\ request[x].todo = {} /\ request[x].now = None
  /\ Become(x, Idle)
  /\ UNCHANGED left
  /\ Settle(refs, closes)
  /\ UNCHANGED <<members, recvs, st, up, via, hand, acquired, missed, failed>>

-----------------------------------------------------------------------------
(* The event thread: the registry's handler, then the rooms'.              *)

\* What a close reaches: nothing through what is closed already.
Reached(r) ==
  LET ps == {p \in Producer : st[p] = "open" /\ (p = r \/ up[p] = r)}
  IN  IF st[r] # "open" THEN {}
      ELSE {r} \cup ps \cup {c \in Consumer : st[c] = "open" /\ (up[c] \in ps \/ via[c] = r)}

EventClose(r) ==
  /\ hand = [from |-> None, ids |-> <<>>] /\ r \in closes
  /\ closes' = closes \ {r}
  /\ st' = [x \in Res |-> IF x \in Reached(r) THEN "closed" ELSE st[x]]
  /\ hand' = [from |-> r, ids |-> <<>>]
  /\ UNCHANGED <<members, left, refs, recvs, up, via, request, acquired, missed, failed>>

\* _collect_dependent_resource_ids_lk: not the consumers on a receiving transport.
Dependents(r) ==
  LET ps == {p \in Producer : ProducerFound(p) /\ (p = r \/ up[p] = r)}
  IN  ps \cup {c \in Consumer : ConsumerFound(c) /\ up[c] \in ps}

EventCollect ==
  /\ hand.from # None
  /\ hand' = [from |-> None,
              ids |-> <<hand.from>> \o
                IF Found(hand.from) THEN SetToSeq(Dependents(hand.from)) ELSE <<>>]
  /\ UNCHANGED <<members, left, refs, recvs, st, up, via, request, closes, acquired, missed, failed>>

\* _on_resource_closed, for one of them: the member is told and forgets it.
EventDrop ==
  /\ hand.ids # <<>>
  /\ hand' = [hand EXCEPT !.ids = Tail(@)]
  /\ refs' = [m \in Member |-> refs[m] \ {Head(hand.ids)}]
  /\ UNCHANGED <<members, left, recvs, st, up, via, request, closes, acquired, missed, failed>>

Event == \/ \E r \in Res : EventClose(r)
         \/ EventCollect
         \/ EventDrop

Step(m) ==
  \/ \E t \in Transport : MakeTransport(m, t)
  \/ MakeFails(m) \/ InitEnd(m)
  \/ ProduceFails(m) \/ ProduceDone(m)
  \/ OfferBegin(m) \/ OfferFails(m) \/ OfferDone(m) \/ OfferEnd(m)
  \/ \E c \in Consumer : OfferBuild(m, c)

Next ==
  \/ \E m \in Member :
       \/ Join(m) \/ Leave(m) \/ Step(m) \/ Acquire(m)
       \/ \E want \in Ask[m] : InitBegin(m, want)
       \/ \E t \in Send, p \in Producer : ProduceBegin(m, t, p)
       \/ \E p \in Producer : CloseProducer(m, p)
  \/ Event

Spec == Init /\ [][Next]_vars

-----------------------------------------------------------------------------
Pending(m, p) ==
  \E x \in Member : request[x].do = "offer" /\
    \/ <<m, p>> \in request[x].todo
    \/ request[x].now # None /\ request[x].now.to = m /\ request[x].now.p = p

(* Whoever has asked for the streams on its receiving transport has, or is  *)
(* about to get, a consumer there for every open stream of the others, be   *)
(* it offered by the one who produces or found by the one who asks, unless  *)
(* its creation failed.  Hazard: the two lists are made at different times, *)
(* members come and transports are replaced in between.                     *)
StreamsReach ==
  \A m \in members, p \in Producer :
    (acquired[m] /\ Relay(m) # None /\ Relay(m) \notin closes
     /\ p \in Streams(m) /\ ~Pending(m, p) /\ <<m, p>> \notin missed)
      => \E c \in Consumer : st[c] = "open" /\ up[c] = p /\ via[c] = Relay(m)

(* The transports that were made for a member are closed once it has left,  *)
(* or about to be, those its last request was still making included.        *)
(* Hazard: the member is found and held by its requests after it has left.  *)
LeaversClosed ==
  \A t \in Transport :
    (st[t] = "open" /\ up[t] \in left) => t \in closes \/ Held(up[t])
=============================================================================
