---------------------------- MODULE Negotiation ----------------------------
(***************************************************************************)
(* What one browser sends and another gets: the codecs of a router are     *)
(* made of the configured ones (rct_router.c), those that a producer sends *)
(* are mapped to them and make the consumable ones (rct_producer.c), and a *)
(* consumer gets of these what its device can play (rct_consumer.c).       *)
(*                                                                         *)
(* A format is what rct_utils_codecs_is_matched tells apart: mime type,    *)
(* clock rate, channels, and the profile where it is strict (see H264).    *)
(* A video format is sent along with retransmissions: a codec of its own,  *)
(* Rtx, whose parameter apt is the payload type of what it repeats.        *)
(***************************************************************************)
EXTENDS Naturals, Sequences, FiniteSets, SequencesExt

CONSTANTS
  Format,    \* media formats
  Known,     \* those that the worker knows
  Video,     \* those that are video
  Rtx,
  Fixed,     \* the fixed payload types of formats, 0: none
  Pool,      \* initial_payloads
  Types,     \* the payload types that may be configured, 0: none
  MaxCodecs  \* bound on the codecs of one side

NegotiationAssumption ==
  /\ Known \subseteq Format /\ Video \subseteq Format /\ Rtx \notin Format
  /\ Pool \in Seq(Nat \ {0}) /\ IsInjective(Pool) /\ Types \subseteq Nat
  /\ Fixed \in [Known -> Nat]
  /\ \A f, g \in Known : Fixed[f] # 0 =>
       /\ Fixed[f] = Fixed[g] => f = g
       /\ \A i \in DOMAIN Pool : Fixed[f] # Pool[i]

VARIABLES
  config,     \* the codecs of g_env.router_optons_json: format, type or 0
  caps,       \* rtp_capabilities of the router
  params,     \* rtp_parameters of the producer: codecs
  mapping,    \* its rtp mapping: payload type to mapped payload type
  consumable, \* its consumable codecs
  device,     \* the capabilities of who consumes: formats, feedback, extensions
  got,        \* the codecs of the consumer
  pc

vars == <<config, caps, params, mapping, consumable, device, got, pc>>

Codec(fmt, pt, apt) == [fmt |-> fmt, pt |-> pt, apt |-> apt]

Feedback == {"transport-cc", "goog-remb", "nack"}
Extension == {"transport-wide-cc", "abs-send-time"}

\* Sequences without repetitions of some elements of S.
Lists(S) == UNION {{s \in [1..n -> S] : IsInjective(s)} : n \in 1..MaxCodecs}

Init ==
  /\ \E fmts \in Lists(Format) : \E types \in [DOMAIN fmts -> Types] :
       config = [i \in DOMAIN fmts |-> [fmt |-> fmts[i], pt |-> types[i]]]
  /\ caps = <<>> /\ params = <<>> /\ mapping = {} /\ consumable = <<>>
  /\ device = [fmts |-> <<>>, fb |-> {}, ext |-> {}] /\ got = <<>>
  /\ pc = "router"
-----------------------------------------------------------------------------
(* rct_router_create_rt_capabilities                                       *)

\* The type that a codec is configured with, or that is fixed for its format.
OwnType(uc) == IF uc.pt = 0 /\ uc.fmt \in Known THEN Fixed[uc.fmt] ELSE uc.pt

\* Mutant: the type is looked at and left in the pool.
WithoutKept(pool, pt) == pool
Without(pool, pt) == RemoveFirst(pool, pt)

\* One configured codec; too many of them end it all.
Merge(acc, uc) ==
  LET own == OwnType(uc)
      short == own = 0 /\ acc.pool = <<>>
      pt == IF own # 0 \/ short THEN own ELSE Head(acc.pool)
      rest == IF uc.pt # 0 THEN Without(acc.pool, uc.pt)
              ELSE IF own # 0 \/ short THEN acc.pool ELSE Tail(acc.pool)
  IN  IF ~acc.ok \/ uc.fmt \notin Known THEN acc
      ELSE IF short \/ (uc.fmt \in Video /\ rest = <<>>) THEN [acc EXCEPT !.ok = FALSE]
      ELSE IF uc.fmt \in Video
           THEN [ok |-> TRUE, pool |-> Tail(rest),
                 codecs |-> acc.codecs \o <<Codec(uc.fmt, pt, 0), Codec(Rtx, Head(rest), pt)>>]
           ELSE [ok |-> TRUE, pool |-> rest, codecs |-> Append(acc.codecs, Codec(uc.fmt, pt, 0))]

Capabilities == FoldLeft(Merge, [ok |-> TRUE, pool |-> Pool, codecs |-> <<>>], config)

MakeRouter ==
  /\ pc = "router"
  /\ caps' = IF Capabilities.ok THEN Capabilities.codecs ELSE <<>>
  /\ pc' = IF Capabilities.ok THEN "producer" ELSE "refused"
  /\ UNCHANGED <<config, params, mapping, consumable, device, got>>
-----------------------------------------------------------------------------
(* _rct_transport_produce_input                                            *)

\* The first codec of a list, in a set of at most one.  Lists may have gaps.
First(list, P(_)) ==
  {list[i] : i \in {i \in DOMAIN list : P(list[i]) /\ \A j \in DOMAIN list : P(list[j]) => i <= j}}

\* What such a set holds.
Only(set) == CHOOSE c \in set : TRUE

IsMedia(c) == c.fmt # Rtx
CapOf(c) == First(caps, LAMBDA cc : cc.fmt = c.fmt)
RtxOf(list, pt) == First(list, LAMBDA cc : cc.fmt = Rtx /\ cc.apt = pt)

\* What a codec of the producer is mapped to.
MappedTo(c, sent) ==
  IF IsMedia(c) THEN CapOf(c)
  ELSE UNION {UNION {RtxOf(caps, m.pt) : m \in IF IsMedia(a) THEN CapOf(a) ELSE {}} :
                a \in First(sent, LAMBDA x : x.pt = c.apt)}

\* What the mapping makes of a codec.
Capability(c, map) ==
  LET to == CHOOSE x \in map : x[1] = c.pt
  IN  Only(First(caps, LAMBDA cc : cc.pt = to[2]))

\* The consumable codecs: each is followed by the router's repetitions of it, whether
\* the producer sends any or not.
Consumable(sent, map) ==
  LET media == {i \in DOMAIN sent : IsMedia(sent[i])}
      cap(i) == Capability(sent[i], map)
      again(i) == RtxOf(caps, cap(i).pt)
  IN  [k \in {2 * i : i \in media} \union {2 * i + 1 : i \in {j \in media : again(j) # {}}} |->
         IF k % 2 = 0 THEN Codec(cap(k \div 2).fmt, cap(k \div 2).pt, 0)
         ELSE Only(again(k \div 2))]

\* What the browser sends: formats, some with repetitions, which may be of a type
\* that is not there.  Types are the browser's own, here the places.
Sent(fmts, repeated, astray) ==
  LET n == Len(fmts)
      again == {n + i : i \in {j \in DOMAIN fmts : fmts[j] \in repeated}}
  IN  [i \in DOMAIN fmts \union again |->
         IF i <= n THEN Codec(fmts[i], i, 0) ELSE Codec(Rtx, i, IF astray THEN 0 ELSE i - n)]

Produce ==
  /\ pc = "producer"
  /\ \E fmts \in Lists(Format), repeated \in SUBSET Video, astray \in BOOLEAN :
       LET sent == Sent(fmts, repeated, astray)
           map == UNION {{<<c.pt, cc.pt>> : cc \in MappedTo(c, sent)} : c \in Range(sent)}
       IN  /\ repeated \subseteq Range(fmts)
           /\ params' = sent
           /\ IF \A c \in Range(sent) : MappedTo(c, sent) # {}
              THEN /\ mapping' = map
                   /\ consumable' = Consumable(sent, map)
                   /\ pc' = "consumer"
              ELSE pc' = "refused" /\ UNCHANGED <<mapping, consumable>>
  /\ UNCHANGED <<config, caps, device, got>>
-----------------------------------------------------------------------------
(* _rct_consumer_produce_input, _rct_producer_can_consume                  *)

Plays(fmts, c) == c.fmt \in Range(fmts)

\* Repetitions of what is not there are removed.
\* Mutant: they stay.
SanitizedNot(list) == list
Sanitized(list) ==
  Restrict(list, {i \in DOMAIN list : \/ IsMedia(list[i])
                                      \/ \E j \in DOMAIN list : list[j].pt = list[i].apt})

\* One way to estimate the bandwidth, by the extension that both have.
Reduced(fb, ext) ==
  IF "transport-wide-cc" \in ext THEN fb \ {"goog-remb"}
  ELSE IF "abs-send-time" \in ext THEN fb \ {"transport-cc"}
  ELSE fb \ {"transport-cc", "goog-remb"}

CanConsume(d) ==
  \E i \in DOMAIN consumable : IsMedia(consumable[i]) /\ Plays(d.fmts, consumable[i])

Consume ==
  /\ pc = "consumer"
  /\ \E fmts \in Lists(Format \cup {Rtx}), fb \in SUBSET Feedback, ext \in SUBSET Extension :
       device' = [fmts |-> fmts, fb |-> fb, ext |-> ext]
  /\ LET played == {i \in DOMAIN consumable : Plays(device'.fmts, consumable[i])}
         codecs == Sanitized(Restrict(consumable, played))
     IN  IF \A c \in First(codecs, LAMBDA c : TRUE) : ~IsMedia(c)
         THEN pc' = "refused" /\ UNCHANGED got
         ELSE /\ got' = [i \in DOMAIN codecs |->
                          [codec |-> codecs[i], fb |-> Reduced(device'.fb, device'.ext)]]
              /\ pc' = "done"
  /\ UNCHANGED <<config, caps, params, mapping, consumable>>

Next == MakeRouter \/ Produce \/ Consume
Spec == Init /\ [][Next]_vars
-----------------------------------------------------------------------------
\* A configured type is given when its codec is reached: it must not have been
\* given from the pool by then, nor be another codec's own.
ConfiguredFirst ==
  \A i, j \in DOMAIN config : config[i].pt # 0 =>
    /\ OwnType(config[j]) = config[i].pt => i = j
    /\ j < i => config[j].pt # 0 /\ config[j].fmt \notin Video

(* Where the configured types come first, no two codecs of a router share a *)
(* payload type: packets of one are never taken for the other.              *)
TypesApart ==
  ConfiguredFirst => \A i, j \in DOMAIN caps : caps[i].pt = caps[j].pt => i = j

(* Who is said to be able to consume a stream can be made a consumer of it, *)
(* and nobody else (unless two codecs of the router share a type).          *)
CanConsumeIsConsumed ==
  (device.fmts # <<>> /\ ConfiguredFirst) => (CanConsume(device) <=> pc = "done")

(* A consumer plays what the producer sends: every media codec it gets is   *)
(* one that its device knows and carries the type that the producer's       *)
(* packets are mapped to, with the repetitions they are mapped to when      *)
(* there are any, and at most one of the ways to estimate the bandwidth.    *)
ConsumerPlaysProducer ==
  (pc = "done" /\ ConfiguredFirst) =>
    LET list == [i \in DOMAIN got |-> got[i].codec]
    IN  \A i \in DOMAIN list :
          /\ IF IsMedia(list[i])
             THEN \E s \in Range(params) :
                    /\ s.fmt = list[i].fmt /\ <<s.pt, list[i].pt>> \in mapping
                    /\ \A r \in Range(params) :
                         (r.fmt = Rtx /\ r.apt = s.pt) =>
                           \A c \in Range(list) :
                             (c.fmt = Rtx /\ c.apt = list[i].pt) => <<r.pt, c.pt>> \in mapping
             ELSE \E c \in Range(list) : IsMedia(c) /\ c.pt = list[i].apt
          /\ ~({"transport-cc", "goog-remb"} \subseteq got[i].fb)
=============================================================================
