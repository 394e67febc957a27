------------------------- MODULE RctResources_proof -------------------------
(***************************************************************************)
(* Proofs about RctResources, for any number of resources and threads:     *)
(* type correctness, and then that reference counts are exact and nothing  *)
(* in use is freed.                                                        *)
(***************************************************************************)
EXTENDS RctResources, FiniteSetTheorems, SequenceTheorems, TLAPS

(***************************************************************************)
(* Type correctness.                                                       *)
(***************************************************************************)

\* Sets of registered resources can be counted.
LEMMA LiveFinite ==
  ASSUME NEW S \in SUBSET Slot
  PROVE  IsFiniteSet(S) /\ Cardinality(S) \in Nat
BY FiniteAssumption, FS_Subset, FS_CardinalityType

\* The queue stays a sequence of events within its limit.
LEMMA PostType ==
  ASSUME NEW q \in Seq(Event), NEW es \in Seq(Event), lost \in BOOLEAN, Post(q, es)
  PROVE  events' \in Seq(Event) /\ Len(events') <= QueueLimit /\ lost' \in BOOLEAN
<1> DEFINE r == q \o es
           n == IF Len(r) <= QueueLimit THEN Len(r) ELSE QueueLimit
<1>1. r \in Seq(Event)
  BY ConcatProperties
<1>2. n \in 0..Len(r) /\ n <= QueueLimit
  BY <1>1, QueueLimitAssumption, LenProperties
<1>3. \A i \in 1..n : r[i] \in Event
  BY <1>1, <1>2, ElementOfSeq
<1>4. SubSeq(r, 1, n) \in Seq(Event) /\ Len(SubSeq(r, 1, n)) = n
  <2> HIDE DEF r, n
  <2> QED BY <1>2, <1>3, SubSeqProperties
<1>5. events' = SubSeq(r, 1, n) /\ lost' = (lost \/ Len(r) > QueueLimit)
  BY DEF Post
<1> QED BY <1>2, <1>4, <1>5

\* What dropping references leaves of the typing of the registry.
LEMMA DropType ==
  ASSUME TypeOK, NEW d \in [Slot -> Int], NEW C, Drop(d, C)
  PROVE  /\ kind' \in [Slot -> Kinds \union {"free"}]
         /\ parent' \in [Slot -> Slot \union {None}]
         /\ via' \in [Slot -> Slot \union {None}]
         /\ refs' \in [Slot -> Int]
         /\ closed' \in [Slot -> BOOLEAN]
         /\ wid' \in [Slot -> 0..MaxWorkers]
<1> PICK gone \in SUBSET Live : Drop(d, C)!(gone)
  BY DEF Drop
<1>1. gone \subseteq Slot
  BY DEF Live
<1>2. \A s \in Slot : Loss(d, gone, s) \in Int
  <2> TAKE s \in Slot
  <2>1. Cardinality({x \in gone : parent[x] = s}) \in Nat
    BY <1>1, LiveFinite
  <2>2. Cardinality({x \in gone : via[x] = s}) \in Nat
    BY <1>1, LiveFinite
  <2> QED BY <2>1, <2>2 DEF Loss
<1>3. refs' \in [Slot -> Int]
  BY <1>2 DEF TypeOK
<1> QED BY <1>3, MaxWorkersAssumption DEF TypeOK

LEMMA TakeType ==
  ASSUME NEW S, NEW n \in Int
  PROVE  Take(S, n) \in [Slot -> Int]
BY DEF Take

\* Registration: what every creation does, whatever it creates.
LEMMA RegisterType ==
  ASSUME TypeOK, NEW t \in Thread, NEW s \in Slot, NEW k \in Kinds,
         NEW p \in Slot \union {None}, NEW q \in Slot \union {None},
         NEW w \in 0..MaxWorkers, Register(t, s, k, p, q, w)
  PROVE  TypeOK'
<1>1. InitRefs \in Int
  BY InitRefsAssumption
<1>2. refs' \in [Slot -> Int]
  BY <1>1 DEF Register, TypeOK
<1>3. pins' \in [Thread -> SUBSET Slot]
  BY DEF Register, TypeOK
<1>4. /\ kind' \in [Slot -> Kinds \union {"free"}]
      /\ parent' \in [Slot -> Slot \union {None}]
      /\ via' \in [Slot -> Slot \union {None}]
      /\ closed' \in [Slot -> BOOLEAN]
      /\ wid' \in [Slot -> 0..MaxWorkers]
  BY DEF Register, TypeOK
<1>5. /\ pc' \in [Thread -> {"idle", "acquired", "sent", "ok", "failed", "unpin"}]
      /\ building' \in [Thread -> Slot \union {None}]
      /\ acquired' \in [Thread -> 0..MaxWorkers]
  BY MaxWorkersAssumption DEF Register, TypeOK
<1>6. UNCHANGED <<held, events, lost, worker, up>>
  BY DEF Register
<1> QED BY <1>2, <1>3, <1>4, <1>5, <1>6 DEF TypeOK

LEMMA CreateType == ASSUME TypeOK, NEW t \in Thread, Create(t) PROVE TypeOK'
<1>1. CASE AcquireWorker(t)
  <2>1. worker' \in 0..MaxWorkers
    BY <1>1, MaxWorkersAssumption DEF AcquireWorker, TypeOK
  <2>2. up' \in BOOLEAN
    BY <1>1, Zenon DEF AcquireWorker, TypeOK
  <2> QED BY <1>1, <2>1, <2>2 DEF AcquireWorker, TypeOK
<1>2. ASSUME NEW s \in Slot, CreateRouter(t, s) PROVE TypeOK'
  <2>1. acquired[t] \in 0..MaxWorkers /\ "router" \in Kinds
    BY DEF TypeOK, Kinds
  <2> QED BY <1>2, <2>1, RegisterType DEF CreateRouter
<1>3. ASSUME NEW s \in Slot, NEW p \in Slot, NEW k \in {"transport", "observer"},
             CreateOnRouter(t, s, k, p)
      PROVE TypeOK'
  <2>1. wid[p] \in 0..MaxWorkers /\ k \in Kinds
    BY DEF TypeOK, Kinds
  <2> QED BY <1>3, <2>1, RegisterType DEF CreateOnRouter
<1>4. ASSUME NEW s \in Slot, NEW p \in Slot, CreateProducer(t, s, p) PROVE TypeOK'
  <2>1. wid[p] \in 0..MaxWorkers /\ "producer" \in Kinds
    BY DEF TypeOK, Kinds
  <2> QED BY <1>4, <2>1, RegisterType DEF CreateProducer
<1>5. ASSUME NEW s \in Slot, NEW p \in Slot, NEW q \in Slot, CreateConsumer(t, s, p, q)
      PROVE TypeOK'
  <2>1. wid[p] \in 0..MaxWorkers /\ "consumer" \in Kinds
    BY DEF TypeOK, Kinds
  <2> QED BY <1>5, <2>1, RegisterType DEF CreateConsumer
<1> QED BY <1>1, <1>2, <1>3, <1>4, <1>5 DEF Create

\* The handling of one event, and what is put into the queue.
LEMMA EventType ==
  ASSUME NEW s \in Slot, NEW w \in 0..MaxWorkers
  PROVE  ClosedEvent(s) \in Event /\ ShutdownEvent(w) \in Event
BY MaxWorkersAssumption DEF ClosedEvent, ShutdownEvent, Event

LEMMA HandleShutdownType == ASSUME TypeOK, HandleShutdown PROVE TypeOK'
<1> DEFINE orphans == {s \in Live : kind[s] = "router" /\ wid[s] = Head(events).wid}
           N == Cardinality(orphans)
<1>1. Tail(events) \in Seq(Event)
  BY HeadTailProperties DEF HandleShutdown, TypeOK
<1>2. orphans \subseteq Slot /\ N \in Nat
  BY LiveFinite DEF Live
<1>3. PICK order \in [1..N -> orphans] :
             Post(Tail(events), [i \in DOMAIN order |-> ClosedEvent(order[i])])
  BY DEF HandleShutdown
<1>4. \A i \in 1..N : ClosedEvent(order[i]) \in Event
  BY <1>2, <1>3, MaxWorkersAssumption DEF ClosedEvent, Event
<1>5. [i \in DOMAIN order |-> ClosedEvent(order[i])] \in Seq(Event)
  <2>1. DOMAIN order = 1..N
    BY <1>3
  <2>2. [i \in 1..N |-> ClosedEvent(order[i])] \in [1..N -> Event]
    BY <1>4
  <2> QED BY <1>2, <2>1, <2>2, SeqDef
<1>6. events' \in Seq(Event) /\ Len(events') <= QueueLimit /\ lost' \in BOOLEAN
  BY <1>1, <1>3, <1>5, PostType DEF TypeOK
<1> QED BY <1>6 DEF HandleShutdown, TypeOK

LEMMA NextType == TypeOK /\ [Next]_vars => TypeOK'
<1> SUFFICES ASSUME TypeOK, [Next]_vars PROVE TypeOK'
  OBVIOUS
<1>1. ASSUME NEW t \in Thread, Create(t) PROVE TypeOK'
  BY <1>1, CreateType
<1>2. ASSUME NEW t \in Thread, CommandSucceeds(t) \/ CommandFails(t) PROVE TypeOK'
  BY <1>2 DEF CommandSucceeds, CommandFails, TypeOK
<1>3. ASSUME NEW t \in Thread, FinishCreate(t) PROVE TypeOK'
  <2> DEFINE d == Take({building[t]}, IF pc[t] = "ok" THEN InitRefs - 1 ELSE InitRefs)
  <2>1. d \in [Slot -> Int]
    BY InitRefsAssumption, TakeType
  <2>2. Drop(d, {})
    BY <1>3 DEF FinishCreate
  <2> HIDE DEF d
  <2> QED BY <1>3, <2>1, <2>2, DropType DEF FinishCreate, TypeOK
<1>4. ASSUME NEW t \in Thread, NEW p \in Slot, Unpin(t, p) PROVE TypeOK'
  <2>1. Take({p}, 1) \in [Slot -> Int]
    BY TakeType
  <2>2. Drop(Take({p}, 1), {})
    BY <1>4 DEF Unpin
  <2> QED BY <1>4, <2>1, <2>2, DropType DEF Unpin, TypeOK
<1>5. ASSUME NEW s \in Slot, Hold(s) PROVE TypeOK'
  BY <1>5 DEF Hold, TypeOK
<1>6. ASSUME NEW s \in Slot, Release(s) PROVE TypeOK'
  <2>1. Take({s}, 1) \in [Slot -> Int]
    BY TakeType
  <2>2. Drop(Take({s}, 1), {})
    BY <1>6 DEF Release
  <2> QED BY <1>6, <2>1, <2>2, DropType DEF Release, TypeOK
<1>7. ASSUME NEW s \in Slot, RequestClose(s) PROVE TypeOK'
  <2>1. <<ClosedEvent(s)>> \in Seq(Event)
    BY MaxWorkersAssumption, EventType
  <2>2. events' \in Seq(Event) /\ Len(events') <= QueueLimit /\ lost' \in BOOLEAN
    BY <1>7, <2>1, PostType DEF RequestClose, TypeOK
  <2> QED BY <1>7, <2>2 DEF RequestClose, TypeOK
<1>8. CASE HandleClosed
  <2> DEFINE s == Head(events).id
  <2>1. events' \in Seq(Event) /\ Len(events') <= QueueLimit
    BY <1>8, HeadTailProperties, LenProperties, QueueLimitAssumption
       DEF HandleClosed, TypeOK
  <2>2. CASE s \in Live /\ ~closed[s]
    <3>1. Take(ClosedBy(s), 1) \in [Slot -> Int]
      BY TakeType
    <3>2. Drop(Take(ClosedBy(s), 1), ClosedBy(s))
      BY <1>8, <2>2 DEF HandleClosed, Close
    <3> HIDE DEF s
    <3> QED BY <1>8, <2>1, <3>1, <3>2, DropType DEF HandleClosed, TypeOK
  <2>3. CASE ~(s \in Live /\ ~closed[s])
    BY <1>8, <2>1, <2>3 DEF HandleClosed, TypeOK
  <2> QED BY <2>2, <2>3
<1>9. CASE WorkerExit
  <2>1. <<ShutdownEvent(worker)>> \in Seq(Event)
    BY EventType DEF ShutdownEvent, Event, TypeOK
  <2>2. events' \in Seq(Event) /\ Len(events') <= QueueLimit /\ lost' \in BOOLEAN
    BY <1>9, <2>1, PostType DEF WorkerExit, TypeOK
  <2> QED BY <1>9, <2>2 DEF WorkerExit, TypeOK
<1>10. CASE HandleShutdown
  BY <1>10, HandleShutdownType
<1>11. CASE UNCHANGED vars
  BY <1>11 DEF vars, TypeOK
<1> QED BY <1>1, <1>2, <1>3, <1>4, <1>5, <1>6, <1>7, <1>8, <1>9, <1>10, <1>11 DEF Next

LEMMA TypeInit == Init => TypeOK
<1> SUFFICES ASSUME Init PROVE TypeOK
  OBVIOUS
<1>1. <<>> \in Seq(Event) /\ Len(<<>>) <= QueueLimit
  BY QueueLimitAssumption, EmptySeq
<1>2. 0 \in 0..MaxWorkers
  BY MaxWorkersAssumption
<1>3. events \in Seq(Event) /\ Len(events) <= QueueLimit
  BY <1>1 DEF Init
<1>4. lost \in BOOLEAN /\ up \in BOOLEAN /\ closed \in [Slot -> BOOLEAN]
  BY DEF Init
<1> QED BY <1>2, <1>3, <1>4 DEF Init, TypeOK

\* Every reachable state of the registry is well typed: in particular counts are
\* integers and the event queue stays within its limit, for any number of
\* resources and threads (rct.c, wrc.c).
THEOREM TypeCorrect == Spec => []TypeOK
BY TypeInit, NextType, PTL DEF Spec
-----------------------------------------------------------------------------
(***************************************************************************)
(* Dropping references.                                                    *)
(***************************************************************************)

\* A set of resources splits into what goes and what stays.
LEMMA Split ==
  ASSUME NEW S \in SUBSET Slot, NEW gone
  PROVE  Cardinality(S) = Cardinality(S \ gone) + Cardinality(S \cap gone)
<1> DEFINE A == S \ gone
           B == S \cap gone
<1>1. IsFiniteSet(A) /\ IsFiniteSet(B)
  BY LiveFinite
<1>2. A \cup B = S
  OBVIOUS
<1>3. A \cap B = {}
  OBVIOUS
<1> HIDE DEF A, B
<1>4. Cardinality(A \cup B) = Cardinality(A) + Cardinality(B) - Cardinality(A \cap B)
  BY <1>1, FS_Union
<1>5. Cardinality(A \cap B) = 0
  BY <1>3, FS_EmptySet
<1>6. Cardinality(A) \in Nat /\ Cardinality(B) \in Nat
  BY <1>1, FS_CardinalityType
<1>7. Cardinality(S) = Cardinality(A) + Cardinality(B) - 0
  BY <1>2, <1>4, <1>5, Zenon
<1>8. Cardinality(A) + Cardinality(B) - 0 = Cardinality(A) + Cardinality(B)
  BY <1>6
<1> QED BY <1>7, <1>8 DEF A, B

LEMMA CardTypes ==
  ASSUME NEW s
  PROVE  /\ Children(s) \in SUBSET Slot /\ Cardinality(Children(s)) \in Nat
         /\ Received(s) \in SUBSET Slot /\ Cardinality(Received(s)) \in Nat
         /\ Pinners(s) \in SUBSET Thread /\ IsFiniteSet(Pinners(s))
         /\ Cardinality(Pinners(s)) \in Nat
<1>1. Children(s) \in SUBSET Slot /\ Received(s) \in SUBSET Slot
  BY DEF Children, Received, Live
<1>2. Pinners(s) \in SUBSET Thread
  BY DEF Pinners
<1> QED BY <1>1, <1>2, LiveFinite, FiniteAssumption, FS_Subset, FS_CardinalityType

LEMMA OwnType == ASSUME NEW s PROVE Own(s) \in Int /\ Own(s) >= 0 /\ Claims(s) \in Int
<1>1. Own(s) \in Int /\ Own(s) >= 0
  BY InitRefsAssumption DEF Own
<1> QED BY <1>1, CardTypes DEF Claims

\* What a drop leaves: the survivors, the references on them, and what hangs on
\* them.
LEMMA DropStep ==
  ASSUME IInv, NEW d \in [Slot -> Int], NEW C, Drop(d, C)
  PROVE  \E gone \in SUBSET Live :
           /\ Live' = Live \ gone
           /\ \A s \in Live \ gone :
                /\ parent'[s] = parent[s]
                /\ via'[s] = via[s]
                /\ closed'[s] <=> closed[s] \/ s \in C
           /\ \A s \in Slot :
                /\ Children(s)' = Children(s) \ gone
                /\ Received(s)' = Received(s) \ gone
           /\ \A s \in Live :
                /\ refs'[s] = Claims(s) - d[s] + Cardinality(Children(s) \ gone)
                              + Cardinality(Received(s) \ gone)
                /\ s \in gone <=> refs'[s] < 1
<1> USE DEF IInv
<1>0. PICK gone \in SUBSET Live : Drop(d, C)!(gone)
  BY DEF Drop
<1>1. Live' = Live \ gone
  BY <1>0 DEF Live, Kinds, TypeOK
<1>2. \A s \in Live \ gone :
        /\ parent'[s] = parent[s]
        /\ via'[s] = via[s]
        /\ closed'[s] <=> closed[s] \/ s \in C
  BY <1>0 DEF Live
<1>3. ASSUME NEW s \in Slot
      PROVE  /\ Children(s)' = Children(s) \ gone
             /\ Received(s)' = Received(s) \ gone
  BY <1>1, <1>2 DEF Children, Received
<1>4. ASSUME NEW s \in Live
      PROVE  /\ refs'[s] = Claims(s) - d[s] + Cardinality(Children(s) \ gone)
                           + Cardinality(Received(s) \ gone)
             /\ s \in gone <=> refs'[s] < 1
  <2>0. s \in Slot /\ refs[s] \in Int /\ d[s] \in Int
    BY DEF Live, TypeOK
  <2>1. {x \in gone : parent[x] = s} = Children(s) \cap gone
    BY DEF Children
  <2>2. {x \in gone : via[x] = s} = Received(s) \cap gone
    BY DEF Received
  <2> DEFINE c == Cardinality(Children(s) \cap gone)
             v == Cardinality(Received(s) \cap gone)
             cc == Cardinality(Children(s) \ gone)
             vv == Cardinality(Received(s) \ gone)
  <2>3. c \in Nat /\ v \in Nat /\ cc \in Nat /\ vv \in Nat
    BY CardTypes, LiveFinite
  <2>4. Cardinality(Children(s)) = cc + c /\ Cardinality(Received(s)) = vv + v
    BY CardTypes, Split
  <2>5. Loss(d, gone, s) = d[s] + c + v
    BY <2>1, <2>2 DEF Loss
  <2>6. refs'[s] = refs[s] - Loss(d, gone, s)
    BY <1>0, <2>0
  <2>7. refs[s] = Claims(s) + Cardinality(Children(s)) + Cardinality(Received(s))
    BY DEF RefsExact
  <2>8. s \in gone <=> refs[s] - Loss(d, gone, s) < 1
    BY <1>0 DEF Disposed
  <2> HIDE DEF c, v, cc, vv
  <2>9. refs'[s] = Claims(s) - d[s] + cc + vv
    BY <2>0, <2>3, <2>4, <2>5, <2>6, <2>7, OwnType
  <2> QED BY <2>6, <2>8, <2>9 DEF cc, vv
<1> QED BY <1>1, <1>2, <1>3, <1>4

\* The same seen from a survivor.
LEMMA DropSurvivor ==
  ASSUME IInv, NEW d \in [Slot -> Int], NEW C, Drop(d, C)
  PROVE  \A s \in Live' : s \in Live /\ (closed'[s] <=> closed[s] \/ s \in C)
BY DropStep

\* A drop that takes no more from a resource in use than is claimed on it, and
\* changes the claims by what it takes, keeps the counts exact, frees no parent
\* of a survivor and nothing that is still claimed.
LEMMA DropSafe ==
  ASSUME IInv, NEW d \in [Slot -> Int], NEW C, Drop(d, C),
         \A s \in Live : Children(s) \cup Received(s) # {} => Claims(s) >= d[s],
         \A s \in Live' : Claims(s) - d[s] >= 1 \/ Children(s) \cup Received(s) # {}
                          => Claims(s)' = Claims(s) - d[s]
  PROVE  /\ RefsExact'
         /\ \A s \in Live' : {parent'[s], via'[s]} \ {None} \subseteq Live'
         /\ \A s \in Live : Claims(s) - d[s] >= 1 => s \in Live'
         /\ Live' \subseteq Live
         /\ \A s \in Slot : Children(s)' \subseteq Children(s)
                             /\ Received(s)' \subseteq Received(s)
<1> USE DEF IInv
<1>0. PICK gone \in SUBSET Live :
        /\ Live' = Live \ gone
        /\ \A s \in Live \ gone :
             /\ parent'[s] = parent[s]
             /\ via'[s] = via[s]
             /\ closed'[s] <=> closed[s] \/ s \in C
        /\ \A s \in Slot :
             /\ Children(s)' = Children(s) \ gone
             /\ Received(s)' = Received(s) \ gone
        /\ \A s \in Live :
             /\ refs'[s] = Claims(s) - d[s] + Cardinality(Children(s) \ gone)
                           + Cardinality(Received(s) \ gone)
             /\ s \in gone <=> refs'[s] < 1
  BY DropStep
<1>1. \A s \in Live : s \in Slot /\ d[s] \in Int /\ Claims(s) \in Int
  BY OwnType DEF Live
<1>2. \A s \in Slot : /\ IsFiniteSet(Children(s) \ gone) /\ IsFiniteSet(Received(s) \ gone)
                      /\ Cardinality(Children(s) \ gone) \in Nat
                      /\ Cardinality(Received(s) \ gone) \in Nat
  BY CardTypes, LiveFinite
<1>3. ASSUME NEW s \in Live, Claims(s) - d[s] < 1, Children(s) = {}, Received(s) = {}
      PROVE  s \notin Live'
  <2>1. Cardinality(Children(s) \ gone) = 0 /\ Cardinality(Received(s) \ gone) = 0
    BY <1>3, FS_EmptySet
  <2> QED BY <1>0, <1>1, <1>3, <2>1
<1>6. RefsExact'
  <2> SUFFICES ASSUME NEW s \in Live'
               PROVE  refs'[s] = Claims(s)' + Cardinality(Children(s)') + Cardinality(Received(s)')
    BY DEF RefsExact
  <2>1. Claims(s) - d[s] >= 1 \/ Children(s) \cup Received(s) # {}
    BY <1>0, <1>1, <1>3
  <2> QED BY <1>0, <1>1, <2>1
<1>4. ASSUME NEW s \in Live', NEW p \in {parent'[s], via'[s]} \ {None} PROVE p \in Live'
  <2>1. s \in Live \ gone /\ p \in {parent[s], via[s]} \ {None}
    BY <1>0
  <2>2. p \in Live
    BY <2>1 DEF NoDangling
  <2>3. s \in (Children(p) \ gone) \cup (Received(p) \ gone)
    BY <2>1 DEF Children, Received
  <2>4. Claims(p) - d[p] >= 0
    BY <1>1, <2>2, <2>3
  <2> DEFINE cc == Cardinality(Children(p) \ gone)
             vv == Cardinality(Received(p) \ gone)
  <2>5. cc \in Nat /\ vv \in Nat /\ (cc # 0 \/ vv # 0)
    BY <1>1, <1>2, <2>2, <2>3, FS_EmptySet
  <2>6. refs'[p] = Claims(p) - d[p] + cc + vv
    BY <1>0, <2>2
  <2>7. ~ (refs'[p] < 1)
    <3> HIDE DEF cc, vv
    <3> QED BY <1>1, <2>2, <2>4, <2>5, <2>6
  <2>8. p \notin gone
    BY <1>0, <2>2, <2>7
  <2> QED BY <1>0, <2>2, <2>8
<1>5. ASSUME NEW s \in Live, Claims(s) - d[s] >= 1 PROVE s \in Live'
  <2> DEFINE cc == Cardinality(Children(s) \ gone)
             vv == Cardinality(Received(s) \ gone)
  <2>1. cc \in Nat /\ vv \in Nat
    BY <1>1, <1>2
  <2>2. refs'[s] = Claims(s) - d[s] + cc + vv
    BY <1>0
  <2>3. ~ (refs'[s] < 1)
    <3> HIDE DEF cc, vv
    <3> QED BY <1>1, <1>5, <2>1, <2>2
  <2> QED BY <1>0, <2>3
<1> QED BY <1>0, <1>3, <1>4, <1>5, <1>6
-----------------------------------------------------------------------------
(***************************************************************************)
(* References are exact and nothing in use is freed: one lemma per action. *)
(***************************************************************************)

\* What is claimed at least on a registered resource.
LEMMA ClaimsBound ==
  ASSUME NEW s
  PROVE  /\ Claims(s) >= Own(s)
         /\ Pinners(s) # {} \/ s \in held => Claims(s) >= Own(s) + 1
         /\ s \in Building => Own(s) >= InitRefs - 1
         /\ ~closed[s] => Own(s) >= 1
<1>1. Cardinality(Pinners(s)) \in Nat /\ (Pinners(s) # {} => Cardinality(Pinners(s)) >= 1)
  BY CardTypes, FS_EmptySet
<1>2. Own(s) \in Int
  BY OwnType
<1>3. Claims(s) >= Own(s) /\ (Pinners(s) # {} \/ s \in held => Claims(s) >= Own(s) + 1)
  BY <1>1, <1>2 DEF Claims
<1>4. (s \in Building => Own(s) >= InitRefs - 1) /\ (~closed[s] => Own(s) >= 1)
  BY InitRefsAssumption DEF Own
<1> QED BY <1>3, <1>4

\* Registration of a resource under announced parents.
LEMMA RegisterInv ==
  ASSUME IInv, NEW t \in Thread, pc[t] \in {"idle", "acquired"},
         NEW s \in Slot, kind[s] = "free", NEW k \in Kinds,
         NEW p, NEW q, {p, q} \ {None} \subseteq Live \ Unannounced, p = q => p = None,
         NEW w \in 0..MaxWorkers, Register(t, s, k, p, q, w)
  PROVE  IInv'
<1> USE DEF IInv
<1> DEFINE owners == {p, q} \ {None}
<1>1. /\ s \notin Live /\ s # None /\ s # p /\ s # q /\ s \notin Building
      /\ building[t] = None /\ pins[t] = {} /\ Live \subseteq Slot /\ owners \subseteq Slot
  BY NoneAssumption DEF Live, Kinds, CreationsApart, NoDangling
<1>2. Live' = Live \cup {s}
  BY <1>1 DEF Register, Live, TypeOK
<1>3. Building' = Building \cup {s}
  BY <1>1 DEF Register, Building, TypeOK
<1>4. Unannounced' = Unannounced \cup {s}
  BY <1>1 DEF Register, Unannounced, TypeOK
<1>5. \A x \in Live : /\ parent'[x] = parent[x] /\ via'[x] = via[x] /\ closed'[x] = closed[x]
                     /\ x # s
  BY <1>1 DEF Register, TypeOK
<1>6. parent'[s] = p /\ via'[s] = q /\ ~closed'[s] /\ refs'[s] = InitRefs
  BY DEF Register, TypeOK
<1>7. \A x \in Slot : /\ Children(x)' = IF x = p THEN Children(x) \cup {s} ELSE Children(x)
                     /\ Received(x)' = IF x = q THEN Received(x) \cup {s} ELSE Received(x)
  BY <1>2, <1>5, <1>6 DEF Children, Received
<1>8. \A x \in Slot : Pinners(x)' = IF x \in owners THEN Pinners(x) \cup {t} ELSE Pinners(x)
  BY <1>1 DEF Pinners, Register, TypeOK
<1>9. \A x : t \notin Pinners(x) /\ s \notin Children(x) /\ s \notin Received(x)
  BY <1>1 DEF Pinners, Children, Received
<1>10. Children(s) = {} /\ Received(s) = {} /\ Pinners(s) = {} /\ s \notin held
  BY <1>1 DEF Children, Received, Pinners, NoDangling
<1>11. held' = held
  BY DEF Register
<1>12. ASSUME NEW x \in Live
       PROVE  refs'[x] = Claims(x)' + Cardinality(Children(x)') + Cardinality(Received(x)')
  <2>0. x \in Slot /\ x # s /\ x # None /\ refs[x] \in Int
    BY <1>1, NoneAssumption DEF TypeOK
  <2>1. Own(x)' = Own(x)
    BY <1>3, <1>5, <2>0 DEF Own
  <2>2. refs'[x] = IF x \in owners THEN refs[x] + 2 ELSE refs[x]
    BY <2>0 DEF Register
  <2>3. Cardinality(Pinners(x)') = IF x \in owners THEN Cardinality(Pinners(x)) + 1
                                   ELSE Cardinality(Pinners(x))
    BY <1>8, <1>9, <2>0, CardTypes, FS_AddElement
  <2>4. Cardinality(Children(x)') = IF x = p THEN Cardinality(Children(x)) + 1
                                    ELSE Cardinality(Children(x))
    BY <1>7, <1>9, <2>0, CardTypes, LiveFinite, FS_AddElement
  <2>5. Cardinality(Received(x)') = IF x = q THEN Cardinality(Received(x)) + 1
                                    ELSE Cardinality(Received(x))
    BY <1>7, <1>9, <2>0, CardTypes, LiveFinite, FS_AddElement
  <2>6. refs[x] = Claims(x) + Cardinality(Children(x)) + Cardinality(Received(x))
    BY DEF RefsExact
  <2>7. Claims(x)' = IF x \in owners THEN Claims(x) + 1 ELSE Claims(x)
    BY <1>11, <2>1, <2>3, OwnType, CardTypes DEF Claims
  <2>8. x \in owners => (x = p <=> x # q)
    OBVIOUS
  <2>9. x \notin owners => x # p /\ x # q
    BY <2>0
  <2> QED BY <2>0, <2>2, <2>4, <2>5, <2>6, <2>7, <2>8, <2>9, OwnType, CardTypes
<1>13. refs'[s] = Claims(s)' + Cardinality(Children(s)') + Cardinality(Received(s)')
  <2>1. Children(s)' = {} /\ Received(s)' = {} /\ Pinners(s)' = {}
    BY <1>1, <1>7, <1>8, <1>10
  <2>2. Own(s)' = InitRefs
    BY <1>3, <1>6, InitRefsAssumption DEF Own
  <2>3. Claims(s)' = InitRefs
    BY <1>10, <1>11, <2>1, <2>2, FS_EmptySet, InitRefsAssumption DEF Claims
  <2> QED BY <1>6, <2>1, <2>3, FS_EmptySet, InitRefsAssumption
<1>14. RefsExact'
  BY <1>2, <1>12, <1>13 DEF RefsExact
<1>15. NoDangling'
  <2>1. \A x \in Live' : {parent'[x], via'[x]} \ {None} \subseteq Live'
    BY <1>2, <1>5, <1>6 DEF NoDangling
  <2>2. \A u \in Thread : pins'[u] \subseteq Live'
    BY <1>2 DEF Register, NoDangling, TypeOK
  <2> QED BY <1>2, <1>3, <1>11, <2>1, <2>2 DEF NoDangling
<1>16. CreationsApart'
  <2>1. \A u \in Thread : building'[u] # None <=> pc'[u] \in {"sent", "ok", "failed"}
    BY <1>1 DEF Register, CreationsApart, TypeOK
  <2>2. \A u \in Thread : pc'[u] \in {"idle", "acquired"} => pins'[u] = {}
    BY DEF Register, CreationsApart, TypeOK
  <2>3. \A u, v \in Thread : building'[u] = building'[v] => u = v \/ building'[u] = None
    BY <1>1 DEF Register, CreationsApart, TypeOK, Building
  <2>4. ASSUME NEW x \in Unannounced'
        PROVE  Children(x)' = {} /\ Received(x)' = {} /\ Pinners(x)' = {} /\ x \notin held'
    <3>1. CASE x = s
      BY <1>1, <1>7, <1>8, <1>10, <1>11, <3>1
    <3>2. CASE x \in Unannounced
      <4>1. PICK u \in Thread : x = building[u] /\ pc[u] \in {"sent", "failed"}
        BY <3>2 DEF Unannounced
      <4>2. x # None /\ x \in Slot
        <5>1. building[u] # None
          BY <4>1 DEF CreationsApart
        <5>2. building[u] \in Slot \union {None}
          BY DEF TypeOK
        <5> QED BY <4>1, <5>1, <5>2
      <4>3. x # p /\ x # q
        BY <3>2, <4>2
      <4>4. Children(x)' = Children(x) /\ Received(x)' = Received(x) /\ Pinners(x)' = Pinners(x)
        BY <1>7, <1>8, <4>2, <4>3
      <4> QED BY <1>11, <3>2, <4>4 DEF CreationsApart
    <3> QED BY <1>4, <3>1, <3>2
  <2> QED BY <2>1, <2>2, <2>3, <2>4 DEF CreationsApart
<1>17. TypeOK'
  <2>1. p \in Slot \cup {None} /\ q \in Slot \cup {None}
    BY <1>1
  <2> QED BY <2>1, RegisterType
<1> QED BY <1>14, <1>15, <1>16, <1>17

LEMMA CreateInv == ASSUME IInv, NEW t \in Thread, Create(t) PROVE IInv'
<1> USE DEF IInv
<1>1. CASE AcquireWorker(t)
  <2>1. TypeOK'
    BY CreateType
  <2>2. /\ UNCHANGED <<kind, parent, via, refs, closed, building, pins, held>>
        /\ pc[t] = "idle" /\ pc' = [pc EXCEPT ![t] = "acquired"]
    BY <1>1 DEF AcquireWorker
  <2>3. Live' = Live /\ Building' = Building
    BY <2>2 DEF Live, Building
  <2>4. Unannounced' = Unannounced
    BY <2>2 DEF Unannounced, TypeOK
  <2>5. \A x : /\ Children(x)' = Children(x) /\ Received(x)' = Received(x)
               /\ Pinners(x)' = Pinners(x) /\ Claims(x)' = Claims(x)
    BY <2>2, <2>3 DEF Children, Received, Pinners, Claims, Own
  <2>6. RefsExact'
    BY <2>2, <2>3, <2>5 DEF RefsExact
  <2>7. NoDangling'
    BY <2>2, <2>3 DEF NoDangling
  <2>8. CreationsApart'
    BY <2>2, <2>4, <2>5 DEF CreationsApart, TypeOK
  <2> QED BY <2>1, <2>6, <2>7, <2>8
<1>2. ASSUME NEW s \in Slot, CreateRouter(t, s) PROVE IInv'
  <2>1. acquired[t] \in 0..MaxWorkers /\ "router" \in Kinds
    BY DEF TypeOK, Kinds
  <2> QED BY <1>2, <2>1, RegisterInv DEF CreateRouter
<1>3. ASSUME NEW s \in Slot, NEW p \in Slot, NEW k \in {"transport", "observer"},
             CreateOnRouter(t, s, k, p)
      PROVE IInv'
  <2>1. wid[p] \in 0..MaxWorkers /\ k \in Kinds
    BY DEF TypeOK, Kinds
  <2>2. {p, None} \ {None} \subseteq Live \ Unannounced
    BY <1>3 DEF CreateOnRouter, Found, Live, Kinds
  <2> QED BY <1>3, <2>1, <2>2, RegisterInv DEF CreateOnRouter
<1>4. ASSUME NEW s \in Slot, NEW p \in Slot, CreateProducer(t, s, p) PROVE IInv'
  <2>1. wid[p] \in 0..MaxWorkers /\ "producer" \in Kinds
    BY DEF TypeOK, Kinds
  <2>2. {p, None} \ {None} \subseteq Live \ Unannounced
    BY <1>4 DEF CreateProducer, Found, Live, Kinds
  <2> QED BY <1>4, <2>1, <2>2, RegisterInv DEF CreateProducer
<1>5. ASSUME NEW s \in Slot, NEW p \in Slot, NEW q \in Slot, CreateConsumer(t, s, p, q)
      PROVE IInv'
  <2>1. wid[p] \in 0..MaxWorkers /\ "consumer" \in Kinds
    BY DEF TypeOK, Kinds
  <2>2. {p, q} \ {None} \subseteq Live \ Unannounced /\ p # q
    BY <1>5 DEF CreateConsumer, Found, Live, Kinds
  <2> QED BY <1>5, <2>1, <2>2, RegisterInv DEF CreateConsumer
<1> QED BY <1>1, <1>2, <1>3, <1>4, <1>5 DEF Create

\* The end of a command only moves its thread.
LEMMA CommandEndsInv ==
  ASSUME IInv, NEW t \in Thread, CommandSucceeds(t) \/ CommandFails(t)
  PROVE  IInv'
<1> USE DEF IInv
<1>1. /\ UNCHANGED <<kind, parent, via, refs, closed, building, pins, held>>
      /\ pc[t] = "sent"
      /\ \E r \in {"ok", "failed"} : pc' = [pc EXCEPT ![t] = r]
  BY DEF CommandSucceeds, CommandFails
<1>2. TypeOK'
  BY NextType DEF Next
<1>3. Live' = Live /\ Building' = Building
  BY <1>1 DEF Live, Building
<1>4. Unannounced' \subseteq Unannounced
  BY <1>1 DEF Unannounced, TypeOK
<1>5. \A x : /\ Children(x)' = Children(x) /\ Received(x)' = Received(x)
             /\ Pinners(x)' = Pinners(x) /\ Claims(x)' = Claims(x)
  BY <1>1, <1>3 DEF Children, Received, Pinners, Claims, Own
<1>6. RefsExact'
  BY <1>1, <1>3, <1>5 DEF RefsExact
<1>7. NoDangling'
  BY <1>1, <1>3 DEF NoDangling
<1>8. CreationsApart'
  BY <1>1, <1>4, <1>5 DEF CreationsApart, TypeOK
<1> QED BY <1>2, <1>6, <1>7, <1>8

\* The end of a creation takes from the resource what the thread had put on it:
\* all of RCT_INIT_REFS but one, or all of it, and then nothing else is left.
LEMMA FinishCreateInv == ASSUME IInv, NEW t \in Thread, FinishCreate(t) PROVE IInv'
<1> USE DEF IInv
<1> DEFINE b == building[t]
           n == IF pc[t] = "ok" THEN InitRefs - 1 ELSE InitRefs
           d == Take({b}, n)
<1>0. TypeOK'
  BY NextType DEF Next
<1>1. n \in Int /\ InitRefs \in Int /\ InitRefs >= 2
  BY InitRefsAssumption
<1>2. b \in Building /\ b \in Live /\ b \in Slot /\ b # None
  BY NoneAssumption DEF FinishCreate, CreationsApart, Building, NoDangling, TypeOK
<1>3. d \in [Slot -> Int] /\ Drop(d, {})
  BY <1>1, TakeType DEF FinishCreate
<1>4. \A x \in Slot : d[x] = IF x = b THEN n ELSE 0
  BY DEF Take
<1>5. pc[t] # "ok" => /\ b \in Unannounced /\ Children(b) = {} /\ Received(b) = {}
                      /\ Pinners(b) = {} /\ b \notin held
  BY DEF FinishCreate, Unannounced, CreationsApart
<1> HIDE DEF d
<1>6. Building' = Building \ {b}
  BY <1>2 DEF FinishCreate, Building, CreationsApart, TypeOK
<1>7. \A x : Pinners(x)' = Pinners(x)
  BY DEF FinishCreate, Pinners
<1>8. held' = held
  BY DEF FinishCreate
<1>9. ASSUME NEW x \in Live, Children(x) \cup Received(x) # {} PROVE Claims(x) >= d[x]
  <2>1. x \in Slot
    BY DEF Live
  <2> QED BY <1>1, <1>2, <1>4, <1>5, <1>9, <2>1, ClaimsBound, OwnType
<1>10. ASSUME NEW x \in Live', Claims(x) - d[x] >= 1 \/ Children(x) \cup Received(x) # {}
       PROVE  Claims(x)' = Claims(x) - d[x]
  <2>1. x \in Live /\ x \in Slot /\ (closed'[x] <=> closed[x])
    BY <1>3, DropSurvivor DEF Live
  <2>2. CASE x # b
    <3>1. Own(x)' = Own(x)
      BY <1>6, <2>1, <2>2 DEF Own
    <3> QED BY <1>4, <1>7, <1>8, <2>1, <2>2, <3>1, OwnType DEF Claims
  <2>3. CASE x = b /\ pc[t] = "ok"
    <3>1. Own(x)' = Own(x) - (InitRefs - 1)
      BY <1>1, <1>2, <1>6, <2>1, <2>3 DEF Own
    <3> QED BY <1>1, <1>4, <1>7, <1>8, <2>1, <2>3, <3>1, OwnType, CardTypes DEF Claims
  <2>4. CASE x = b /\ pc[t] # "ok"
    <3>1. Claims(x) <= InitRefs
      BY <1>1, <1>2, <1>5, <2>4, FS_EmptySet DEF Claims, Own
    <3> QED BY <1>1, <1>4, <1>5, <1>10, <2>1, <2>4, <3>1, OwnType
  <2> QED BY <2>2, <2>3, <2>4
<1>11. /\ RefsExact'
       /\ \A s \in Live' : {parent'[s], via'[s]} \ {None} \subseteq Live'
       /\ \A s \in Live : Claims(s) - d[s] >= 1 => s \in Live'
       /\ \A s \in Slot : Children(s)' \subseteq Children(s)
                           /\ Received(s)' \subseteq Received(s)
  BY <1>3, <1>9, <1>10, DropSafe
<1>12. NoDangling'
  <2>1. Building' \subseteq Live'
    <3> SUFFICES ASSUME NEW x \in Building \ {b} PROVE x \in Live'
      BY <1>6
    <3>1. x \in Live /\ x \in Slot
      BY DEF NoDangling, Live
    <3> QED BY <1>1, <1>4, <1>11, <3>1, ClaimsBound, OwnType
  <2>2. ASSUME NEW x \in Live, Pinners(x) # {} \/ x \in held PROVE x \in Live'
    <3>1. x \in Slot
      BY DEF Live
    <3> QED BY <1>1, <1>2, <1>4, <1>5, <1>11, <2>2, <3>1, ClaimsBound, OwnType
  <2>3. \A u \in Thread : pins'[u] \subseteq Live'
    BY <2>2 DEF NoDangling, Pinners, FinishCreate
  <2>4. held' \subseteq Live'
    BY <1>8, <2>2 DEF NoDangling
  <2> QED BY <1>11, <2>1, <2>3, <2>4 DEF NoDangling
<1>13. CreationsApart'
  <2>1. \A u \in Thread : building'[u] # None <=> pc'[u] \in {"sent", "ok", "failed"}
    BY DEF FinishCreate, CreationsApart, TypeOK
  <2>2. \A u \in Thread : pc'[u] \in {"idle", "acquired"} => pins'[u] = {}
    BY DEF FinishCreate, CreationsApart, TypeOK
  <2>3. \A u, v \in Thread : building'[u] = building'[v] => u = v \/ building'[u] = None
    BY DEF FinishCreate, CreationsApart, TypeOK
  <2>4. Unannounced' \subseteq Unannounced
    BY DEF FinishCreate, Unannounced, TypeOK
  <2>5. Unannounced \subseteq Slot
    BY DEF Unannounced, CreationsApart, TypeOK
  <2> QED BY <1>7, <1>8, <1>11, <2>1, <2>2, <2>3, <2>4, <2>5 DEF CreationsApart
<1> QED BY <1>0, <1>11, <1>12, <1>13

\* A thread's reference on a parent goes with its pin.
LEMMA UnpinInv == ASSUME IInv, NEW t \in Thread, NEW p \in Slot, Unpin(t, p) PROVE IInv'
<1> USE DEF IInv
<1> DEFINE d == Take({p}, 1)
<1>0. TypeOK'
  BY NextType DEF Next
<1>1. d \in [Slot -> Int] /\ Drop(d, {}) /\ \A x \in Slot : d[x] = IF x = p THEN 1 ELSE 0
  BY TakeType DEF Unpin, Take
<1> HIDE DEF d
<1>2. InitRefs \in Int /\ InitRefs >= 2
  BY InitRefsAssumption
<1>3. /\ t \in Pinners(p) /\ p \in Live
      /\ Building' = Building /\ held' = held
  BY DEF Unpin, Pinners, NoDangling, Building
<1>4. \A x \in Slot : Pinners(x)' = IF x = p THEN Pinners(x) \ {t} ELSE Pinners(x)
  BY DEF Unpin, Pinners, TypeOK
<1>5. \A x \in Slot : Cardinality(Pinners(x)') = Cardinality(Pinners(x)) - d[x]
  BY <1>1, <1>3, <1>4, CardTypes, FS_RemoveElement
<1>6. ASSUME NEW x \in Live PROVE Claims(x) - d[x] >= 0
  <2>1. x \in Slot
    BY DEF Live
  <2> QED BY <1>1, <1>3, <2>1, ClaimsBound, OwnType
<1>7. ASSUME NEW x \in Live' PROVE Claims(x)' = Claims(x) - d[x]
  <2>1. x \in Live /\ x \in Slot /\ (closed'[x] <=> closed[x])
    BY <1>1, DropSurvivor DEF Live
  <2>2. Own(x)' = Own(x)
    BY <1>3, <2>1 DEF Own
  <2> QED BY <1>1, <1>3, <1>5, <2>1, <2>2, OwnType, CardTypes DEF Claims
<1>8. /\ RefsExact'
      /\ \A s \in Live' : {parent'[s], via'[s]} \ {None} \subseteq Live'
      /\ \A s \in Live : Claims(s) - d[s] >= 1 => s \in Live'
      /\ \A s \in Slot : Children(s)' \subseteq Children(s)
                          /\ Received(s)' \subseteq Received(s)
  <2>1. \A s \in Live : Claims(s) >= d[s]
    <3> SUFFICES ASSUME NEW s \in Live PROVE Claims(s) >= d[s]
      OBVIOUS
    <3>1. s \in Slot
      BY DEF Live
    <3> QED BY <1>1, <1>6, <3>1, OwnType
  <2> QED BY <1>1, <1>7, <2>1, DropSafe
<1>9. NoDangling'
  <2>1. ASSUME NEW x \in Live, x \in Building \/ Pinners(x)' # {} \/ x \in held
        PROVE  x \in Live'
    <3>1. x \in Slot /\ d[x] \in Int /\ Own(x) \in Int /\ Own(x) >= 0
      BY <1>1, OwnType DEF Live
    <3>2. Cardinality(Pinners(x)) - d[x] \in Nat
      BY <1>4, <1>5, <3>1, CardTypes, FS_Subset, FS_CardinalityType
    <3>3. Claims(x) - d[x] = Own(x) + (Cardinality(Pinners(x)) - d[x])
                             + (IF x \in held THEN 1 ELSE 0)
      BY <3>1, CardTypes DEF Claims
    <3>4. CASE x \in Building
      BY <1>2, <1>8, <3>1, <3>2, <3>3, <3>4, ClaimsBound
    <3>5. CASE Pinners(x)' # {}
      <4>1. IsFiniteSet(Pinners(x)')
        BY <1>4, <3>1, CardTypes, FS_Subset
      <4>2. Cardinality(Pinners(x)) - d[x] # 0
        BY <1>5, <3>1, <3>5, <4>1, FS_EmptySet
      <4> QED BY <1>8, <3>1, <3>2, <3>3, <4>2
    <3>6. CASE x \in held
      BY <1>8, <3>1, <3>2, <3>3, <3>6
    <3> QED BY <2>1, <3>4, <3>5, <3>6
  <2>2. \A u \in Thread : pins'[u] \subseteq Live'
    <3> SUFFICES ASSUME NEW u \in Thread, NEW x \in pins'[u] PROVE x \in Live'
      OBVIOUS
    <3>1. x \in pins[u] /\ u \in Pinners(x)'
      BY DEF Unpin, Pinners, TypeOK
    <3> QED BY <2>1, <3>1 DEF NoDangling
  <2>3. Building' \subseteq Live' /\ held' \subseteq Live'
    BY <1>3, <2>1 DEF NoDangling
  <2> QED BY <1>8, <2>2, <2>3 DEF NoDangling
<1>10. CreationsApart'
  <2>1. \A u \in Thread : building'[u] # None <=> pc'[u] \in {"sent", "ok", "failed"}
    BY DEF Unpin, CreationsApart, TypeOK
  <2>2. \A u \in Thread : pc'[u] \in {"idle", "acquired"} => pins'[u] = {}
    BY DEF Unpin, CreationsApart, TypeOK
  <2>3. \A u, v \in Thread : building'[u] = building'[v] => u = v \/ building'[u] = None
    BY DEF Unpin, CreationsApart
  <2>4. Unannounced' \subseteq Unannounced /\ Unannounced \subseteq Slot
    BY DEF Unpin, Unannounced, CreationsApart, TypeOK
  <2> QED BY <1>3, <1>4, <1>8, <2>1, <2>2, <2>3, <2>4 DEF CreationsApart
<1> QED BY <1>0, <1>8, <1>9, <1>10

\* An outside holder gives its reference back.
LEMMA ReleaseInv == ASSUME IInv, NEW r \in Slot, Release(r) PROVE IInv'
<1> USE DEF IInv
<1> DEFINE d == Take({r}, 1)
<1>0. TypeOK'
  BY NextType DEF Next
<1>1. d \in [Slot -> Int] /\ Drop(d, {}) /\ \A x \in Slot : d[x] = IF x = r THEN 1 ELSE 0
  BY TakeType DEF Release, Take
<1> HIDE DEF d
<1>2. InitRefs \in Int /\ InitRefs >= 2
  BY InitRefsAssumption
<1>3. /\ r \in held /\ r \in Live /\ held' = held \ {r}
      /\ Building' = Building /\ Unannounced' = Unannounced
  BY DEF Release, NoDangling, Building, Unannounced
<1>4. \A x : Pinners(x)' = Pinners(x)
  BY DEF Release, Pinners
<1>5. ASSUME NEW x \in Live PROVE Claims(x) - d[x] >= 0
  <2>1. x \in Slot
    BY DEF Live
  <2> QED BY <1>1, <1>3, <2>1, ClaimsBound, OwnType
<1>6. ASSUME NEW x \in Live' PROVE Claims(x)' = Claims(x) - d[x]
  <2>1. x \in Live /\ x \in Slot /\ (closed'[x] <=> closed[x])
    BY <1>1, DropSurvivor DEF Live
  <2>2. Own(x)' = Own(x)
    BY <1>3, <2>1 DEF Own
  <2> QED BY <1>1, <1>3, <1>4, <2>1, <2>2, OwnType, CardTypes DEF Claims
<1>7. /\ RefsExact'
      /\ \A s \in Live' : {parent'[s], via'[s]} \ {None} \subseteq Live'
      /\ \A s \in Live : Claims(s) - d[s] >= 1 => s \in Live'
      /\ \A s \in Slot : Children(s)' \subseteq Children(s)
                          /\ Received(s)' \subseteq Received(s)
  <2>1. \A s \in Live : Claims(s) >= d[s]
    <3> SUFFICES ASSUME NEW s \in Live PROVE Claims(s) >= d[s]
      OBVIOUS
    <3>1. s \in Slot
      BY DEF Live
    <3> QED BY <1>1, <1>5, <3>1, OwnType
  <2> QED BY <1>1, <1>6, <2>1, DropSafe
<1>8. NoDangling'
  <2>1. ASSUME NEW x \in Live, x \in Building \/ Pinners(x) # {} \/ x \in held'
        PROVE  x \in Live'
    <3>1. x \in Slot /\ Own(x) \in Int /\ Own(x) >= 0 /\ Cardinality(Pinners(x)) \in Nat
      BY OwnType, CardTypes DEF Live
    <3>2. Claims(x) - d[x] = Own(x) + Cardinality(Pinners(x))
                             + (IF x \in held' THEN 1 ELSE 0)
      BY <1>1, <1>3, <3>1 DEF Claims
    <3>3. Pinners(x) # {} => Cardinality(Pinners(x)) # 0
      BY CardTypes, FS_EmptySet
    <3>4. x \in Building => Own(x) >= 1
      BY <1>2, <3>1, ClaimsBound
    <3> QED BY <1>7, <2>1, <3>1, <3>2, <3>3, <3>4
  <2>2. \A u \in Thread : pins'[u] \subseteq Live'
    BY <2>1 DEF NoDangling, Pinners, Release
  <2> QED BY <1>3, <1>7, <2>1, <2>2 DEF NoDangling
<1>9. CreationsApart'
  <2>1. Unannounced \subseteq Slot
    BY DEF Unannounced, CreationsApart, TypeOK
  <2> QED BY <1>3, <1>4, <1>7, <2>1 DEF Release, CreationsApart
<1> QED BY <1>0, <1>7, <1>8, <1>9

\* A close takes the main reference of each resource it marks closed, and of no
\* other: a resource that was closed before is passed over.
LEMMA CloseInv ==
  ASSUME IInv, NEW r \in Live, ~closed[r], Close(r), TypeOK',
         UNCHANGED <<pc, building, pins, held>>
  PROVE  IInv'
<1> USE DEF IInv
<1> DEFINE C == ClosedBy(r)
           d == Take(C, 1)
<1>1. \A x \in C : x \in Live /\ ~closed[x]
  BY DEF ClosedBy, OpenChildren
<1>2. d \in [Slot -> Int] /\ Drop(d, C) /\ \A x \in Slot : d[x] = IF x \in C THEN 1 ELSE 0
  BY TakeType DEF Close, Take
<1> HIDE DEF d, C
<1>3. InitRefs \in Int /\ InitRefs >= 2
  BY InitRefsAssumption
<1>4. /\ Building' = Building /\ Unannounced' = Unannounced /\ held' = held
      /\ \A x : Pinners(x)' = Pinners(x)
  BY DEF Building, Unannounced, Pinners
<1>5. ASSUME NEW x \in Live
      PROVE  /\ Own(x) - d[x] \in Int /\ Own(x) - d[x] >= 0
             /\ x \in Building => Own(x) - d[x] >= 1
             /\ Claims(x) - d[x] = (Own(x) - d[x]) + Cardinality(Pinners(x))
                                   + (IF x \in held THEN 1 ELSE 0)
             /\ Claims(x) >= d[x]
  <2>1. x \in Slot /\ Own(x) \in Int /\ Own(x) >= 0 /\ Cardinality(Pinners(x)) \in Nat
    BY OwnType, CardTypes DEF Live
  <2>2. Own(x) - d[x] >= 0
    BY <1>1, <1>2, <2>1, ClaimsBound
  <2>3. x \in Building => Own(x) - d[x] >= 1
    BY <1>1, <1>2, <1>3, <2>1 DEF Own
  <2> QED BY <1>2, <2>1, <2>2, <2>3 DEF Claims
<1>6. ASSUME NEW x \in Live' PROVE Claims(x)' = Claims(x) - d[x]
  <2>1. x \in Live /\ x \in Slot /\ (closed'[x] <=> closed[x] \/ x \in C)
    BY <1>2, DropSurvivor DEF Live
  <2>2. Own(x)' = Own(x) - d[x]
    BY <1>1, <1>2, <1>3, <1>4, <2>1 DEF Own
  <2>3. Claims(x)' = Own(x)' + Cardinality(Pinners(x)) + (IF x \in held THEN 1 ELSE 0)
    BY <1>4 DEF Claims
  <2> QED BY <1>5, <2>1, <2>2, <2>3
<1>7. /\ RefsExact'
      /\ \A s \in Live' : {parent'[s], via'[s]} \ {None} \subseteq Live'
      /\ \A s \in Live : Claims(s) - d[s] >= 1 => s \in Live'
      /\ \A s \in Slot : Children(s)' \subseteq Children(s)
                          /\ Received(s)' \subseteq Received(s)
  BY <1>2, <1>5, <1>6, DropSafe
<1>8. NoDangling'
  <2>1. ASSUME NEW x \in Live, x \in Building \/ Pinners(x) # {} \/ x \in held
        PROVE  x \in Live'
    <3>1. Cardinality(Pinners(x)) \in Nat /\ (Pinners(x) # {} => Cardinality(Pinners(x)) # 0)
      BY CardTypes, FS_EmptySet
    <3> QED BY <1>5, <1>7, <2>1, <3>1
  <2>2. \A u \in Thread : pins'[u] \subseteq Live'
    BY <2>1 DEF NoDangling, Pinners
  <2> QED BY <1>4, <1>7, <2>1, <2>2 DEF NoDangling
<1>9. CreationsApart'
  <2>1. Unannounced \subseteq Slot
    BY DEF Unannounced, CreationsApart, TypeOK
  <2> QED BY <1>4, <1>7, <2>1 DEF CreationsApart
<1> QED BY <1>7, <1>8, <1>9

\* A new holder adds one reference to one announced resource.
LEMMA HoldInv == ASSUME IInv, NEW r \in Slot, Hold(r) PROVE IInv'
<1> USE DEF IInv
<1>0. TypeOK'
  BY NextType DEF Next
<1>1. /\ UNCHANGED <<kind, parent, via, closed, pc, building, pins>>
      /\ refs' = [refs EXCEPT ![r] = @ + 1]
      /\ held' = held \cup {r} /\ r \notin held /\ r \in Live \ Unannounced
  BY DEF Hold
<1>2. Live' = Live /\ Building' = Building /\ Unannounced' = Unannounced
  BY <1>1 DEF Live, Building, Unannounced
<1>3. \A x : /\ Children(x)' = Children(x) /\ Received(x)' = Received(x)
             /\ Pinners(x)' = Pinners(x) /\ Own(x)' = Own(x)
  BY <1>1, <1>2 DEF Children, Received, Pinners, Own
<1>4. RefsExact'
  <2> SUFFICES ASSUME NEW x \in Live
               PROVE  refs'[x] = Claims(x)' + Cardinality(Children(x)') + Cardinality(Received(x)')
    BY <1>2 DEF RefsExact
  <2>1. x \in Slot /\ refs[x] \in Int
    BY DEF Live, TypeOK
  <2>2. Claims(x)' = IF x = r THEN Claims(x) + 1 ELSE Claims(x)
    BY <1>1, <1>3, OwnType, CardTypes DEF Claims
  <2>3. refs'[x] = IF x = r THEN refs[x] + 1 ELSE refs[x]
    BY <1>1, <2>1 DEF TypeOK
  <2>4. refs[x] = Claims(x) + Cardinality(Children(x)) + Cardinality(Received(x))
    BY DEF RefsExact
  <2> QED BY <1>3, <2>1, <2>2, <2>3, <2>4, OwnType, CardTypes
<1>5. NoDangling'
  BY <1>1, <1>2 DEF NoDangling
<1>6. CreationsApart'
  BY <1>1, <1>2, <1>3 DEF CreationsApart
<1> QED BY <1>0, <1>4, <1>5, <1>6

\* Everything else only moves events and the worker.
LEMMA RegistryUntouched ==
  ASSUME IInv, TypeOK',
         UNCHANGED <<kind, parent, via, refs, closed, pc, building, pins, held>>
  PROVE  IInv'
<1>1. Live' = Live /\ Building' = Building /\ Unannounced' = Unannounced
  BY DEF Live, Building, Unannounced
<1>2. \A x : /\ Children(x)' = Children(x) /\ Received(x)' = Received(x)
             /\ Pinners(x)' = Pinners(x) /\ Claims(x)' = Claims(x)
  BY <1>1 DEF Children, Received, Pinners, Own, Claims
<1> QED BY <1>1, <1>2 DEF IInv, RefsExact, NoDangling, CreationsApart

LEMMA InitInv == Init => IInv
<1> SUFFICES ASSUME Init PROVE IInv
  OBVIOUS
<1>1. TypeOK
  BY TypeInit
<1>2. Live = {} /\ Building = {} /\ Unannounced = {}
  BY DEF Init, Live, Kinds, Building, Unannounced
<1>3. RefsExact /\ NoDangling /\ CreationsApart
  BY <1>2 DEF Init, RefsExact, NoDangling, CreationsApart
<1> QED BY <1>1, <1>3 DEF IInv

LEMMA NextInv == IInv /\ [Next]_vars => IInv'
<1> SUFFICES ASSUME IInv, [Next]_vars PROVE IInv'
  OBVIOUS
<1>0. TypeOK'
  BY NextType DEF IInv
<1>1. ASSUME NEW t \in Thread, Create(t) PROVE IInv'
  BY <1>1, CreateInv
<1>2. ASSUME NEW t \in Thread, CommandSucceeds(t) \/ CommandFails(t) PROVE IInv'
  BY <1>2, CommandEndsInv
<1>3. ASSUME NEW t \in Thread, FinishCreate(t) PROVE IInv'
  BY <1>3, FinishCreateInv
<1>4. ASSUME NEW t \in Thread, NEW p \in Slot, Unpin(t, p) PROVE IInv'
  BY <1>4, UnpinInv
<1>5. ASSUME NEW s \in Slot, Hold(s) PROVE IInv'
  BY <1>5, HoldInv
<1>6. ASSUME NEW s \in Slot, Release(s) PROVE IInv'
  BY <1>6, ReleaseInv
<1>7. ASSUME NEW s \in Slot, RequestClose(s) PROVE IInv'
  BY <1>0, <1>7, RegistryUntouched DEF RequestClose
<1>8. CASE HandleClosed
  <2> DEFINE s == Head(events).id
  <2>1. CASE s \in Live /\ ~closed[s]
    <3>1. Close(s) /\ UNCHANGED <<pc, building, pins, held>>
      BY <1>8, <2>1 DEF HandleClosed
    <3> HIDE DEF s
    <3> QED BY <1>0, <2>1, <3>1, CloseInv
  <2>2. CASE ~(s \in Live /\ ~closed[s])
    BY <1>0, <1>8, <2>2, RegistryUntouched DEF HandleClosed
  <2> QED BY <2>1, <2>2
<1>9. CASE WorkerExit
  BY <1>0, <1>9, RegistryUntouched DEF WorkerExit
<1>10. CASE HandleShutdown
  BY <1>0, <1>10, RegistryUntouched DEF HandleShutdown
<1>11. CASE UNCHANGED vars
  BY <1>0, <1>11, RegistryUntouched DEF vars
<1> QED BY <1>1, <1>2, <1>3, <1>4, <1>5, <1>6, <1>7, <1>8, <1>9, <1>10, <1>11 DEF Next

LEMMA Invariance == Spec => []IInv
BY InitInv, NextInv, PTL DEF Spec

\* The reference count of every registered resource is exact, for any number of
\* resources and threads (rct_resource_ref_lk and its callers).
THEOREM RefsAlwaysExact == Spec => []RefsExact
<1>1. IInv => RefsExact
  BY DEF IInv
<1> QED BY <1>1, Invariance, PTL

\* Nothing that a resource, a creating thread or an outside holder points to is
\* ever disposed (_resource_dispose_lk).
THEOREM NothingDangles == Spec => []NoDangling
<1>1. IInv => NoDangling
  BY DEF IInv
<1> QED BY <1>1, Invariance, PTL

\* A creation whose command fails can be undone by giving RCT_INIT_REFS back
\* (the finish: blocks of rct_*_create).
THEOREM CreationsStayApart == Spec => []CreationsApart
<1>1. IInv => CreationsApart
  BY DEF IInv
<1> QED BY <1>1, Invariance, PTL
-----------------------------------------------------------------------------
(***************************************************************************)
(* Closing reaches everything below: the resources form layers, and the    *)
(* descent of a close is as deep as there are layers.                      *)
(***************************************************************************)

LInv == IInv /\ Layered

\* A drop changes neither the type nor the parents of a survivor.
LEMMA DropLayered ==
  ASSUME LInv, NEW d \in [Slot -> Int], NEW C, Drop(d, C), IInv'
  PROVE  Layered'
<1> PICK gone \in SUBSET Live : Drop(d, C)!(gone)
  BY DEF Drop
<1>1. \A s \in Live' : /\ s \in Slot /\ kind'[s] = kind[s] /\ s \in Live
                       /\ parent'[s] = parent[s] /\ via'[s] = via[s]
  BY DEF Live, Kinds, LInv, IInv, TypeOK
<1>2. \A s \in Live' : {parent'[s], via'[s]} \ {None} \subseteq Live'
  BY DEF IInv, NoDangling
<1> QED BY <1>1, <1>2 DEF LInv, Layered, Layer

\* A new resource is registered a layer below its parents.
LEMMA RegisterLayered ==
  ASSUME LInv, NEW t \in Thread, NEW s \in Slot, kind[s] = "free", NEW k \in Kinds,
         NEW p, NEW q, NEW w, Register(t, s, k, p, q, w),
         p # None => p \in Live /\ <<kind[p], k>> \in
            {<<"router", "transport">>, <<"router", "observer">>,
             <<"transport", "producer">>, <<"producer", "consumer">>},
         q # None => q \in Live /\ kind[q] = "transport" /\ k = "consumer"
  PROVE  Layered'
<1> USE DEF LInv, IInv
<1>1. s \notin Live
  BY DEF Live, Kinds
<1>2. /\ kind'[s] = k /\ parent'[s] = p /\ via'[s] = q
      /\ \A x \in Slot \ {s} : /\ kind'[x] = kind[x]
                              /\ parent'[x] = parent[x] /\ via'[x] = via[x]
  BY DEF Register, TypeOK
<1>3. Live \subseteq Slot
  BY DEF Live
<1>4. ASSUME NEW x \in Live
      PROVE  /\ parent'[x] # None => Layer(parent[x])' < Layer(x)'
             /\ via'[x] # None => Layer(via[x])' < Layer(x)'
  BY <1>1, <1>2, <1>3 DEF NoDangling, Layered, Layer
<1>5. /\ p # None => Layer(p)' < Layer(s)'
      /\ q # None => Layer(q)' < Layer(s)'
  BY <1>1, <1>2, <1>3 DEF Layer
<1>6. Live' \subseteq Live \cup {s}
  BY <1>2 DEF Live
<1> QED BY <1>2, <1>4, <1>5, <1>6 DEF Layered

LEMMA CreateLayered == ASSUME LInv, NEW t \in Thread, Create(t), IInv' PROVE Layered'
<1> USE DEF Kinds
<1>1. CASE AcquireWorker(t)
  BY <1>1 DEF AcquireWorker, LInv, Layered, Layer, Live
<1>2. ASSUME NEW s \in Slot, CreateRouter(t, s) PROVE Layered'
  BY <1>2, RegisterLayered DEF CreateRouter
<1>3. ASSUME NEW s \in Slot, NEW p \in Slot, NEW k \in {"transport", "observer"},
             CreateOnRouter(t, s, k, p)
      PROVE Layered'
  BY <1>3, RegisterLayered DEF CreateOnRouter, Found, Live
<1>4. ASSUME NEW s \in Slot, NEW p \in Slot, CreateProducer(t, s, p) PROVE Layered'
  BY <1>4, RegisterLayered DEF CreateProducer, Found, Live
<1>5. ASSUME NEW s \in Slot, NEW p \in Slot, NEW q \in Slot, CreateConsumer(t, s, p, q)
      PROVE Layered'
  BY <1>5, RegisterLayered DEF CreateConsumer, Found, Live
<1> QED BY <1>1, <1>2, <1>3, <1>4, <1>5 DEF Create

LEMMA NextLInv == LInv /\ [Next]_vars => LInv'
<1> SUFFICES ASSUME LInv, [Next]_vars PROVE Layered'
  BY NextInv DEF LInv
<1>0. IInv'
  BY NextInv DEF LInv
<1>1. ASSUME UNCHANGED <<kind, parent, via>> PROVE Layered'
  BY <1>1 DEF LInv, Layered, Layer, Live
<1>2. ASSUME NEW S, NEW n \in Int, NEW C, Drop(Take(S, n), C) PROVE Layered'
  BY <1>0, <1>2, TakeType, DropLayered
<1>3. ASSUME NEW t \in Thread, Create(t) PROVE Layered'
  BY <1>0, <1>3, CreateLayered
<1>4. ASSUME NEW t \in Thread, FinishCreate(t) PROVE Layered'
  BY <1>2, <1>4, InitRefsAssumption DEF FinishCreate
<1>5. CASE HandleClosed
  BY <1>1, <1>2, <1>5 DEF HandleClosed, Close
<1>6. ASSUME NEW t \in Thread, NEW p \in Slot, Unpin(t, p) PROVE Layered'
  BY <1>2, <1>6 DEF Unpin
<1>7. ASSUME NEW s \in Slot, Release(s) PROVE Layered'
  BY <1>2, <1>7 DEF Release
<1> QED BY <1>1, <1>3, <1>4, <1>5, <1>6, <1>7
        DEF Next, vars, CommandSucceeds, CommandFails, Hold, RequestClose, WorkerExit,
            HandleShutdown

LEMMA LInvariance == Spec => []LInv
<1>1. Init => LInv
  BY InitInv DEF Init, LInv, Layered, Live, Kinds
<1> QED BY <1>1, NextLInv, PTL DEF Spec

\* The references between resources never form a cycle (rct_*_create).
THEOREM ResourcesLayered == Spec => []Layered
<1>1. LInv => Layered
  BY DEF LInv
<1> QED BY <1>1, LInvariance, PTL

LEMMA OpenChildrenLower ==
  ASSUME Layered, NEW S, NEW n \in Nat, \A y \in S : Layer(y) >= n,
         None \notin S, NEW x \in OpenChildren(S)
  PROVE  Layer(x) >= n + 1
<1>1. Layer(x) \in 0..3 /\ \A y \in S : Layer(y) \in 0..3
  BY DEF Layer
<1>2. PICK y \in S : Layer(y) < Layer(x)
  BY DEF OpenChildren, Layered
<1> QED BY <1>1, <1>2

\* Closing r closes all that hangs on what it closes.
LEMMA CloseClosed ==
  ASSUME LInv, NEW r \in Live, NEW s \in ClosedBy(r), NEW x \in OpenChildren({s})
  PROVE  x \in ClosedBy(r)
<1> DEFINE c1 == OpenChildren({r})
           c2 == OpenChildren(c1)
           c3 == OpenChildren(c2)
<1>1. None \notin {r} /\ None \notin c1 /\ None \notin c2 /\ None \notin c3
  BY NoneAssumption DEF OpenChildren, Live
<1>2. Layer(r) >= 0
  BY DEF Layer
<1>3. \A y \in c1 : Layer(y) >= 1
  BY <1>1, <1>2, OpenChildrenLower DEF LInv
<1>4. \A y \in c2 : Layer(y) >= 2
  <2> HIDE DEF c1
  <2> QED BY <1>1, <1>3, OpenChildrenLower DEF LInv
<1>5. \A y \in c3 : Layer(y) >= 3
  <2> HIDE DEF c2
  <2> QED BY <1>1, <1>4, OpenChildrenLower DEF LInv
<1>6. CASE s \in c3
  <2>1. Layer(x) >= 4
    BY <1>1, <1>5, <1>6, OpenChildrenLower DEF LInv
  <2>2. Layer(x) \in 0..3
    BY DEF Layer
  <2> QED BY <2>1, <2>2
<1>7. CASE s \in {r} \cup c1 \cup c2
  BY <1>7 DEF ClosedBy, OpenChildren
<1> QED BY <1>6, <1>7 DEF ClosedBy

LEMMA NextCascades == LInv /\ [Next]_vars => CascadeStep
<1> SUFFICES ASSUME LInv, [Next]_vars, NEW s \in Live, ~closed[s], closed'[s],
                    NEW x \in Children(s) \cup Received(s)
             PROVE  closed'[x] \/ kind'[x] = "free"
  BY DEF CascadeStep
<1>1. s \in Slot /\ x \in Slot /\ x \in Live
  BY DEF Live, Children, Received
<1>2. ASSUME NEW d, NEW C, Drop(d, C), C = {} PROVE FALSE
  BY <1>1, <1>2 DEF Drop
<1>3. ASSUME NEW r \in Live, Close(r) PROVE closed'[x] \/ kind'[x] = "free"
  <2>1. PICK gone \in SUBSET Live : Drop(Take(ClosedBy(r), 1), ClosedBy(r))!(gone)
    BY <1>3 DEF Close, Drop
  <2>2. s \in ClosedBy(r)
    BY <1>1, <2>1
  <2>3. closed[x] \/ x \in ClosedBy(r)
    <3>1. closed[x] \/ x \in OpenChildren({s})
      BY <1>1 DEF OpenChildren, Children, Received
    <3> QED BY <2>2, <3>1, CloseClosed
  <2> QED BY <1>1, <2>1, <2>3
<1>4. ASSUME NEW t \in Thread, Create(t) PROVE FALSE
  <2>1. ASSUME NEW y, NEW k, NEW p, NEW q, NEW w, Register(t, y, k, p, q, w) PROVE FALSE
    BY <1>1, <2>1 DEF Register, LInv, IInv, TypeOK
  <2> QED BY <1>4, <2>1 DEF Create, AcquireWorker, CreateRouter, CreateOnRouter,
                            CreateProducer, CreateConsumer
<1>5. ASSUME NEW t \in Thread, FinishCreate(t) PROVE FALSE
  BY <1>2, <1>5 DEF FinishCreate
<1>6. CASE HandleClosed
  <2> DEFINE r == Head(events).id
  <2>1. CASE r \in Live /\ ~closed[r]
    BY <1>3, <1>6, <2>1 DEF HandleClosed
  <2>2. CASE ~(r \in Live /\ ~closed[r])
    BY <1>6, <2>2 DEF HandleClosed
  <2> QED BY <2>1, <2>2
<1>7. ASSUME NEW t \in Thread, NEW p \in Slot, Unpin(t, p) PROVE FALSE
  BY <1>2, <1>7 DEF Unpin
<1>8. ASSUME NEW y \in Slot, Release(y) PROVE FALSE
  BY <1>2, <1>8 DEF Release
<1> QED BY <1>4, <1>5, <1>6, <1>7, <1>8
        DEF Next, vars, CommandSucceeds, CommandFails, Hold, RequestClose, WorkerExit,
            HandleShutdown

\* Closing is transitive at the moment it happens, for any tree of resources.
THEOREM ClosingCascades == Spec => CloseCascades
BY LInvariance, NextCascades, PTL DEF Spec, CloseCascades
=============================================================================
