---------------------------- MODULE RctResources ----------------------------
(***************************************************************************)
(* The registry of media resources (rct.c, rct_router.c, rct_transport*.c, *)
(* rct_producer.c, rct_consumer.c, rct_observer*.c, rct_worker.c): routers *)
(* own transports and observers, transports own producers, a consumer      *)
(* hangs on a producer and on the transport it is received through.  Every *)
(* resource is reference counted; closing one closes what hangs on it and  *)
(* gives back its main reference, and the last reference disposes it.      *)
(*                                                                         *)
(* One step is one critical section of state.mtx.  A creation is several:  *)
(* the resource is registered with RCT_INIT_REFS, the mutex is released    *)
(* while the worker answers, and only then the count is brought down to    *)
(* the main reference; close events, worker exits and other creations      *)
(* interleave freely with it.                                              *)
(***************************************************************************)
EXTENDS Integers, Sequences, FiniteSets

CONSTANTS
  Slot,         \* addresses of resources: the address is the resource id,
                \* and a freed address may be allocated again
  Thread,       \* request threads that create resources
  None,         \* the null pointer
  InitRefs,     \* RCT_INIT_REFS, the references of a resource under construction
  QueueLimit,   \* capacity of the event queue (wrc_stw)
  MaxWorkers    \* bound: worker processes spawned in a behaviour

ASSUME NoneAssumption == None \notin Slot
ASSUME InitRefsAssumption == InitRefs \in Nat /\ InitRefs >= 2
ASSUME QueueLimitAssumption == QueueLimit \in Nat
ASSUME MaxWorkersAssumption == MaxWorkers \in Nat
ASSUME FiniteAssumption == IsFiniteSet(Slot) /\ IsFiniteSet(Thread)

VARIABLES
  kind,       \* type of the resource registered at an address, or "free"
  parent,     \* its router, transport or producer
  via,        \* the receiving transport of a consumer
  refs,       \* its reference count
  closed,     \* its closed flag
  wid,        \* the worker a router runs on
  pc,         \* where a thread is in its creation
  building,   \* the resource a thread is creating
  acquired,   \* the worker a thread has acquired for a new router
  pins,       \* parents a thread keeps referenced until its creation ends
  held,       \* published resources referenced from outside the registry
  events,     \* queue of the event thread
  lost,       \* history: the queue has dropped an event
  worker,     \* id of the worker spawned last, 0 before the first
  up          \* TRUE while that worker runs

vars == <<kind, parent, via, refs, closed, wid, pc, building, acquired, pins,
          held, events, lost, worker, up>>

Kinds == {"router", "transport", "observer", "producer", "consumer"}

\* A registered resource: registration and disposal each share a critical
\* section with the step that makes the count positive or drops it to zero.
Live == {s \in Slot : kind[s] \in Kinds}
Building == {building[t] : t \in Thread} \ {None}

\* Of these, the ones no one has heard of: the CREATED event goes out between
\* the end of the command and the end of the creation.
Unannounced == {building[t] : t \in {u \in Thread : pc[u] \in {"sent", "failed"}}}

Event == [evt : {"closed", "worker_shutdown"}, id : Slot \union {None},
          wid : 0..MaxWorkers]
ClosedEvent(s) == [evt |-> "closed", id |-> s, wid |-> 0]
ShutdownEvent(w) == [evt |-> "worker_shutdown", id |-> None, wid |-> w]

\* es joins what is left of the event queue; what does not fit is dropped.
Post(q, es) ==
  /\ events' = SubSeq(q \o es, 1, IF Len(q \o es) <= QueueLimit
                                   THEN Len(q \o es) ELSE QueueLimit)
  /\ lost' = (lost \/ Len(q \o es) > QueueLimit)
-----------------------------------------------------------------------------
(* Dropping references.  The resources of C are marked closed and d[s]     *)
(* references are taken from s.  A resource whose count falls below one is *)
(* disposed and gives back those it holds on its parent and its receiving  *)
(* transport, which may dispose them in turn.  What is gone at the end is  *)
(* the one set that accounts for itself: references run from consumer to   *)
(* producer to transport to router, never in a cycle.                      *)

\* Mutant: a disposed consumer keeps its reference on the receiving transport.
LossOfParentOnly(d, gone, s) == d[s] + Cardinality({x \in gone : parent[x] = s})

Loss(d, gone, s) == d[s] + Cardinality({x \in gone : parent[x] = s})
                         + Cardinality({x \in gone : via[x] = s})

Disposed(d, gone) == {s \in Live : refs[s] - Loss(d, gone, s) < 1}

Drop(d, C) == \E gone \in SUBSET Live :
  /\ gone = Disposed(d, gone)
  /\ refs' = [s \in Slot |-> IF s \in Live THEN refs[s] - Loss(d, gone, s)
                                           ELSE refs[s]]
  /\ kind' = [s \in Slot |-> IF s \in gone THEN "free" ELSE kind[s]]
  /\ parent' = [s \in Slot |-> IF s \in gone THEN None ELSE parent[s]]
  /\ via' = [s \in Slot |-> IF s \in gone THEN None ELSE via[s]]
  /\ wid' = [s \in Slot |-> IF s \in gone THEN 0 ELSE wid[s]]
  /\ closed' = [s \in Slot |-> s \notin gone /\ (closed[s] \/ s \in C)]

Take(S, n) == [s \in Slot |-> IF s \in S THEN n ELSE 0]
-----------------------------------------------------------------------------
Init ==
  /\ kind = [s \in Slot |-> "free"]
  /\ parent = [s \in Slot |-> None]
  /\ via = [s \in Slot |-> None]
  /\ refs = [s \in Slot |-> 0]
  /\ closed = [s \in Slot |-> FALSE]
  /\ wid = [s \in Slot |-> 0]
  /\ pc = [t \in Thread |-> "idle"]
  /\ building = [t \in Thread |-> None]
  /\ acquired = [t \in Thread |-> 0]
  /\ pins = [t \in Thread |-> {}]
  /\ held = {}
  /\ events = <<>>
  /\ lost = FALSE
  /\ worker = 0
  /\ up = FALSE
-----------------------------------------------------------------------------
(* Creation, first half: up to the unlock before wrc_send_and_wait.        *)

\* Allocate s and register it under p (and, for a consumer, through q); both
\* get one reference from s and one from the creating thread.
Register(t, s, k, p, q, w) ==
  LET owners == {p, q} \ {None} IN
  /\ kind' = [kind EXCEPT ![s] = k]
  /\ parent' = [parent EXCEPT ![s] = p]
  /\ via' = [via EXCEPT ![s] = q]
  /\ refs' = [x \in Slot |-> IF x = s THEN InitRefs
                             ELSE IF x \in owners THEN refs[x] + 2
                             ELSE refs[x]]
  /\ closed' = [closed EXCEPT ![s] = FALSE]
  /\ wid' = [wid EXCEPT ![s] = w]
  /\ pc' = [pc EXCEPT ![t] = "sent"]
  /\ building' = [building EXCEPT ![t] = s]
  /\ pins' = [pins EXCEPT ![t] = owners]
  /\ acquired' = [acquired EXCEPT ![t] = 0]
  /\ UNCHANGED <<held, events, lost, worker, up>>

\* rct_router_create asks for the shared worker, which is spawned on demand...
AcquireWorker(t) ==
  /\ pc[t] = "idle"
  /\ \/ up /\ UNCHANGED <<worker, up>>
     \/ ~up /\ worker < MaxWorkers /\ worker' = worker + 1 /\ up' = TRUE
  /\ acquired' = [acquired EXCEPT ![t] = worker']
  /\ pc' = [pc EXCEPT ![t] = "acquired"]
  /\ UNCHANGED <<kind, parent, via, refs, closed, wid, building, pins, held,
                 events, lost>>

\* ...and registers the router in a critical section of its own.
CreateRouter(t, s) ==
  /\ pc[t] = "acquired"
  /\ kind[s] = "free"
  /\ Register(t, s, "router", None, None, acquired[t])

\* Mutant: the id is known as soon as it is registered.
FoundEarly(p, k) == kind[p] = k

\* A parent is looked up by an id that its creation has announced or returned;
\* whether it is closed is not looked at.
Found(p, k) == kind[p] = k /\ p \notin Unannounced

CreateOnRouter(t, s, k, p) ==
  /\ pc[t] = "idle"
  /\ kind[s] = "free"
  /\ k \in {"transport", "observer"}
  /\ Found(p, "router")
  /\ Register(t, s, k, p, None, wid[p])

CreateProducer(t, s, p) ==
  /\ pc[t] = "idle"
  /\ kind[s] = "free"
  /\ Found(p, "transport")
  /\ Register(t, s, "producer", p, None, wid[p])

CreateConsumer(t, s, p, q) ==
  /\ pc[t] = "idle"
  /\ kind[s] = "free"
  /\ Found(p, "producer")
  /\ Found(q, "transport")
  /\ Register(t, s, "consumer", p, q, wid[p])
-----------------------------------------------------------------------------
(* Creation, second half.                                                  *)

\* The wait for the answer ends without an error: an answer came, be it the
\* worker's error answer, or the wait timed out, which pthread_cond_timedwait
\* reports by a code that RCN does not take for a failure.  A producer and a
\* consumer also need the data of an answer, which only a running worker sends.
CommandSucceeds(t) ==
  /\ pc[t] = "sent"
  /\ kind[building[t]] \in {"producer", "consumer"} => up /\ wid[building[t]] = worker
  /\ pc' = [pc EXCEPT ![t] = "ok"]
  /\ UNCHANGED <<kind, parent, via, refs, closed, wid, building, acquired,
                 pins, held, events, lost, worker, up>>

\* The command could not be sent, its wait failed, the worker exited under it or
\* there is no answer to read.
CommandFails(t) ==
  /\ pc[t] = "sent"
  /\ pc' = [pc EXCEPT ![t] = "failed"]
  /\ UNCHANGED <<kind, parent, via, refs, closed, wid, building, acquired,
                 pins, held, events, lost, worker, up>>

\* The finish: label.  RCT_INIT_REFS goes, the main reference stays on success.
FinishCreate(t) ==
  /\ pc[t] \in {"ok", "failed"}
  /\ Drop(Take({building[t]}, IF pc[t] = "ok" THEN InitRefs - 1 ELSE InitRefs),
          {})
  /\ pc' = [pc EXCEPT ![t] = IF pins[t] = {} THEN "idle" ELSE "unpin"]
  /\ building' = [building EXCEPT ![t] = None]
  /\ UNCHANGED <<acquired, pins, held, events, lost, worker, up>>

\* The thread's own references on the parents go one lock at a time, the
\* receiving transport of a consumer first.
Unpin(t, p) ==
  /\ pc[t] = "unpin"
  /\ p \in pins[t]
  /\ kind[p] = "producer" => \A q \in pins[t] : kind[q] # "transport"
  /\ Drop(Take({p}, 1), {})
  /\ pins' = [pins EXCEPT ![t] = @ \ {p}]
  /\ pc' = [pc EXCEPT ![t] = IF pins[t] = {p} THEN "idle" ELSE @]
  /\ UNCHANGED <<building, acquired, held, events, lost, worker, up>>
-----------------------------------------------------------------------------
(* References from outside, such as a room member's resource_refs.         *)

Hold(s) ==
  /\ s \in Live \ Unannounced
  /\ s \notin held
  /\ held' = held \union {s}
  /\ refs' = [refs EXCEPT ![s] = @ + 1]
  /\ UNCHANGED <<kind, parent, via, closed, wid, pc, building, acquired, pins,
                 events, lost, worker, up>>

Release(s) ==
  /\ s \in held
  /\ held' = held \ {s}
  /\ Drop(Take({s}, 1), {})
  /\ UNCHANGED <<pc, building, acquired, pins, events, lost, worker, up>>
-----------------------------------------------------------------------------
(* Closing.                                                                *)

\* rct_*_close and the worker's own close notifications queue a close event
\* for an id; a resource still under construction is reached by its uuid.
\* Nothing handles WRC_EVT_OBSERVER_CLOSED: an observer closes with its router.
RequestClose(s) ==
  /\ s \in Live
  /\ kind[s] # "observer"
  /\ Post(events, <<ClosedEvent(s)>>)
  /\ UNCHANGED <<kind, parent, via, refs, closed, wid, pc, building, acquired,
                 pins, held, worker, up>>

\* What rct_resource_close_lk reaches from the open resource s: open children
\* of what it closes.  A child that is closed already ends the descent.
OpenChildren(S) == {x \in Live : ~closed[x] /\ (parent[x] \in S \/ via[x] \in S)}

\* Mutant: the descent stops at the children.
ClosedWithChildren(s) == {s} \union OpenChildren({s})

ClosedBy(s) ==
  LET c1 == OpenChildren({s})
      c2 == OpenChildren(c1)
  IN {s} \union c1 \union c2 \union OpenChildren(c2)

Close(s) == Drop(Take(ClosedBy(s), 1), ClosedBy(s))

\* Mutant: a second close event gives the main reference back once more.
HandleClosedAgain ==
  /\ events # <<>>
  /\ Head(events).evt = "closed"
  /\ events' = Tail(events)
  /\ LET s == Head(events).id IN
     IF s \in Live
     THEN Close(s)
     ELSE UNCHANGED <<kind, parent, via, refs, closed, wid>>
  /\ UNCHANGED <<pc, building, acquired, pins, held, lost, worker, up>>

\* Mutant: a resource still under construction is passed over.
HandleClosedIfBuilt ==
  /\ events # <<>>
  /\ Head(events).evt = "closed"
  /\ events' = Tail(events)
  /\ LET s == Head(events).id IN
     IF s \in Live \ Building /\ ~closed[s]
     THEN Close(s)
     ELSE UNCHANGED <<kind, parent, via, refs, closed, wid>>
  /\ UNCHANGED <<pc, building, acquired, pins, held, lost, worker, up>>

HandleClosed ==
  /\ events # <<>>
  /\ Head(events).evt = "closed"
  /\ events' = Tail(events)
  /\ LET s == Head(events).id IN
     IF s \in Live /\ ~closed[s]
     THEN Close(s)
     ELSE UNCHANGED <<kind, parent, via, refs, closed, wid>>
  /\ UNCHANGED <<pc, building, acquired, pins, held, lost, worker, up>>

\* The worker process exits; its exit is announced through the event queue.
WorkerExit ==
  /\ up
  /\ up' = FALSE
  /\ Post(events, <<ShutdownEvent(worker)>>)
  /\ UNCHANGED <<kind, parent, via, refs, closed, wid, pc, building, acquired,
                 pins, held, worker>>

\* _rct_on_worker_shutdown queues a close event for each of the worker's
\* routers, in the order of the hash map.
HandleShutdown ==
  /\ events # <<>>
  /\ Head(events).evt = "worker_shutdown"
  /\ LET orphans == {s \in Live : kind[s] = "router"
                                  /\ wid[s] = Head(events).wid}
     IN \E order \in [1..Cardinality(orphans) -> orphans] :
          /\ \A s \in orphans : \E i \in DOMAIN order : order[i] = s
          /\ Post(Tail(events), [i \in DOMAIN order |-> ClosedEvent(order[i])])
  /\ UNCHANGED <<kind, parent, via, refs, closed, wid, pc, building, acquired,
                 pins, held, worker, up>>
-----------------------------------------------------------------------------
Create(t) ==
  \/ AcquireWorker(t)
  \/ \E s \in Slot : CreateRouter(t, s)
  \/ \E s, p \in Slot, k \in {"transport", "observer"} : CreateOnRouter(t, s, k, p)
  \/ \E s, p \in Slot : CreateProducer(t, s, p)
  \/ \E s, p, q \in Slot : CreateConsumer(t, s, p, q)

Next ==
  \/ \E t \in Thread : Create(t)
  \/ \E t \in Thread : CommandSucceeds(t)
  \/ \E t \in Thread : CommandFails(t)
  \/ \E t \in Thread : FinishCreate(t)
  \/ \E t \in Thread, p \in Slot : Unpin(t, p)
  \/ \E s \in Slot : Hold(s)
  \/ \E s \in Slot : Release(s)
  \/ \E s \in Slot : RequestClose(s)
  \/ HandleClosed
  \/ WorkerExit
  \/ HandleShutdown

Spec == Init /\ [][Next]_vars

\* The event thread runs whenever its queue is not empty; a command is answered
\* or times out (command_timeout_sec); a thread in a finish: block goes on.
Fairness ==
  /\ WF_vars(HandleClosed \/ HandleShutdown)
  /\ \A t \in Thread :
       /\ WF_vars(CommandSucceeds(t) \/ CommandFails(t))
       /\ WF_vars(FinishCreate(t))
       /\ WF_vars(\E p \in Slot : Unpin(t, p))

FairSpec == Spec /\ Fairness
-----------------------------------------------------------------------------
(* Properties.                                                             *)

Children(s) == {x \in Live : parent[x] = s}
Received(s) == {x \in Live : via[x] = s}
Pinners(s) == {t \in Thread : s \in pins[t]}

\* The reference of the resource on itself: RCT_INIT_REFS while it is being
\* built, the main reference afterwards, one less once it has been closed.
Own(s) == (IF s \in Building THEN InitRefs ELSE 1)
          - (IF closed[s] THEN 1 ELSE 0)

TypeOK ==
  /\ kind \in [Slot -> Kinds \union {"free"}]
  /\ parent \in [Slot -> Slot \union {None}]
  /\ via \in [Slot -> Slot \union {None}]
  /\ refs \in [Slot -> Int]
  /\ closed \in [Slot -> BOOLEAN]
  /\ wid \in [Slot -> 0..MaxWorkers]
  /\ pc \in [Thread -> {"idle", "acquired", "sent", "ok", "failed", "unpin"}]
  /\ building \in [Thread -> Slot \union {None}]
  /\ acquired \in [Thread -> 0..MaxWorkers]
  /\ pins \in [Thread -> SUBSET Slot]
  /\ held \subseteq Slot
  /\ events \in Seq(Event)
  /\ Len(events) <= QueueLimit
  /\ lost \in BOOLEAN
  /\ worker \in 0..MaxWorkers
  /\ up \in BOOLEAN

\* The references on s that are not other resources'.
Claims(s) == Own(s) + Cardinality(Pinners(s)) + (IF s \in held THEN 1 ELSE 0)

\* Reference counts are exact: a registered resource is counted once for
\* itself, once for every resource that hangs on it, once for every thread in
\* the middle of a creation under it and once for its outside holder, whatever
\* closes, failures and worker exits came between (rct_resource_ref_lk).
RefsExact ==
  \A s \in Live :
    refs[s] = Claims(s) + Cardinality(Children(s)) + Cardinality(Received(s))

\* Memory is not freed under a user (_resource_dispose_lk): the parents of a
\* registered resource, the resource a thread builds, the parents it pins and
\* the resources held from outside are all still registered.
NoDangling ==
  /\ \A s \in Live : {parent[s], via[s]} \ {None} \subseteq Live
  /\ Building \subseteq Live
  /\ \A t \in Thread : pins[t] \subseteq Live
  /\ held \subseteq Live

\* A creation can be undone: no two threads build the same resource, and until
\* the worker has answered nothing hangs on it and no one refers to it, so giving
\* RCT_INIT_REFS back disposes it (the finish: blocks of rct_*_create).
CreationsApart ==
  /\ \A t \in Thread : building[t] # None <=> pc[t] \in {"sent", "ok", "failed"}
  /\ \A t \in Thread : pc[t] \in {"idle", "acquired"} => pins[t] = {}
  /\ \A t, u \in Thread : building[t] = building[u] => t = u \/ building[t] = None
  /\ \A s \in Unannounced :
       /\ Children(s) = {}
       /\ Received(s) = {}
       /\ Pinners(s) = {}
       /\ s \notin held

\* The inductive invariant behind the two.
IInv == TypeOK /\ RefsExact /\ NoDangling /\ CreationsApart

\* References run from consumers and observers up to routers and never in a
\* cycle, so that closing ends and disposing settles (rct_resource_close_lk,
\* _resource_dispose_lk): what a resource hangs on is of a higher layer.
Layer(s) == CASE kind[s] = "router" -> 0
              [] kind[s] = "transport" -> 1
              [] kind[s] = "producer" -> 2
              [] OTHER -> 3

Layered ==
  \A s \in Live : /\ parent[s] # None => Layer(parent[s]) < Layer(s)
                  /\ via[s] # None => Layer(via[s]) < Layer(s)

\* Closing is transitive at the moment it happens: whatever hangs on a resource
\* when it becomes closed, directly or through a consumer's receiving
\* transport, is closed or gone in the same step, also when it is still under
\* construction (rct_router_close_lk, rct_transport_close_lk,
\* rct_producer_close_lk).
CascadeStep ==
  \A s \in Live : ~closed[s] /\ closed'[s] =>
    \A x \in Children(s) \union Received(s) : closed'[x] \/ kind'[x] = "free"

CloseCascades == [][CascadeStep]_vars

QueuedFor(s) == \E i \in DOMAIN events : events[i] = ClosedEvent(s)

\* A close event that made it into the queue is honoured: the resource it names
\* ends up closed or disposed even when its creation is still in flight.
CloseHonoured ==
  \A s \in Slot : QueuedFor(s) ~> (s \notin Live \/ closed[s])

\* Unless the event queue overflows, a router that runs on an exited worker when
\* the exit reaches the head of the event queue ends up closed or gone, also when
\* its creation is still in flight (_rct_on_worker_shutdown).
Doomed(s) ==
  /\ s \in Live
  /\ kind[s] = "router"
  /\ \E i \in DOMAIN events : events[i] = ShutdownEvent(wid[s])

DeadWorkersDrained == \A s \in Slot : Doomed(s) ~> (lost \/ s \notin Live \/ closed[s])
=============================================================================
