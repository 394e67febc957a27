# Formal model of the Wirow server

Wirow is a video conferencing server: a C program (`src/src`) that keeps users,
rooms and whiteboards, talks to browsers over HTTP and websockets, and drives
`mediasoup` worker processes that move the media.  This directory holds TLA+
modules translated from that C code, TLC configurations that check them on small
instances, and TLAPS proofs of theorems about them.

    tlc -config RctRegistry.cfg MCRctResources.tla    check one run
    tlapm RctRoom_proof.tla                           check the proofs of a module

`PROJECT.json` maps every definition to the lines it models, lists the runs, the
mutated definitions each property rejects, the hazards and the theorems.

## 1. Inventory

### Components

| Component | State | Operations | Model |
|---|---|---|---|
| Resource registry (`rct/rct.c`, `rct_router.c`, `rct_transport*.c`, `rct_producer.c`, `rct_consumer.c`, `rct_observer*.c`, `rct_worker.c`) | maps id -> resource and uuid -> resource under one mutex `state.mtx`; per resource a type, a reference count, `closed`, its parent and child lists | `rct_*_create`, `rct_*_close`, `rct_resource_ref_*`, event handler `_event_handler`, worker shutdown | `RctResources` |
| Worker commands (`wrc/wrc.c`) | list of messages awaiting an answer, `seq`, map of workers, event queue | `wrc_send`, `wrc_send_and_wait`, `_on_msg`, `_on_closed`, `wrc_notify_event_handlers` | `WrcMessages`; the event queue is in `RctResources` |
| Worker process (`wrc/local/wrc_adapter_local.c`) | child process, two pairs of pipes, buffers | spawn, framed writes and reads, exit callback | `WorkerChannel`, `Channel`; the exit is in the models of those it reaches |
| Rooms (`rct/rct_room.c`) | rooms and members as registry resources of their own; list of members; `close_pending`; sessions' member | create, join, leave, close, idle close, session closed | `RctRoom` |
| Media of members (`rct_room.c`) | a member's transports, producers and consumers, acquired streams | transports_init, produce, consume, acquire_room_streams, close | `RoomStreams` |
| Media negotiation (`rct_router.c`, `rct_producer.c`, `rct_consumer.c`, `rct_utils.c`, `rct_h264.c`) | none: RTP capabilities and parameters are computed | capabilities of a router, mapping of a producer, parameters of a consumer, H.264 profiles | `Negotiation`, `H264` |
| Room history (`rct_room.c`, `grh_ws_user.c`, `gr_db_init.c`) | documents of rooms with their logs, copies by session, the users' lists of rooms | events of rooms, messages, rename, removal | `RoomHistory` |
| Recording (`rct_room_recording.c`, `rct_producer_export.c`) | slots of exported producers, one ffmpeg process each | start, stop, events of producers, room closed | `RoomRecording`, `Recording` |
| Post-processing (`rec/recording_postproc.c`) | lists of media, points and steps of one run | collect, repair, filter, cut, lay out | `Postproc` |
| Persistent tasks (`gr_task_worker.c`) | `tasks` collection with a status, one worker thread, a periodic timer | submit, process oldest, complete | `TaskQueue`, `TaskWorker` |
| Sessions (`grh_ws.c`) | tickets in the database, session per file descriptor and per uuid | ticket pull, register, dispose, broadcast | `WsSessions` |
| Whiteboard (`wb/wb.c`) | rooms of elements with versions, load and save tasks | open, join, update, leave, save | `Board`, `Whiteboard` |
| Certificates (`acme/acme.c`) | a document per domain, one synchronisation, the challenge's token | sync, renew, serve the token | `Acme` |
| Gauges (`gr_gauges.c`) | rows of levels, one thread, a periodic repetition | set, repeat, notify | `Gauges` |
| HTTP handlers, uploads, licence and updates, start-up, configuration, front end | - | - | section 8 |

### How they interact

    browser --ws/http--> grh_ws --> rct_room --> rct_* (registry) --> wrc --> worker process
                            ^           ^             ^                 |
                            |           |             |   event queue   |
                            +--- rooms' and recording's handlers <------+
                                        |
                   database: rooms, users, tasks, tickets, boards, gauges, domains

* A request runs in the poller thread of its connection and calls through rooms
  into the registry.  All registry and room state is under `state.mtx`, which
  `rct_*_create` gives up while the worker answers.
* Everything the worker says arrives in its poller thread.  Answers complete a
  message (`_on_msg`); notifications, and the closes the server asks for, go
  through a bounded queue to one event thread, which runs the event handlers.
* A worker's exit fails its outstanding commands at once (`_on_closed`) and closes
  its routers through the event queue.
* A recorded room that closes submits a persistent task; the task worker runs the
  post-processing for it.  The periodic timer of the task worker also drops old
  tickets, repeats the gauges' rows and starts the synchronisation of the certificate.
* The registry's reference counts tie the layers: a child references its
  parents, a creation its parents, a room its router, a member its resources.

### Hard behaviours

* a creation is in flight while its parent, its worker or it itself is closed;
* a close must reach a whole tree, one child of which hangs on two parents;
* an answer, a timeout and a worker's exit race for one message, which the sender
  frees;
* two requests create the same room, or join a room that is being closed;
* recording follows producers from the event thread while requests start and
  stop it; ffmpeg processes end on their own;
* a stream is announced to the members there are while another asks for the streams
  there are, and transports are replaced under both;
* a task, a whiteboard's save, a renewal of the certificate or the copy of a room's
  document is interrupted by a failure or a crash;
* lists and documents of the database are read, changed and written back by several
  threads; file descriptors are used again.

### What makes each component correct

* registry: counts are exact, nothing in use is freed, a close reaches what hangs
  on a resource, close requests and worker exits are honoured;
* commands: every call returns, with its own answer; no wake-up is lost; the list
  stays a list; an answer finds its sender; errors are reported;
* rooms: a room's members are exactly the sessions in it, once each; an abandoned
  room closes, one with members stays; closing a room closes its members;
* media: who should see a stream gets it, what a leaver had is closed; a consumer
  plays what its producer sends; an H.264 answer means what was agreed;
* recording: a producer being recorded has one export, and none once the room is
  closed; every process belongs to a slot; what was recorded is post-processed, and
  the result shows what was recorded;
* tasks: oldest first, a completed task never runs again, every task runs;
* channel: messages arrive whole and in order;
* sessions: a ticket opens one session; both maps agree and name live sessions;
* whiteboard: an element never goes back to an older version, what was accepted is
  saved, whoever is in the room is told;
* history: nothing logged is lost, a log is of its session, lists show the last rooms;
* certificates: what is stored fits, the challenge is served, a certificate comes;
* gauges: rows tell of levels that were counted.

## 2. Modules

### RctResources - the registry of media resources

State per address (`Slot`): `kind`, `parent`, `via` (a consumer's receiving
transport), `refs`, `closed`, `wid`.  An address is a resource's id, as in the
code (`b->id = (uintptr_t) b`), and is used again after disposal.  State per
request thread: `pc`, the resource it is `building`, the parents it has pinned.
`events` is the queue of the event thread (bounded, full means dropped: `lost`
records it), `worker` and `up` the shared worker process, `held` what a room
member or another holder references from outside.

One step is one critical section of `state.mtx`:

| Action | Code |
|---|---|
| `AcquireWorker`, `CreateRouter`, `CreateOnRouter`, `CreateProducer`, `CreateConsumer` | `rct_*_create` up to the unlock before the worker is asked: `RCT_INIT_REFS` on the new resource, two references on each parent (one of the child, one of the thread) |
| `CommandSucceeds`, `CommandFails` | the command's end without and with an error |
| `FinishCreate`, `Unpin` | the `finish:` block, one lock at a time |
| `Hold`, `Release` | references from outside (`resource_refs` of a room member) |
| `RequestClose`, `HandleClosed` | `rct_*_close` and the event handler that closes |
| `WorkerExit`, `HandleShutdown` | a worker's exit and the close events for its routers |

Closing and disposing are one step each in the code's sense: `rct_resource_close_lk`
recurses over children under the lock, and the last reference disposes parents on
the way up.  The model takes the *result* of that recursion: `ClosedBy` is the set
of resources a close reaches, and `Drop` says that the set `gone` of disposed
resources is the one that accounts for itself.  `Layered` is why that set is
unique.  What depends on the order of the recursion (a loop that keeps a pointer
to the next child while closing one) is not visible here.

A close event may reach a resource under construction.  If its creation then fails,
`finish:` takes all of `RCT_INIT_REFS` although the close has taken one: the count
is -1 when the resource is disposed, the state that the code logs as
`RCT_ERROR_UNBALANCED_REFS`.  Nothing else comes of it, and `Own` says so.

Abstractions: transports of all kinds are one kind, as are both observers and
plain and data producers; a parent's `transport`/`producer` list is the set of
resources whose `parent` or `via` it is; commands that change no registry state
(pause, resume, stats) are left out; allocation does not fail.

### WrcMessages - commands and answers

State: message memory (`id`, `next`, `inWait`, `rc`, `data` per address, `id = 0`
for freed memory), the list `_reply` with `head` and `tail`, per caller `pc`, its
message `at` and its `result`; `inbox` holds the commands the worker has yet to
answer; `hm` and `answer` are what the poller holds between unlinking a message
under `_mtx` and completing it without.  `Allocate`, `Enqueue`, `Transmit`,
`Refused`, `BeginWait`, `WaitEnds`, `Woken`, `UnlinkOwn` and `Free` are the caller in
`wrc_msg_create`, `wrc_send_and_wait` and `wrc_msg_destroy`; `OnMsg` and `Complete`
the poller in `_on_msg`; `OnClosed` and `AdapterGone` the worker's exit.  `SendAsync`
is a message nobody waits for.

The list is modelled pointer by pointer because its shape is what goes wrong:
`_worker_send_msg` links a message behind `_reply_tail` and does not advance it, so
every message after the second replaces the one linked before it.  The list
never holds more than two, and the properties are stated of the list as it is.
`HandlerAlive`, `OwnAnswer` and `NoLostWakeup` are stated for waits that last until the
answer (`Timeouts = FALSE`): with timeouts the poller may touch a message that its
sender has freed.

### RctRoom - rooms and members

State: per session its user, its member and where its handler of `room_create`
is; per room address the room (`closed`, `pending` for `close_pending`, `armed` for
`close_pending_task`, its `members`); per member address its room, session,
`closed`, and whether a request has it `pinned`; the map `byUuid`; the idle `timers`
by room id; `deciding`, rooms whose idle task has released the lock; `asked`, routers
whose close event is on its way.  `leaked` marks a room whose reference is never
given back and `waiting` (history) a room that has been empty since its last timer
was armed.

| Action | Code |
|---|---|
| `Connect`, `Disconnect`, `Leave` | a session's start, its close listener, `room_leave` |
| `Lookup`, `Decide` | `room_create`: the uuid is looked up, and `close_pending` read without the lock |
| `JoinRoom`, `DropGuard` | `_room_join` of the room found, then the guard goes |
| `MakeRouter`, `CreateFails`, `CreateRoom`, `EndCreate` | a router of its own, `_rct_room_create` with its first member, observers |
| `Pin`, `Unpin` | a request that holds a member while the worker answers |
| `IdleTask`, `IdleClose` | `_room_close_if_no_members_task` on both sides of its unlock |
| `RouterClosed`, `WorkerExit` | the event thread closes a router and its room; a worker exits |

References are not counted here, `RctResources` does that: a room is disposed at
the end of the critical section in which the last of its holders (registered
members, guards, a leak) goes.  A room and its router share one address, which is
not allocated again while the thread that made the router still has its id.  A
generated uuid is one that no other session asks for.  What the event handlers
write to the database is `RoomHistory`; the one thing a join reads from there, a
member uuid used before, is a choice (`Namesakes`).

### RoomStreams - the media of a room's members

A member has receiving transports (`recvs`, the newest first, is the one consumers
go to) and sending ones, producers on the latter and consumers on the former.  A
stream reaches a member on one of two ways: its producer's request offers it to the
members there are, or the member's request `acquire_room_streams` finds it.  Both
collect under the lock (`request[m].todo`) and create the consumers one by one
without it.  `refs` is `member->resource_refs`; `acquired` and `missed` (history) tell who
has asked and whose creation failed; `closes` are close events under way.  Ids are
not used twice and counts are left to `RctResources`.  `Ask` says which directions a
browser asks transports for; it is a constant so that small instances can be cut to
one sender and one receiver.

### Negotiation and H264 - what one sends and another gets

Pure computations, run once from every input: `MakeRouter` makes the capabilities of
the router from configured codecs and assigns payload types, `Produce` maps the codecs
of a producer to them, `Consume` filters them for a device.  A format is what
`rct_utils_codecs_is_matched` tells apart; bytes, URIs and SSRCs are left out.

The properties of payload types are stated for configurations that list codecs with a
configured type first (`ConfiguredFirst`): a type given from the pool is not taken
back when a later codec is configured with it, and then two codecs of a router share
a type; the same comes of a type that is configured and also fixed for another format.
The fixed types are assumed to be apart and not in the pool, as those of the code are.
A list that the code appends to is a function on places that may have gaps: the
consumable codecs are at 2i, repetitions of them at 2i + 1.  `H264` has the patterns, the parser and `h264_codec_match`.  `AnswerUnderstood`
leaves out pairs with level 1b: the level number of 1b is 0, which the code compares
as such only in part (it takes 1b for higher than every level but 1), so that the
answer to an offer of 1b may name the higher of the two levels.

### RoomRecording and Recording - recording a room

`export` holds exports with their consumers, `slots` and `process` the recorder's slots
and ffmpeg processes.  Two threads build exports, the one that starts a recording
(`StartNext`) and the event thread (`Handle`); `Build` has one step per critical section:
link, consume, register, slot, spawn, own.  `Superseded`, `SlotsWithout` and `Killed` are the
helpers in which the code decides who is closed.  A consumer's event that finds no
consumer ends the model in `Crash`, where the code dereferences a null pointer.
`raced` (history) marks exports that were closed under the thread that builds them,
whose process then is nobody's; the properties name these and the failed ones as
exceptions.  A room is closed once (`rct_resource_close_lk` returns when it is closed), however
many closings of its router are under way.  `Recording` composes the recorder with `TaskQueue`, the abstract queue that
`TaskWorker` implements: the task that a closed room submits is settled in the end.

### Postproc - the time line of a recording

`Collect` and `Fix` decide which media there are, `Sort` lists the points at which one
starts or ends, `Cut` takes a point, updates the list of what lasts and closes a step.
`Active`, `Heard`, `Columns` and `Cell` lay a step out.  The filter in front of `Sort` is
inverted in the code (run `filtered`): a medium it keeps wrongly may have a duration
that was not read; the model takes the one the file name and the repair left.
Equal points are in any order, as `qsort` leaves them.

### TaskQueue and TaskWorker - persistent tasks

`TaskQueue` is what the worker promises: tasks settled oldest first, each once, each in
the end; a task whose outcome could not be stored is `skipped` and may be passed; a
crash brings back what was last saved.  `TaskWorker` is the code: the collection with a
status per task, the `queued` call of the single thread, the scan that visits newest
first and stops at the first completed task (`Visited`), the handler, postponing, the
status stored or not, `Savepoint`, `Crash`, `Exit` and `Restart`.  `IsQueue` is
`Queue!Spec` under the mapping of statuses to the set that waits.

### Channel and WorkerChannel - the pipes to a worker process

`Channel` promises messages whole, once and in order.  `WorkerChannel` has the write
buffer and whether the poller is armed, a pipe that takes a part of a write, reads of
bounded size, the length header that may be split, and the limit on the read buffer.
A unit of a message is a pair of its message and its place in the frame, so that a
wrongly cut frame shows.  The worker itself is not there: what it gets it sends back.

### WsSessions - websocket sessions

`ticket` (the database), `conn` (connections with their session), the maps `byWsid` by
descriptor and `byUuid`, and a `sender` that has collected descriptors and sends later.
A descriptor is used again as soon as its connection is closed, before the session of
it is disposed.  `misled` (history) records messages that reached somebody else.

### Board and Whiteboard - whiteboards

`Board` promises that an element never goes back to an older version, and that what
is stored follows; a crash may lose what was not stored.  `Whiteboard` has the room in
memory with its references, the load and save task step by step with its failures,
the sessions' joining and greeting, edits committed under the lock and told after it,
the browsers with their inboxes, and the crash.  An element is its version.

### RoomHistory - what the database remembers

`sess` are the sessions of rooms, numbered: the number stands for the `cid`.  `doc` is
the document of a uuid, `archive` the copies by cid, `rooms` the users' lists.  The
event thread handles `queue`, one event at a time, a step per database call (`hand`);
requests (messages, renaming, removal) run beside it, and the server may stop between
any two steps.  In a webinar only the owner's coming and going is logged.  Left out: the records of `joins`, documents in
the format of older versions, the entries `recstart` and `recstop`, reading the history.

### Acme - certificates

One synchronisation at a time: load, account, keys, order, authorization, token,
validation by the authority (which asks for the token at its own time), download,
store, hand to HTTPS.  Every request may fail; `Crash` may come at each step and
`Restart` starts from the document.  Time is counted in units of a certificate's life.

### Gauges - the history of a level

`queue` and `setting` are the thread that adds a row when the newest differs, `round` is
the periodic worker that repeats the newest row and deletes its copy if a change came
between (`Overtaken`), `told` the notifications.  Times and the deletion of old rows
are left out.  `origin` (history) says of each row which of the numbers counted it tells
of, so that `NoFalseLevel` can be said of row and number: a row has the level it tells of,
and rows are in the order in which their numbers were counted.  The newest row after a
restart tells of the restart, whether it was added or found there.

### Compositions and MC modules

`Recording` composes components that interact.  `RctRoom` rests on what
`RctResources` promises of references, `RoomStreams` on both.  `MCParts`, `MCLive` and
`MCRooms` are not compositions: one run of theirs checks several components that do
not meet, a behaviour being one of the component that `part` chooses at the start.
`MCRctResources`, `MCRctRoom` and `MCWrcMessages` add symmetry and bounds, `MCRooms` the
symmetry of uuids, which nothing orders.

## 3. Runs

| Run | Instance | Question |
|---|---|---|
| `registry` | 4 resources, 2 threads, 1 worker, queue of 1 | are counts exact, is nothing in use freed, can a creation always be undone, does a close reach everything? |
| `close_liveness` | 2 resources, 2 threads, queue of 2 | are close events and worker exits honoured? |
| `answers` | 3 callers, 3 messages, 4 commands, no timeouts | own answers, no lost wake-up, no use of a freed message |
| `returns` | 2 callers, 2 messages, 3 commands, timeouts | does every call return? |
| `rooms` | 2 sessions, 2 users, 2 rooms of one uuid, 2 members | do rooms, members and sessions agree, once per user? |
| `room_idle` | 2 sessions, 2 users, 1 room address, 2 timers | is an empty room closed in the end, does a close take its members? |
| `recorded` | 1 producer, 2 exports, the queue of tasks | does a closed room fall quiet, is what was recorded post-processed? |
| `streams_and_logs` | 1 sender and 1 receiver with 2 transports; or 2 users and 2 uuids with 2 sessions | do streams reach, is what a leaver had closed; does the database keep what was logged, where it belongs? |
| `parts` | six components, see `Parts.cfg` | recording, sessions, post-processing, codecs, H.264, and whether `Whiteboard` implements `Board` |
| `live` | five components, see `Live.cfg` | do `TaskWorker` and `WorkerChannel` implement `TaskQueue` and `Channel`, liveness included; does a left whiteboard go, a certificate come; do rows of a gauge tell the truth? |
| `lost_reply` | 2 callers | *violated*: an answer without its sender |
| `filtered` | 3 media | *violated*: an unreadable medium passes the filter |

Bounds and why they are enough.

* `registry`: four resources with two threads hold a creation under a parent while
  another thread creates or fails beside it and the event thread closes either, and
  the longest chain there is (router, transport, producer, consumer).  A consumer
  between two different transports takes a fifth; the proofs cover it.  A queue of
  one overflows at once, the liveness run has room for a shutdown and a close.
  `OneHeld` allows one outside reference at a time, which are alike, and none while
  both threads create; the proofs have no such bound.
* `answers`, `returns`: three messages show all of the stale tail (one to be left
  behind, one whose link is overwritten, one that overwrites it); memory is reused as
  soon as it is freed.
* `rooms`, `room_idle`: two rooms of one uuid and two sessions are what a race of
  creations needs; one room address and two timers let a timer outlive its room and
  meet the next one.  `OnePinned` and `OneAsked` bound requests and closes under way.
* `recorded`, `parts` (recording): one producer, two exports, so that one is built
  while another is closed; one pause, failure or process that ends by itself
  (`MaxTroubles`) in the safety run and none in the liveness run; one slot
  (`MaxProcesses`), which is full at once; members act while no event is queued
  (`Backlog`).
* `streams_and_logs`: one stream, a receiver whose transport is replaced once, one
  failed creation.  History: two sessions, the first of which an earlier run of the
  server may have left behind (`MaxSess`, with and without the copy that a stop in
  the middle leaves), three joins, one request or restart, one queued event, a list
  of one room (`MaxHistory`), the second session a webinar.
* `parts`: three connections for two descriptors, so that one is used again while its
  first session is not disposed; two tickets.  Three media and four instants: all
  orders and coincidences of their starts and ends.  Two codecs on each side, a fixed
  type, types of the pool and outside it.  The H.264 bits and levels that the
  patterns and the comparisons tell apart.  One element with two versions, three
  joins, a failure and a crash for a whiteboard.
* `live`: three tasks, one status that is not stored, one crash and one postponed
  task; message sizes that fit the pipe, fill it and fill the read buffer; a
  certificate that expires after three of five units of time, with three failures;
  three changes of a gauge over two rounds of the periodic worker, and a crash.

Deadlock is not checked: every instance comes to rest when its bounds are reached,
and a server without requests may rest.

Fairness.

* `RctResources`: the event thread runs while its queue is not empty (its worker
  thread does nothing else), a command is answered or times out
  (`command_timeout_sec`, 30 by default and taken to be positive), a thread inside a
  `finish:` block goes on.
* `WrcMessages`: threads go on, a wait times out, the poller completes what it has
  read; the worker need not answer.
* `RctRoom`: a scheduled task runs, goes on after its unlock, and the close event is
  handled; nobody need leave or join.
* `RoomRecording`, `Recording`: threads that start and stop a recording go on, the
  event thread runs, a process that is killed ends; the task worker runs.
* `TaskWorker`: the worker's thread runs, the timer fires, a server that is told to
  stop stops, and one that is down is started again.
* `Whiteboard`: the pool's threads and the sessions' go on.
* `WorkerChannel`: the poller calls what is ready.
* `Acme`: steps are taken, the periodic worker starts a synchronisation, the authority
  validates, a server that is down is started.

Nothing is assumed of requests, and no outcome is.

## 4. Refinements

* `TaskWorker` implements `TaskQueue` (`IsQueue`, with its fairness; the steps are also
  proved, for any number of tasks: `WorkerIsQueue`).
* `WorkerChannel` implements `Channel` (`IsChannel`, with its fairness; the steps are also
  proved, for any sizes: `ChannelDelivers`).
* `Whiteboard` implements `Board` (`IsBoard`): the board is the room's when loaded and the
  stored one otherwise.

## 5. Proofs

Eight modules prove their theorems for every value of the constants; the assumptions
are the named `ASSUME`s and bounds of the modules (finite sets, `None` not among the
others, `RCT_INIT_REFS >= 2`).

**`RctResources_proof`** (any number of addresses, threads and workers, any queue):
`TypeCorrect`; `RefsAlwaysExact`, `NothingDangles`, `CreationsStayApart`; `ResourcesLayered`;
`ClosingCascades`.  None of the three middle invariants is inductive alone.  A count
stays exact only if the resource that goes had nobody else (`NoDangling`); nothing
dangles only because a count below one means that nobody refers (`RefsExact`); and
giving `RCT_INIT_REFS` back is right only if the resource has no children yet
(`CreationsApart`).  `IInv == TypeOK /\ RefsExact /\ NoDangling /\ CreationsApart` is
inductive.  The centre is `DropStep` and `DropSafe`: whatever references are dropped,
if no one takes more than there are claims, the disposed set is closed upwards under
"nothing refers to it" and the counts of the rest stay exact.  `Layered` is proved on
top (a parent found has the kind its child needs), and `ClosingCascades` from both:
`ClosedBy` takes three rounds, and layers leave no room for a fourth.

**`RctRoom_proof`** (any number of sessions, users, rooms and members): `TypeCorrect`,
`MembersAlwaysAgree`, `NothingDangles`, `UsersOnce`, `AbandonedWatched` (the safety half of
`AbandonedCloses`: an open room without members has a timer, a task or a close event
under way) and `ClosingAlwaysEmpties`.  The steps of the code do several things at once:
a join removes the members it replaces, drops the rooms that lose their last holder,
and adds a member.  The proof follows them in stages: lemmas about what removal,
disposal and joining keep, each stated of a pair of states, and one lemma per action
that chains them.  The inductive invariant has three groups: `Whole` (types, free addresses are blank, and the
properties of members, rooms and sessions), `Places` (what a handler of `room_create`
carries from step to step) and `Watched` (an open room without members has armed a
timer, which is still on its way to close it).

**`Rooms_proof`** (of the two sides of `MCRooms`).  `TypeCorrect`, `StreamsAlwaysReach`,
`LeaversAlwaysClosed` are of `RoomStreams` (any number of members, transports, producers,
consumers and failures).  The two lists from
which consumers are made, the streams of a newcomer and the listeners of a new stream,
are read at different times, so the heart of the invariant is `Reach`: an open stream of
one member and an open receiving transport of another that has asked for streams are
served by a consumer, or a request is about to make one *on that transport*
(`Served`).  A step breaks it in five ways, and each has its own part: a consumer closes
only with its producer or transport or because its creation failed (`WhyClosed`, with
`Parents`); the request that was to create it ends (`Works`: what a request works with was
made, and for members of the room); the transport found is not the one meant (`OnlyFirst`:
only the newest is neither closed nor about to be); the transport is replaced meanwhile
(`Replacing`: its member has not asked again, and those it had are being closed); a
member that leaves and its request hand things to each other (`Joined`, `Gone`,
`OwnTransports`, `Placed`; the last three give `LeaversClosed`).  `Used` says that what is
referred to was created, so that a new resource is nobody's.  It rests on the ids of the
kinds of resources being apart and `None` being no offer.

`LogsAlwaysOwn` and `NeverForgotten` are of `RoomHistory` (any number of users, uuids,
sessions, requests and restarts, any backlog of events; `HistoryAssumption` asks only that
the bounds are numbers and that there may be one session).  That an entry is in the log of
its session rests on what the event thread may rely on.  A session is created before
anything happens to it and in the order of its number (`InOrder`); what happens to it is
posted before the next session of its uuid is created, or that one was created beside it
(`InTurn`, from `Neighbours`: who is registered then is recorded as beside); a uuid's
document is of its newest session that got one, and no copy is of a newer one
(`Newest`); a log tells only of sessions whose creation has been handled (`Logs`), so a new
document cannot make an old entry somebody else's.  `NeverForgotten` needs `Copied`: while
the thread is between the copy and the new document, what it logged in the old one is in
the copy, since requests alone write there meanwhile and nobody else copies.  The proof
found a fault in the model: `Restart` set `troubles` and kept it as well, so no run ever
restarted; it does now.

`RecentAlwaysShown` (`HistoryIsRecent`) is of the users' lists of rooms.  The event thread
reads a list, renews it and writes it; requests rename and remove in between.  The
invariant (`ListsInv`) says that every list on its way, in the database, in the hand of the
thread or of a request, is short and names a room once (`Proper`), and that the list in
hand is the stored one as long as no request has written to that user (`OnHand`).  What
is left is about one list: put at the head, taken out of the rest and cut to
`MaxHistory`, it shows the rooms last entered, the latest first (`Renewed`, `ShowsNext`).

**`WrcMessages_proof`** (any number of threads, messages and commands): `TypeCorrect`, and
for waits that last until the answer `HandlersAlive`, `AnswersAreOwn`, `NoWakeupLost`.  The
invariant: memory in use is some thread's and ids are unique (`Owned`); a thread is
attentive, and has no answer, from when its command is sent until its answer is stored,
and the message in the poller's hand is that of such a thread (`Awaited`), which
therefore cannot have destroyed it; what is stored is the answer to the command
(`Own`).  The list of messages plays no part: whatever it loses, nothing wrong is
delivered.

**`TaskWorker_proof`** (any number of tasks, faults and crashes): `WorkerIsQueue`, every
step of the worker is one of the queue or leaves it alone.  It needs that a
settled task has only settled or skipped ones before it, in the collection and in
what a crash brings back (`Gapless`), that the worker's list holds tasks that wait, in
order, and all of them up to its newest (`List`), and that it is the turn of the task
in hand (`InHand`).

**`Whiteboard_proof`** (any number of users, elements, versions, failures and crashes;
`BoardBounds` asks only that users are finite): `TypeCorrect`, `RefsAlwaysExact`,
`AlwaysInformed`, `WhiteboardIsBoard`.  References are exact on their own (`Unheld`: a room
without them is gone).  `Informed`, that whoever is in the room shows or has coming what
the room holds, needs that nobody knows what is newer than the elements
(`NothingNewer`: an old message could otherwise hide a new version), that nothing is
told before the document is read (`Fresh`), and that messages are for those who are
there and an answer is kept until it is given (`Calm`).  The refinement of `Board` is
shown step by step, an edit being a commit, the write of the document a store, a crash a
crash and all else a stutter.  It needs that the document is never ahead of the copy
that is being saved, nor the copy of the elements (`Saving`), and, as a room that is
unloaded must leave its board in the document, that until the version changes only
readers are there, so that what was saved is what the room holds (`Unwritten`).

**`Parts_proof`** (of the components in `MCParts`).  `SessionsAlwaysAgree`
(any number of connections, descriptors, tickets and users): a session is in the maps
from its registration to its disposal, while its connection keeps its descriptor, and a
ticket is in the database until one connection has it.

`OpenAlwaysLinked` and `ProcessesAlwaysOwned` (any number of producers, exports, recording
sessions, troubles and events; `RecordingAssumption` asks that exports are finite) are of
the two threads that build exports while the event thread closes them.  They need to say
where a builder stands and what holds of its export there (`Steps`, `Builds`), that two
builders at one export means that it was closed under one of them and that the other
resumes it (`Apart`), that there is one slot of an export and that it goes when the export
is closed or the close is on its way (`Slots`), that an export that nobody raced with has
a slot from its hooks on (`Hooked`), and that no process writes for an export that is about
to get one (`Idle`).  `ProcessesAlwaysOwned` also states `SlotsBelong` and `OneTask`: a room
that was recorded submits one task, since its end is announced once (`Told`).  `Told` was
not inductive as the model stood: two closings of a router under way announced the end
of the room twice, where `rct_resource_close_lk` returns at the second, which needs
a backlog that no run has.  The model now has that return.

`StepsAlwaysTheRecording` and `EverybodyAlwaysSeen` are of the post-processing (any set of
media, any times).  At any time that the cut has passed exactly one step shows what was
recorded then, each medium once (`Past`); it needs that the media in hand are those that
have started and not ended (`Playing`) and that the points on one side of the time in hand are
gone and those on the other still to come (`Passed`), equal points being taken in any
order.  That everybody is seen is arithmetic, and here the run says least: three media
never make a grid of more than two by two.  The side of the grid is the least number
whose square is enough, which exists by the well-foundedness of finite sets (`LeastNat`,
`RootIs`), no two places fall into one cell (`CellsApart`), and a row with gaps is moved
as a whole, into the picture and not over another (`PlacesApart`).

`AnswersUnderstood` is of H.264 profiles: an answer is written with the first pattern that
fits, and the parser finds in it the profile and level that were agreed, for every pair of
ids and either asymmetry, but for level 1b as said above.

`WhoCanConsumes` and `ConsumersPlay` are of the negotiation (any formats, pool and fixed
types, configurations and devices with lists of any length).  The capabilities of a router
are a fold; `FoldsOnce` shows that it is there, by the least set of places where it
would not be, and `MergedInTurn` takes it in turn.  What holds of it after k codecs (`Apt`):
types are of one codec each, none of them is left in the pool, and each is from the
pool or some codec's own by then.  `ConfiguredFirst` came out of this: that no type is
configured or fixed twice was not enough.  Consumable codecs lead back to what is sent
and to the router's codecs (`Linked`).  As these have types of their own, repetitions that
a device is left with follow what they repeat (`LeftFollow`), so that the first codec left is a
media codec wherever there is one (`FirstIsMedia`): that is why looking at the first, as
`_rct_consumer_produce_input` does, comes to the same as looking for any, as
`_rct_producer_can_consume` does.

**`Live_proof`** (of the certificate, the gauges and the channel in `MCLive`).  `KeysAlwaysFit`, `ChallengeAlwaysServed`; what is stored is stored in the
order account key, account, key, certificate (`Stored`), a synchronisation works with
what is stored (`InStep`), an issued certificate is one of the stored key (`OfKey`), and
the authority asks only while an authorization is pending, whose token is there
(`Asks`).

`LevelsAlwaysTrue` (`NoFalseLevel`; any levels, rounds and crashes) needs that the levels in
the queue are the last ones counted and the one in hand comes just before them
(`Waiting`), so that what a row tells of has left the queue (`Telling`); that a copy tells of
the same number as its base (`Rounds`); and that the newest row but for the copy is one
to be relied on (`InOrder`).  The last is why the check of `_gr_gauges_maintain_type` is right: if
the copy is the newest row and its base the one before it, then the base is the newest row
to be relied on, and its copy may be.

`ChannelDelivers` (the steps of `IsChannel`; any sizes of header, messages, pipe, reads and
buffer) has all that was ever sent laid out one frame behind the other (`Laid`).  What
is not handed over yet is the end of that: the reader's buffer, the pipe and the writer's
buffer are pieces of it that follow each other, up to its end (`Flows`), and the reader's
buffer begins behind a frame, or behind the header of one while a length is awaited
(`Reads`).  Then a header in the buffer is the next message's (`HeaderIs`), and what it
delimits is that message (`MessageIs`).  `Cut`, the loop of `_on_channel_read`, is a recursive
function over buffers: that there is such a function (`CutRounds`) and what it does with
any buffer (`CutOutcome`) come each from a least counterexample, by the units left and
whether a length is awaited.  When the reader gives up nothing is claimed of the buffers
any more, and nothing is handed over.

Out of the prover's reach, and model-checked only: everything under fairness, which of
`IsQueue` and `IsChannel` is what their theorems leave to the run; and induction over
data where it was not replaced by a least counterexample (`Nth` in `WrcMessages`).

## 6. What the violated runs show

* `lost_reply`: see `WrcMessages` above; the caller gets its answer only as a timeout.
* `filtered`: the loop that is to filter unrecoverable media out keeps those it could not
  read and drops the sound that needed no repair.

## 7. What does not hold

Definitions that state what one may expect, and that the code does not give.  They are
in their modules for the reader, no run checks them, and the hazards name them.

| Definition | Why not |
|---|---|
| `WrcMessages.ErrorReported` | `_on_msg` keeps `GR_ERROR_WORKER_ANSWER` to itself: an error of the worker is a success of the call |
| `RctRoom.RoomFoundByUuid` | lookup and registration of a room are far apart, the second registration wins, and the first room's disposal removes the second's entry |
| `RctRoom.JoinedActive` | `close_pending` is looked at before, not with, the join |
| `RctRoom.IdleWaitsInFull`, `IdleClosesEmpty` | the idle timer is neither cancelled nor restarted, and its task decides under a lock that it gives up before acting |
| `RoomRecording.AllRecorded` | a producer whose event was handled before the recording started, and that its member lists after the recording has collected the producers, has no export |
| `Whiteboard.Converged` | a greeting collected before an edit may reach a browser after that edit, and takes it back there |
| `WsSessions.OnlyParticipants` | a collected descriptor may belong to another connection when the message is sent |
| `RoomHistory.MessagesKept` | a message may go to the document that a new session is about to replace |
| `Gauges.LevelShown` | a level set back to that of a copy is taken for known, and then the copy is deleted |

## 8. Not modelled

* HTTP handlers (`grh_auth.c`, `grh_users.c`, `grh_room.c`, `adm/`, ...): one request, one
  query or one update, no state between requests.  What they share with the above
  (tickets, documents of rooms) is modelled there.
* Uploads, licence, updates: pure I/O over files and an external service.
* Encoding of ACME requests, nonces and keys; RTP header extensions, DTLS and ICE
  parameters; the ffmpeg command lines: formats.
* Transports other than WebRTC, data producers and consumers: their life cycle is the
  one of `RctResources`; what is their own is formatting and an allocator of SCTP
  stream ids that no room operation reaches.
* The child lists of the registry pointer by pointer.
* Start-up, option parsing, configuration, file watching, crypto: sequential set-up.
  Crash, stop and restart of the server are actions of the modules they matter to.
* The web front end.
