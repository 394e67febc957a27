--------------------------- MODULE RoomRecording ---------------------------
(***************************************************************************)
(* Recording of a room (rct_room_recording.c, rct_producer_export.c).  To  *)
(* record a producer it is exported: an export has a transport and a       *)
(* consumer of its own, a slot in the list of the recorder, and an ffmpeg  *)
(* process that writes the media.  Exports are built by the thread that    *)
(* starts the recording and by the event thread, for producers created or  *)
(* resumed later; they are closed with their producer, when it pauses, and *)
(* by the thread that stops the recording.                                 *)
(*                                                                         *)
(* A step is a critical section, of the registry or of the list of slots.  *)
(* A resource has its own address for ever; one room, router and worker.   *)
(***************************************************************************)
EXTENDS Integers, Sequences, FiniteSets, SequencesExt

CONSTANTS
  Producer,     \* producers of the room
  Export,       \* exports
  None,
  MaxSessions,  \* bound: times the recording starts
  MaxTroubles,  \* bound: producers paused, processes that end by themselves, and
                \* exports that fail while they are built, all together
  MaxProcesses, \* recording.max_processes
  Backlog       \* bound: members act while fewer events than this are queued

RecordingAssumption ==
  /\ IsFiniteSet(Export)
  /\ {MaxSessions, MaxTroubles, MaxProcesses, Backlog} \subseteq Nat
  /\ None \notin Producer \union Export

VARIABLES
  room,       \* open, recording (has_started_recording), num_recording_sessions
  producer,   \* producers
  export,     \* exports and their consumers; raced is history
  slots,      \* _slots: export and process (0: none)
  process,    \* every process spawned so far: its export and how it is
  thread,     \* what the starter and the event thread are building
  stopping,   \* exports that the stopping thread has still to close
  closing,    \* exports whose close task is scheduled
  events,     \* queue of the event thread
  tasks,      \* post-processing tasks submitted
  crashed,    \* the server has dereferenced a null or dangling pointer
  troubles    \* counter for the bound

vars == <<room, producer, export, slots, process, thread, stopping, closing, events,
          tasks, crashed, troubles>>

writers == <<slots, process>>
threads == <<thread, stopping>>
rest == <<tasks, crashed, troubles>>

Thread == {"starter", "events"}
IdleThread == [pc |-> "idle", producer |-> None, export |-> None, process |-> 0, todo |-> {},
               resumes |-> FALSE]
NoProducer == [state |-> "none", listed |-> FALSE, paused |-> FALSE, export |-> None]
NoExport == [state |-> "none", producer |-> None, closed |-> FALSE, hooked |-> FALSE,
             consumer |-> "none", paused |-> FALSE, linked |-> FALSE, raced |-> FALSE]

Init ==
  /\ room = [open |-> TRUE, recording |-> FALSE, sessions |-> 0]
  /\ producer = [p \in Producer |-> NoProducer]
  /\ export = [e \in Export |-> NoExport]
  /\ slots = <<>> /\ process = <<>> /\ events = <<>>
  /\ thread = [t \in Thread |-> IdleThread]
  /\ stopping = {} /\ closing = {}
  /\ tasks = 0
  /\ crashed = FALSE
  /\ troubles = 0

At(t, pc) == ~crashed /\ thread[t].pc = pc
Goto(t, pc) == thread' = [thread EXCEPT ![t].pc = pc]
Fresh == {e \in Export : export[e].state = "none"}
Slotted(e) == \E i \in DOMAIN slots : slots[i].export = e
Alive(n) == process[n].state # "gone"
Running == {n \in DOMAIN process : Alive(n)}

\* An export is freed once it is closed, built, and its close task has run.
Freed(e) == \/ export[e].state = "failed"
            \/ /\ export[e].state = "built" /\ export[e].closed /\ e \notin closing
               /\ \A t \in Thread : thread[t].export # e

\* The consumer of e is in the registry: its export holds it, or it is open.
ConsumerFound(e) == \/ export[e].consumer = "open"
                    \/ export[e].consumer = "closed" /\ ~Freed(e)

Ev(kind, of) == [kind |-> kind, of |-> of]
Post(s) == events' = events \o s
-----------------------------------------------------------------------------
(* Closing exports: _rct_producer_export_close_lk.                         *)

Unlink(P, E) == [p \in Producer |->
  [P[p] EXCEPT !.export = IF @ \in E THEN None ELSE @]]

\* raced: a thread is still building the export, or starting its process.
ClosedExports(X, E) == [e \in Export |->
  IF e \in E /\ X[e].state # "failed" /\ ~X[e].closed
  THEN [X[e] EXCEPT !.closed = TRUE, !.linked = FALSE,
                    !.raced = @ \/ \E t \in Thread : thread[t].export = e]
  ELSE X[e]]

\* Those whose hooks are set are closed by a task.
Scheduled(E) == closing \union
  {e \in E : export[e].state # "failed" /\ ~export[e].closed /\ export[e].hooked}

\* Mutant: the slot stays.
SlotsWithAll(e) == slots
SlotsWithout(e) ==
  IF Slotted(e) THEN RemoveAt(slots, CHOOSE i \in DOMAIN slots : slots[i].export = e) ELSE slots

\* Mutant: the process of a closed export is left alone.
KilledNone(e) == process

\* The process that the slot of e knows is told to end.
Killed(e) == [n \in DOMAIN process |->
  IF Alive(n) /\ \E i \in DOMAIN slots : slots[i] = [export |-> e, process |-> n]
  THEN [process[n] EXCEPT !.state = "killed"] ELSE process[n]]

\* _rct_producer_export_close_task with _export_on_close: the slot goes, its
\* process is told to end, and so is the transport.
CloseTask(e) ==
  /\ ~crashed
  /\ e \in closing
  /\ closing' = closing \ {e}
  /\ slots' = SlotsWithout(e)
  /\ process' = Killed(e)
  /\ Post(<<Ev("transportClosed", e)>>)
  /\ UNCHANGED <<room, producer, export, threads, rest>>

-----------------------------------------------------------------------------
(* Building an export: rct_producer_export.                                *)

\* Mutant: the export that the producer has stays open.
SupersededNone(p) == {}
Superseded(p) == {producer[p].export} \ {None}

\* The producer gets a new export, and the one it had is closed.
Link(t) ==
  /\ At(t, "link")
  /\ \E e \in Fresh :
       LET p == thread[t].producer
           old == Superseded(p)
       IN /\ export' = [ClosedExports(export, old) EXCEPT
               ![e].state = "building", ![e].producer = p]
          /\ closing' = Scheduled(old)
          /\ producer' = [producer EXCEPT ![p].export = e]
          /\ thread' = [thread EXCEPT ![t].pc = "consume", ![t].export = e]
  /\ UNCHANGED <<room, writers, stopping, events, rest>>

\* The worker makes a transport and a paused consumer, of an open producer.
Consume(t) ==
  /\ At(t, "consume")
  /\ producer[thread[t].producer].state = "open"
  /\ export' = [export EXCEPT ![thread[t].export].consumer = "open",
                              ![thread[t].export].paused = TRUE,
                              ![thread[t].export].linked = TRUE]
  /\ Goto(t, "register")
  /\ UNCHANGED <<room, producer, writers, stopping, closing, events, rest>>

\* The export is registered, open or not, and gets its hooks.
RegisterExport(t) ==
  /\ At(t, "register")
  /\ export' = [export EXCEPT ![thread[t].export].hooked = TRUE]
  /\ Goto(t, "slot")
  /\ UNCHANGED <<room, producer, writers, stopping, closing, events, rest>>

\* The thread is done with the export and gives its references back.
Done(t) == thread' = [thread EXCEPT ![t] =
  [IdleThread EXCEPT !.todo = thread[t].todo, !.pc = IF t = "starter" THEN "next" ELSE "idle"]]

\* An export that its builder leaves to itself.
Built(t, X) == [X EXCEPT ![thread[t].export].state = IF thread[t].resumes THEN @ ELSE "built"]

\* The check for a second export of a producer misses the last slot.
Duplicate(p) ==
  \E i \in 1..Len(slots) - 1 : export[slots[i].export].producer = p

\* _export_on_start.
AddSlot(t) ==
  /\ At(t, "slot")
  /\ ~Duplicate(thread[t].producer)
  /\ slots' = Append(slots, [export |-> thread[t].export, process |-> 0])
  /\ IF producer[thread[t].producer].paused THEN Done(t) /\ export' = Built(t, export)
     ELSE Goto(t, "spawn") /\ UNCHANGED export
  /\ UNCHANGED <<room, producer, process, stopping, closing, events, rest>>

\* An error on the way: the export is freed; whoever points at it still does.
BuildFails(t) ==
  /\ \/ At(t, "consume") /\ producer[thread[t].producer].state # "open" /\ UNCHANGED troubles
     \/ At(t, "slot") /\ Duplicate(thread[t].producer) /\ UNCHANGED troubles
     \/ At(t, "consume") /\ troubles < MaxTroubles /\ troubles' = troubles + 1
     \/ /\ At(t, "spawn") /\ ~thread[t].resumes
        /\ troubles < MaxTroubles /\ troubles' = troubles + 1
  /\ export' = [export EXCEPT ![thread[t].export].state = "failed"]
  /\ Done(t)
  /\ UNCHANGED <<room, producer, writers, stopping, closing, events, tasks, crashed>>

\* _proc_spawn starts ffmpeg, unless too many run.
Spawn(t) ==
  /\ At(t, "spawn")
  /\ IF Cardinality(Running) > MaxProcesses
     THEN Done(t) /\ export' = Built(t, export) /\ UNCHANGED process
     ELSE /\ process' = Append(process, [export |-> thread[t].export, state |-> "running"])
          /\ thread' = [thread EXCEPT ![t].pc = "own", ![t].process = Len(process) + 1]
          /\ UNCHANGED export
  /\ UNCHANGED <<room, producer, slots, stopping, closing, events, rest>>

\* The slot, if it is there, learns of the process; the consumer is resumed.
Own(t) ==
  /\ At(t, "own")
  /\ LET e == thread[t].export
         resumed == export[e].paused /\ ConsumerFound(e) IN
     /\ slots' = [i \in DOMAIN slots |-> IF slots[i].export = e
                    THEN [slots[i] EXCEPT !.process = thread[t].process] ELSE slots[i]]
     /\ export' = Built(t, [export EXCEPT ![e].paused = @ /\ ~resumed])
     /\ Post(IF resumed /\ ~producer[thread[t].producer].paused
             THEN <<Ev("consumerResume", e)>> ELSE <<>>)
  /\ Done(t)
  /\ UNCHANGED <<room, producer, process, stopping, closing, rest>>

Build(t) ==
  \/ Link(t) \/ Consume(t) \/ RegisterExport(t) \/ AddSlot(t) \/ BuildFails(t)
  \/ Spawn(t) \/ Own(t)
-----------------------------------------------------------------------------
(* Start and stop, each by a thread that serves a member.                  *)

\* rct_room_recording_start: the producers its members have now.
Start ==
  /\ At("starter", "idle")
  /\ room.open /\ ~room.recording
  /\ room.sessions < MaxSessions
  /\ room' = [room EXCEPT !.recording = TRUE, !.sessions = @ + 1]
  /\ thread' = [thread EXCEPT !["starter"] = [IdleThread EXCEPT !.pc = "next",
       !.todo = {p \in Producer : producer[p].listed /\ producer[p].state = "open"}]]
  /\ UNCHANGED <<producer, export, writers, stopping, closing, events, rest>>

\* One after the other, those that are paused are left alone.
StartNext ==
  /\ At("starter", "next")
  /\ IF thread["starter"].todo = {} THEN thread' = [thread EXCEPT !["starter"] = IdleThread]
     ELSE \E p \in thread["starter"].todo :
            thread' = [thread EXCEPT !["starter"] =
              [IdleThread EXCEPT !.todo = thread["starter"].todo \ {p}, !.producer = p,
                                 !.pc = IF producer[p].paused THEN "next" ELSE "link"]]
  /\ UNCHANGED <<room, producer, export, writers, stopping, closing, events, rest>>

\* rct_room_recording_stop: the exports that have a slot now.
Stop ==
  /\ ~crashed
  /\ room.open /\ room.recording /\ stopping = {}
  /\ room' = [room EXCEPT !.recording = FALSE]
  /\ stopping' = {e \in Export : Slotted(e)}
  /\ UNCHANGED <<producer, export, writers, thread, closing, events, rest>>

\* rct_producer_export_close, of those that are still there.
StopNext ==
  /\ ~crashed
  /\ \E e \in stopping :
       LET there == {x \in {e} : ~Freed(x)} IN
       /\ stopping' = stopping \ {e}
       /\ export' = ClosedExports(export, there)
       /\ producer' = Unlink(producer, there)
       /\ closing' = Scheduled(there)
  /\ UNCHANGED <<room, writers, thread, events, rest>>
-----------------------------------------------------------------------------
(* Members and the worker.                                                 *)

Acts == ~crashed /\ Len(events) < Backlog

\* A member produces; the new producer is announced before the member has it.
Produce(p) ==
  /\ Acts
  /\ room.open
  /\ producer[p].state = "none"
  /\ producer' = [producer EXCEPT ![p].state = "open"]
  /\ Post(<<Ev("created", p)>>)
  /\ UNCHANGED <<room, export, writers, threads, closing, rest>>

List(p) ==
  /\ ~crashed
  /\ producer[p].state = "open" /\ ~producer[p].listed
  /\ producer' = [producer EXCEPT ![p].listed = TRUE]
  /\ UNCHANGED <<room, export, writers, threads, closing, events, rest>>

Consumers(p) == {e \in Export : export[e].producer = p /\ export[e].consumer = "open"}
Tell(kind, p) == SetToSeq({Ev(kind, e) : e \in Consumers(p)})

\* The worker tells the consumers of a producer that it pauses.
Pause(p) ==
  /\ Acts
  /\ producer[p].state = "open" /\ producer[p].listed /\ ~producer[p].paused
  /\ troubles < MaxTroubles
  /\ troubles' = troubles + 1
  /\ producer' = [producer EXCEPT ![p].paused = TRUE]
  /\ Post(Tell("producerPause", p))
  /\ UNCHANGED <<room, export, writers, threads, closing, tasks, crashed>>

\* The producer's own event comes before or after those of its consumers.
Resume(p) ==
  /\ Acts
  /\ producer[p].state = "open" /\ producer[p].paused
  /\ producer' = [producer EXCEPT ![p].paused = FALSE]
  /\ \/ Post(Tell("producerResume", p) \o <<Ev("resumed", p)>>)
     \/ Post(<<Ev("resumed", p)>> \o Tell("producerResume", p))
  /\ UNCHANGED <<room, export, writers, threads, closing, rest>>

\* A producer is closed, or the whole room, by an event.
CloseProducer(p) ==
  /\ Acts
  /\ producer[p].state = "open" /\ producer[p].listed
  /\ Post(<<Ev("closed", p)>>)
  /\ UNCHANGED <<room, producer, export, writers, threads, closing, rest>>

CloseRoom ==
  /\ Acts
  /\ room.open
  /\ Post(<<Ev("routerClosed", None)>>)
  /\ UNCHANGED <<room, producer, export, writers, threads, closing, rest>>

\* _proc_on_exit: the process was told to end, or ends by itself; in its slot
\* it is forgotten, and the consumer of its export is paused.
ProcessExit(n) ==
  /\ ~crashed
  /\ Alive(n)
  /\ IF process[n].state = "killed" THEN UNCHANGED troubles
     ELSE troubles < MaxTroubles /\ troubles' = troubles + 1
  /\ process' = [process EXCEPT ![n].state = "gone"]
  /\ LET e == process[n].export
         mine == \E i \in DOMAIN slots : slots[i] = [export |-> e, process |-> n]
         found == mine /\ ~Freed(e) /\ ConsumerFound(e)
     IN /\ slots' = [i \in DOMAIN slots |->
              IF slots[i] = [export |-> e, process |-> n] THEN [slots[i] EXCEPT !.process = 0]
              ELSE slots[i]]
        /\ export' = [export EXCEPT ![e].paused = @ \/ found]
        /\ Post(IF found THEN <<Ev("consumerPause", e)>> ELSE <<>>)
  /\ UNCHANGED <<room, producer, threads, closing, tasks, crashed>>
-----------------------------------------------------------------------------
(* The event thread handles one event after the other.                     *)

Heads(kind) == At("events", "idle") /\ events # <<>> /\ Head(events).kind = kind
Of == Head(events).of

\* _on_producer_created_or_resumed.
OnProducer ==
  /\ Heads("created") \/ Heads("resumed")
  /\ events' = Tail(events)
  /\ thread' = IF producer[Of].state = "open" /\ room.recording /\ producer[Of].export = None
               THEN [thread EXCEPT !["events"] =
                      [IdleThread EXCEPT !.pc = "link", !.producer = Of]]
               ELSE thread
  /\ UNCHANGED <<room, producer, export, writers, stopping, closing, rest>>

\* WRC_EVT_CONSUMER_PRODUCER_PAUSE.
OnProducerPause ==
  /\ Heads("producerPause")
  /\ events' = Tail(events) \o
       IF ConsumerFound(Of) /\ ~export[Of].paused THEN <<Ev("consumerPause", Of)>> ELSE <<>>
  /\ UNCHANGED <<room, producer, export, writers, threads, closing, rest>>

\* WRC_EVT_CONSUMER_PRODUCER_RESUME; a paused consumer resumes by it.
OnProducerResume ==
  /\ Heads("producerResume")
  /\ LET paused == export[Of].paused
         tell == ConsumerFound(Of) /\ (paused => ~producer[export[Of].producer].paused)
     IN /\ export' = [export EXCEPT ![Of].paused = @ /\ ~ConsumerFound(Of)]
        /\ events' = Tail(events) \o IF tell THEN <<Ev("consumerResume", Of)>> ELSE <<>>
  /\ UNCHANGED <<room, producer, writers, threads, closing, rest>>

\* WRC_EVT_CONSUMER_PAUSE: an export that has its hooks is closed.
OnConsumerPause ==
  /\ Heads("consumerPause")
  /\ ConsumerFound(Of)
  /\ LET paused == {e \in {Of} : export[e].linked /\ export[e].hooked}
     IN /\ export' = ClosedExports(export, paused)
        /\ producer' = Unlink(producer, paused)
        /\ closing' = Scheduled(paused)
  /\ events' = Tail(events)
  /\ UNCHANGED <<room, writers, threads, rest>>

\* WRC_EVT_CONSUMER_RESUME with _export_on_resume.
OnConsumerResume ==
  /\ Heads("consumerResume")
  /\ ConsumerFound(Of)
  /\ LET writes == \E i \in DOMAIN slots : slots[i].export = Of /\ slots[i].process # 0
         starts == export[Of].linked /\ export[Of].hooked /\ ~writes
     IN /\ thread' = IF starts
                     THEN [thread EXCEPT !["events"] = [IdleThread EXCEPT
                            !.pc = "spawn", !.export = Of, !.producer = export[Of].producer,
                            !.resumes = TRUE]]
                     ELSE thread
        /\ export' = [export EXCEPT ![Of].raced =
             @ \/ (starts /\ thread["starter"].export = Of)]
  /\ events' = Tail(events)
  /\ UNCHANGED <<room, producer, writers, stopping, closing, rest>>

\* The consumers and the exports of closed producers are closed.
ClosedProducers(P) ==
  LET E == {producer[p].export : p \in P} \ {None}
      X == ClosedExports(export, E)
  IN /\ producer' = [p \in Producer |-> IF p \in P THEN [Unlink(producer, E)[p] EXCEPT !.state = "closed"]
                                        ELSE producer[p]]
     /\ export' = [e \in Export |-> [X[e] EXCEPT !.consumer =
          IF @ = "open" /\ X[e].producer \in P THEN "closed" ELSE @]]
     /\ closing' = Scheduled(E)

OnProducerClosed ==
  /\ Heads("closed")
  /\ ClosedProducers({Of} \cap {p \in Producer : producer[p].state = "open"})
  /\ events' = Tail(events)
  /\ UNCHANGED <<room, writers, threads, rest>>

\* The router, if it is still open, closes its transports, their producers, and the room.
OnRouterClosed ==
  /\ Heads("routerClosed")
  /\ room' = [room EXCEPT !.open = FALSE]
  /\ ClosedProducers({p \in Producer : producer[p].state = "open"})
  /\ events' = Tail(events) \o IF room.open THEN <<Ev("roomClosed", None)>> ELSE <<>>
  /\ UNCHANGED <<writers, threads, rest>>

\* Mutant: only a room that is being recorded as it closes.
RecordedNow == room.recording
Recorded == room.sessions > 0

\* _on_room_closed: a room that was ever recorded is processed.
OnRoomClosed ==
  /\ Heads("roomClosed")
  /\ tasks' = IF Recorded THEN tasks + 1 ELSE tasks
  /\ events' = Tail(events)
  /\ UNCHANGED <<room, producer, export, writers, threads, closing, crashed, troubles>>

\* The transport of an export closes its consumer.
OnTransportClosed ==
  /\ Heads("transportClosed")
  /\ export' = [export EXCEPT ![Of].consumer = IF @ = "open" THEN "closed" ELSE @]
  /\ events' = Tail(events)
  /\ UNCHANGED <<room, producer, writers, threads, closing, rest>>

\* A consumer that is gone, and memory of an export that was freed: reading a
\* null pointer ends the server, reading what was freed may do so.
Crash ==
  /\ ~crashed
  /\ \/ (Heads("consumerPause") \/ Heads("consumerResume"))
          /\ (~ConsumerFound(Of) \/ (export[Of].linked /\ Freed(Of)))
     \/ \E t \in Thread : /\ thread[t].pc = "link"
                          /\ producer[thread[t].producer].export \in {e \in Export : Freed(e)}
     \/ Heads("closed") /\ producer[Of].export \in {e \in Export : Freed(e)}
     \/ \E e \in stopping : Freed(e)
  /\ crashed' = TRUE
  /\ UNCHANGED <<room, producer, export, writers, threads, closing, events, tasks, troubles>>

Handle ==
  \/ OnProducer \/ OnProducerPause \/ OnProducerResume \/ OnConsumerPause \/ OnConsumerResume
  \/ OnProducerClosed \/ OnRouterClosed \/ OnRoomClosed \/ OnTransportClosed

Next ==
  \/ Start \/ StartNext \/ Stop \/ StopNext \/ CloseRoom
  \/ \E t \in Thread : Build(t)
  \/ \E p \in Producer : Produce(p) \/ List(p) \/ Pause(p) \/ Resume(p) \/ CloseProducer(p)
  \/ \E e \in Export : CloseTask(e)
  \/ \E n \in DOMAIN process : ProcessExit(n)
  \/ Handle \/ Crash

Spec == Init /\ [][Next]_vars

KilledExit == \E n \in DOMAIN process : process[n].state = "killed" /\ ProcessExit(n)

\* Threads go on; a process that is told to end does.
Fairness ==
  /\ WF_vars(StartNext) /\ WF_vars(StopNext) /\ WF_vars(Handle \/ Crash)
  /\ \A t \in Thread : WF_vars(Build(t))
  /\ \A e \in Export : WF_vars(CloseTask(e))
  /\ WF_vars(KilledExit)

FairSpec == Spec /\ Fairness
-----------------------------------------------------------------------------
TypeOK ==
  /\ room \in [open : BOOLEAN, recording : BOOLEAN, sessions : 0..MaxSessions]
  /\ producer \in [Producer -> [state : {"none", "open", "closed"}, listed : BOOLEAN,
                                paused : BOOLEAN, export : Export \union {None}]]
  /\ \A e \in Export : export[e].state \in {"none", "building", "built", "failed"}
  /\ \A i \in DOMAIN slots : slots[i].process \in 0..Len(process)
  /\ \A t \in Thread : thread[t].pc \in {"idle", "next", "link", "consume", "register", "slot",
                                         "spawn", "own"}
  /\ stopping \subseteq Export /\ closing \subseteq Export

\* A producer is exported once at a time: an export that is open is the one its
\* producer knows of, whichever threads built exports for it.
OpenIsLinked ==
  \A e \in Export :
    /\ export[e].state \in {"building", "built"}
    /\ ~export[e].closed
    => producer[export[e].producer].export = e

\* What has a slot is there; an export that failed, or that was closed under
\* the thread that built it, is the exception.
SlotsBelong ==
  \A e \in Export : Slotted(e) /\ Freed(e) => export[e].raced \/ export[e].state = "failed"

\* Every ffmpeg process that goes on is known to a slot.
ProcessesOwned ==
  \A n \in DOMAIN process :
    LET e == process[n].export IN
    process[n].state = "running" =>
      \/ \E i \in DOMAIN slots : slots[i] = [export |-> e, process |-> n]
      \/ \E t \in Thread : thread[t].pc = "own" /\ thread[t].process = n
      \/ export[e].raced \/ export[e].state = "failed"

\* A room that was recorded has one task, and only once it is closed.
OneTask == tasks <= 1 /\ (tasks = 1 => ~room.open /\ room.sessions > 0)

\* The media of a closed room is not written for ever.
ClosedRoomQuiet ==
  ~room.open ~>
    \/ crashed
    \/ \A n \in Running : export[process[n].export].raced \/ export[process[n].export].state = "failed"

\* "Collect refs to all of the room producers": when nothing is under way in a
\* room that is recorded, what its members produce is exported.  It does not hold for
\* a producer announced before the recording starts and listed after its scan.
AllRecorded ==
  /\ room.open /\ room.recording /\ ~crashed
  /\ events = <<>> /\ stopping = {} /\ \A t \in Thread : At(t, "idle")
  => \A p \in Producer : producer[p].listed /\ producer[p].state = "open" /\ ~producer[p].paused
       => producer[p].export # None
=============================================================================
