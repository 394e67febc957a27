----------------------------- MODULE TaskWorker -----------------------------
(***************************************************************************)
(* Persistent tasks (gr_task_worker.c).  A task is a document whose status *)
(* is zero until it has been handled.  A submission and a periodic timer   *)
(* wake a worker thread, which collects the tasks that wait, newest first, *)
(* and handles them from the oldest on.  The documents outlive the         *)
(* process, as far as the database has saved them: what was written after  *)
(* its last savepoint is lost in a crash.                                  *)
(***************************************************************************)
EXTENDS Integers, Sequences, SequencesExt

CONSTANTS
  MaxTask,     \* bound: tasks submitted
  MaxFaults,   \* bound: statuses that the database fails to store
  MaxCrashes,  \* bound: crashes, and exits of the server
  MaxDelays    \* bound: tasks that their handler postpones

TaskBounds == {MaxTask, MaxFaults, MaxCrashes, MaxDelays} \subseteq Nat

VARIABLES
  status,      \* of every task submitted, oldest first
  saved,       \* the statuses that a crash leaves in the database
  queued,      \* a call of the worker waits in the queue of its thread
  worker,      \* where the worker is, its list, and the task in hand
  shutdown,    \* g_env.shutdown
  faults, crashes, delays,   \* counters for the bounds
  skipped      \* history: tasks whose status was once not stored

vars == <<status, saved, queued, worker, shutdown, faults, crashes, delays, skipped>>

Outcome == {"done", "failed"}
Idle == [pc |-> "idle", pending |-> <<>>, id |-> 0, outcome |-> "waits"]

Init ==
  /\ status = <<>>
  /\ saved = <<>>
  /\ queued = TRUE
  /\ worker = Idle
  /\ shutdown = FALSE
  /\ faults = 0 /\ crashes = 0 /\ delays = 0
  /\ skipped = {}

Waits(id) == status[id] = "waits"
Up == worker.pc # "down"
-----------------------------------------------------------------------------
\* _do_persistent_tasks: one call in the queue is enough, it will see every
\* document there is when it runs.
Wake == queued' = (queued \/ ~shutdown)

\* gr_persistent_task_submit.
Submit ==
  /\ Up
  /\ Len(status) < MaxTask
  /\ status' = Append(status, "waits")
  /\ Wake
  /\ UNCHANGED <<saved, worker, shutdown, faults, crashes, delays, skipped>>

\* The periodic timer ends in the same call.
Timer ==
  /\ Up
  /\ Wake
  /\ UNCHANGED <<status, saved, worker, shutdown, faults, crashes, delays, skipped>>

\* The thread takes the call and starts _persistent_tasks_worker.
Start ==
  /\ worker.pc = "idle"
  /\ queued
  /\ queued' = FALSE
  /\ worker' = [Idle EXCEPT !.pc = "scan"]
  /\ UNCHANGED <<status, saved, shutdown, faults, crashes, delays, skipped>>

\* The documents behind the newest completed one, oldest first.
Pending ==
  LET completed == {i \in DOMAIN status : ~Waits(i)}
      last == IF completed = {} THEN 0 ELSE CHOOSE i \in completed : \A j \in completed : j <= i
  IN [i \in 1..(Len(status) - last) |-> last + i]

\* Mutant: the documents are visited in the order of their submission.
VisitedInOrder == Pending

\* _pt_task_visitor: newest first, up to the first completed task.
Visited == Reverse(Pending)

Scan ==
  /\ worker.pc = "scan"
  /\ worker' = IF Visited = <<>> THEN Idle
               ELSE [worker EXCEPT !.pc = "take", !.pending = Visited]
  /\ UNCHANGED <<status, saved, queued, shutdown, faults, crashes, delays, skipped>>

\* The last task of the list.  An empty list is collected anew.
Take ==
  /\ worker.pc = "take"
  /\ worker' =
       IF worker.pending = <<>> THEN [worker EXCEPT !.pc = "scan"]
       ELSE IF shutdown THEN Idle
       ELSE [worker EXCEPT !.pc = "run", !.id = Last(worker.pending), !.pending = Front(@)]
  /\ UNCHANGED <<status, saved, queued, shutdown, faults, crashes, delays, skipped>>

\* The handler has run.  A task of bad data or of a type nobody handles fails.
Handle(o) ==
  /\ worker.pc = "run"
  /\ worker' = [worker EXCEPT !.pc = "save", !.outcome = o]
  /\ UNCHANGED <<status, saved, queued, shutdown, faults, crashes, delays, skipped>>

\* The handler answers 0: nothing is stored, the worker stops.
Postpone ==
  /\ worker.pc = "run"
  /\ delays < MaxDelays
  /\ delays' = delays + 1
  /\ worker' = Idle
  /\ UNCHANGED <<status, saved, queued, shutdown, faults, crashes, skipped>>

\* _pt_task_update.
Save ==
  /\ worker.pc = "save"
  /\ status' = [status EXCEPT ![worker.id] = worker.outcome]
  /\ worker' = [worker EXCEPT !.pc = "take"]
  /\ UNCHANGED <<saved, queued, shutdown, faults, crashes, delays, skipped>>

\* The update fails; that is logged, and the worker goes on.
SaveFails ==
  /\ worker.pc = "save"
  /\ faults < MaxFaults
  /\ faults' = faults + 1
  /\ skipped' = skipped \union {worker.id}
  /\ worker' = [worker EXCEPT !.pc = "take"]
  /\ UNCHANGED <<status, saved, queued, shutdown, crashes, delays>>
-----------------------------------------------------------------------------
\* The write-ahead log of the database reaches a savepoint.
Savepoint ==
  /\ Up
  /\ saved' = status
  /\ UNCHANGED <<status, queued, worker, shutdown, faults, crashes, delays, skipped>>

Crash ==
  /\ Up
  /\ crashes < MaxCrashes
  /\ crashes' = crashes + 1
  /\ status' = saved
  /\ worker' = [Idle EXCEPT !.pc = "down"]
  /\ queued' = FALSE
  /\ shutdown' = FALSE
  /\ UNCHANGED <<saved, faults, delays, skipped>>

Shutdown ==
  /\ Up
  /\ crashes < MaxCrashes
  /\ shutdown' = TRUE
  /\ UNCHANGED <<status, saved, queued, worker, faults, crashes, delays, skipped>>

\* The shutdown hook has waited for the worker; the database is closed.
Exit ==
  /\ shutdown
  /\ worker.pc = "idle"
  /\ ~queued
  /\ crashes' = crashes + 1
  /\ saved' = status
  /\ worker' = [Idle EXCEPT !.pc = "down"]
  /\ shutdown' = FALSE
  /\ UNCHANGED <<status, queued, faults, delays, skipped>>

\* gr_periodic_worker_init runs the timer's function.
Restart ==
  /\ ~Up
  /\ worker' = Idle
  /\ queued' = TRUE
  /\ UNCHANGED <<status, saved, shutdown, faults, crashes, delays, skipped>>

Work == Start \/ Scan \/ Take \/ (\E o \in Outcome : Handle(o)) \/ Postpone \/ Save \/ SaveFails

Next ==
  \/ Work \/ Submit \/ Timer
  \/ Savepoint \/ Crash \/ Shutdown \/ Exit \/ Restart

\* The worker thread, the poller's timer, the database and the operator who
\* starts the server again are not stopped for ever.
Fairness ==
  /\ WF_vars(Work)
  /\ WF_vars(Timer)
  /\ WF_vars(Exit)
  /\ WF_vars(Restart)

Spec == Init /\ [][Next]_vars
FairSpec == Spec /\ Fairness
-----------------------------------------------------------------------------
TypeOK ==
  /\ status \in Seq(Outcome \union {"waits"}) /\ Len(status) <= MaxTask
  /\ saved \in Seq(Outcome \union {"waits"}) /\ Len(saved) <= MaxTask
  /\ queued \in BOOLEAN /\ shutdown \in BOOLEAN
  /\ worker.pc \in {"idle", "scan", "take", "run", "save", "down"}
  /\ worker.pending \in Seq(1..MaxTask)
  /\ worker.id \in 0..MaxTask
  /\ worker.outcome \in Outcome \union {"waits"}
  /\ faults \in 0..MaxFaults /\ crashes \in 0..MaxCrashes /\ delays \in 0..MaxDelays
  /\ skipped \subseteq 1..MaxTask

WaitingIn(s) == {i \in DOMAIN s : s[i] = "waits"}

Queue == INSTANCE TaskQueue WITH
  submitted <- Len(status),
  waiting <- WaitingIn(status),
  kept <- [submitted |-> Len(saved), waiting |-> WaitingIn(saved)]

\* The worker is a queue: tasks are settled oldest first, none is handled that
\* is settled already, none is left behind a settled one but by a failure to
\* store its status, and each is settled in the end.
IsQueue == Queue!Spec
=============================================================================
