------------------------------ MODULE Recording ------------------------------
(***************************************************************************)
(* Recording and post-processing together: the room that closes submits a  *)
(* task to the queue of gr_task_worker.c (its abstract specification), and *)
(* a worker thread settles it.                                             *)
(***************************************************************************)
EXTENDS RoomRecording

VARIABLES posted, pending, passed, stored   \* of the queue

Queue == INSTANCE TaskQueue WITH
           MaxTask <- 1, submitted <- posted, waiting <- pending, skipped <- passed, kept <- stored

tasksQueue == <<posted, pending, passed, stored>>
system == <<vars, tasksQueue>>

InitAll == Init /\ Queue!Init

\* A step of the recorder submits a task when it counts one.
Recorder ==
  /\ Next
  /\ IF tasks' = tasks THEN UNCHANGED tasksQueue ELSE Queue!Submit

\* The worker handles tasks, whether the room is open or not.
PostProcess ==
  /\ ~crashed
  /\ \E id \in pending : Queue!Settle(id)
  /\ UNCHANGED vars

NextAll == Recorder \/ PostProcess

FairSpecAll == InitAll /\ [][NextAll]_system /\ Fairness /\ WF_system(PostProcess)
-----------------------------------------------------------------------------
\* A room that was ever recorded is post-processed after it has closed.
RecordedIsProcessed ==
  (~room.open /\ room.sessions > 0) ~> (crashed \/ (posted = 1 /\ pending = {}))
=============================================================================
