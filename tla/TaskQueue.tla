------------------------------ MODULE TaskQueue ------------------------------
(***************************************************************************)
(* What the persistent tasks of gr_task_worker.c promise.  A task that is  *)
(* submitted waits its turn behind the older ones; every task that waits   *)
(* is settled, unless its outcome could not be stored.  A crash brings     *)
(* back what the database had last saved.                                  *)
(***************************************************************************)
EXTENDS Naturals, FiniteSets

CONSTANT MaxTask   \* bound: tasks submitted

VARIABLES
  submitted,  \* number of tasks so far: task n is the n-th
  waiting,    \* tasks that are not settled
  skipped,    \* tasks whose outcome was not stored when it was their turn
  kept        \* what a crash brings back of the first two

queue == <<submitted, waiting, skipped, kept>>

Init ==
  /\ submitted = 0
  /\ waiting = {}
  /\ skipped = {}
  /\ kept = [submitted |-> 0, waiting |-> {}]

\* It is the turn of a task when no older one waits for its first turn.
Turn(id) == id \in waiting /\ \A older \in waiting : older < id => older \in skipped

Submit ==
  /\ submitted < MaxTask
  /\ submitted' = submitted + 1
  /\ waiting' = waiting \union {submitted + 1}
  /\ UNCHANGED <<skipped, kept>>

Settle(id) ==
  /\ Turn(id)
  /\ waiting' = waiting \ {id}
  /\ UNCHANGED <<submitted, skipped, kept>>

Skip(id) ==
  /\ Turn(id)
  /\ skipped' = skipped \union {id}
  /\ UNCHANGED <<submitted, waiting, kept>>

Savepoint ==
  /\ kept' = [submitted |-> submitted, waiting |-> waiting]
  /\ UNCHANGED <<submitted, waiting, skipped>>

Crash ==
  /\ submitted' = kept.submitted
  /\ waiting' = kept.waiting
  /\ UNCHANGED <<skipped, kept>>

Progress == \E id \in waiting \ skipped : Settle(id) \/ Skip(id)

Next ==
  \/ Submit \/ Savepoint \/ Crash
  \/ \E id \in 1..MaxTask : Settle(id) \/ Skip(id)

Spec == Init /\ [][Next]_queue /\ WF_queue(Progress)
=============================================================================
