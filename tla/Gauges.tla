------------------------------- MODULE Gauges -------------------------------
(***************************************************************************)
(* The history of one gauge (gr_gauges.c): of the rooms, the users in them *)
(* or the streams, which the registry counts (rct.c).  Every new number is *)
(* handed to one thread, which adds a row if the newest has another level. *)
(* The periodic worker repeats the newest row, so that a time without      *)
(* changes has a row too; it does so without a lock, and takes the copy    *)
(* back when it finds that a change came between.  A crash may come at any *)
(* step; what was written by then stays.                                   *)
(*                                                                         *)
(* Rows are in the order of their ids; their times are left out, and so    *)
(* are the rows that are deleted for their age.                            *)
(***************************************************************************)
EXTENDS Integers, Sequences, SequencesExt

CONSTANTS
  Level,               \* bound: numbers that are counted
  MaxSets, MaxRuns,    \* bounds: changes, rounds of the periodic worker
  MaxCrashes           \* bound: crashes

GaugeBounds == 0 \in Level /\ {MaxSets, MaxRuns, MaxCrashes} \subseteq Nat

VARIABLES
  rows,      \* the collection "gauges": [id, level], newest last
  queue,     \* tasks of g_env.stw: levels to set
  setting,   \* the level in hand, and whether it differs from the newest row
  round,     \* the periodic worker: its newest row, and the copy it made
  told,      \* levels that admins are still to be told of, by a pool of threads
  ids, runs, falls,   \* counters: rows so far, and for the bounds
  counted,   \* history: levels counted since the first start, in order
  origin,    \* history: of each row, by id, which of them it tells of
  stray      \* history: ids of copies whose round a crash cut off

vars == <<rows, queue, setting, round, told, ids, runs, falls, counted, origin, stray>>

NoSet == [pc |-> "idle", level |-> 0]
NoRound == [pc |-> "idle", base |-> 0, copy |-> 0]

Newest(r) == r[Len(r)]

\* What _gauge_set_with_ts does of a new level; the rows are a parameter.
Differs(r, l) == r = <<>> \/ Newest(r).level # l

\* _gauges_reset_all, before there are threads: nothing is counted yet.
Reset(r) == IF Differs(r, 0) THEN Append(r, [id |-> ids + 1, level |-> 0]) ELSE r

Init ==
  /\ rows = <<[id |-> 1, level |-> 0]>> /\ ids = 1
  /\ queue = <<>> /\ setting = NoSet /\ round = NoRound /\ told = {}
  /\ runs = 0 /\ falls = 0
  /\ counted = <<0>> /\ origin = <<1>> /\ stray = {}

Keep == UNCHANGED <<runs, falls, stray>>
-----------------------------------------------------------------------------
\* gr_gauge_set_async.
Queued(l) == Append(queue, l)

\* _resource_gauge_update_lk: under the registry's lock, so the levels are queued
\* in the order in which they were counted.
Count(l) ==
  /\ Len(counted) <= MaxSets
  /\ queue' = Queued(l)
  /\ counted' = Append(counted, l)
  /\ Keep /\ UNCHANGED <<rows, setting, round, told, ids, origin>>

\* _gauge_set_async_task: the newest row is read,
SetReads ==
  /\ setting.pc = "idle" /\ queue # <<>>
  /\ queue' = Tail(queue)
  /\ setting' = IF Differs(rows, Head(queue)) THEN [pc |-> "put", level |-> Head(queue)]
                ELSE NoSet
  /\ Keep /\ UNCHANGED <<rows, round, told, ids, counted, origin>>

\* and one is added: of the levels counted it is the last that is not queued.  The
\* admins are told by the pool.
SetPuts ==
  /\ setting.pc = "put"
  /\ ids' = ids + 1
  /\ rows' = Append(rows, [id |-> ids', level |-> setting.level])
  /\ told' = told \union {[id |-> ids', level |-> setting.level]}
  /\ origin' = Append(origin, Len(counted) - Len(queue))
  /\ setting' = NoSet
  /\ Keep /\ UNCHANGED <<queue, round, counted>>

\* _gauge_notify, by any thread of the pool.
Notify ==
  /\ \E t \in told : told' = told \ {t}
  /\ Keep /\ UNCHANGED <<rows, queue, setting, round, ids, counted, origin>>
-----------------------------------------------------------------------------
\* _gr_gauges_maintain_type: of two rows of one level the newer gets a new time.
RoundReads ==
  /\ round.pc = "idle" /\ runs < MaxRuns /\ runs' = runs + 1
  /\ LET n == Len(rows)
     IN  round' = IF n > 1 /\ rows[n].level = rows[n - 1].level THEN NoRound
                  ELSE [pc |-> "copy", base |-> Newest(rows), copy |-> 0]
  /\ UNCHANGED <<rows, queue, setting, told, ids, falls, counted, origin, stray>>

\* Otherwise the newest row is repeated as it was read.
RoundCopies ==
  /\ round.pc = "copy"
  /\ ids' = ids + 1
  /\ rows' = Append(rows, [id |-> ids', level |-> round.base.level])
  /\ origin' = Append(origin, origin[round.base.id])
  /\ round' = [round EXCEPT !.pc = "check", !.copy = ids']
  /\ Keep /\ UNCHANGED <<queue, setting, told, counted>>

\* Something came between the row and its copy, or after them.
\* Mutant: only what came after the copy is looked for.
OvertakenAfter == Newest(rows).id # round.copy
Overtaken == \/ Newest(rows).id # round.copy
             \/ rows[Len(rows) - 1].id # round.base.id

RoundChecks ==
  /\ round.pc = "check"
  /\ round' = IF Overtaken THEN [round EXCEPT !.pc = "delete"] ELSE NoRound
  /\ Keep /\ UNCHANGED <<rows, queue, setting, told, ids, counted, origin>>

RoundDeletes ==
  /\ round.pc = "delete"
  /\ rows' = RemoveFirstMatch(rows, LAMBDA r : r.id = round.copy)
  /\ round' = NoRound
  /\ Keep /\ UNCHANGED <<queue, setting, told, ids, counted, origin>>

\* The server crashes and starts again: nothing is counted, of which a new row tells,
\* or the newest one, if it has that level.
Crash ==
  /\ falls < MaxCrashes /\ falls' = falls + 1
  /\ queue' = <<>> /\ setting' = NoSet /\ round' = NoRound /\ told' = {}
  /\ rows' = Reset(rows)
  /\ counted' = Append(counted, 0)
  /\ ids' = IF Differs(rows, 0) THEN ids + 1 ELSE ids
  /\ origin' = IF Differs(rows, 0) THEN Append(origin, Len(counted'))
               ELSE [origin EXCEPT ![Newest(rows).id] = Len(counted')]
  /\ stray' = (stray \union ({round.copy} \ {0})) \ {Newest(rows').id}
  /\ UNCHANGED runs

Next ==
  \/ \E l \in Level : Count(l)
  \/ SetReads \/ SetPuts \/ Notify
  \/ RoundReads \/ RoundCopies \/ RoundChecks \/ RoundDeletes
  \/ Crash

Spec == Init /\ [][Next]_vars
-----------------------------------------------------------------------------
TypeOK ==
  /\ \A i \in DOMAIN rows : rows[i].id \in 1..ids /\ rows[i].level \in Level
  /\ queue \in Seq(Level) /\ counted \in Seq(Level)
  /\ setting.pc \in {"idle", "put"} /\ round.pc \in {"idle", "copy", "check", "delete"}
  /\ runs \in 0..MaxRuns /\ falls \in 0..MaxCrashes
  /\ stray \subseteq 1..ids /\ origin \in Seq(1..Len(counted)) /\ Len(origin) = ids

\* The copy that a round is at, or was at in a crash, is not to be relied on.
Reliable == {i \in DOMAIN rows : rows[i].id \notin stray \union {round.copy}}

\* "make sure that history is correct": but for such copies, the rows tell of levels
\* that were counted, in the order in which they were.
NoFalseLevel ==
  \A i \in Reliable :
    /\ rows[i].level = counted[origin[rows[i].id]]
    /\ \A j \in Reliable : i < j => origin[rows[i].id] <= origin[rows[j].id]

\* Does not hold: when all is done the newest row has the last level counted.  A
\* level that is set back while a copy of it waits for its deletion is taken for
\* known, and then the copy goes.
LevelShown ==
  (queue = <<>> /\ setting.pc = "idle" /\ round.pc = "idle" /\ stray = {})
    => Newest(rows).level = Last(counted)
=============================================================================
