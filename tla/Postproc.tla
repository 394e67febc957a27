------------------------------ MODULE Postproc ------------------------------
(***************************************************************************)
(* Post-processing of a recorded room (rec/recording_postproc.c).  The     *)
(* media files of the room are collected, repaired where they are flawed,  *)
(* and cut at every instant at which one of them starts or ends; between   *)
(* two cuts lies a step, in which the media that last through it are shown *)
(* side by side and heard together.                                        *)
(*                                                                         *)
(* What ffmpeg finds in a file is a choice: a file that is not readable, a *)
(* flawed one (no stream info, no duration, no channels), a good one.      *)
(***************************************************************************)
EXTENDS Integers, Sequences, FiniteSets, SequencesExt

CONSTANTS
  Media, User,
  MaxTime   \* bound: media start and end by then

PostprocBounds == MaxTime \in Nat

File == {f \in [start : 0..MaxTime, end : 0..MaxTime, user : User, video : BOOLEAN] :
           f.start < f.end}

VARIABLES
  file,     \* of each medium: start, end, user, and whether it is a video
  media,    \* ctx->media
  flawed,   \* those with FLG_FIX_NEEDED
  hopeless, \* history: those that the repair did not help
  points,   \* ptlist: starts and ends that are still to come
  mlist,    \* media that have started and not ended
  ptime,    \* the last point, -1 before the first
  steps,    \* stlist
  pc

vars == <<file, media, flawed, hopeless, points, mlist, ptime, steps, pc>>

Init ==
  /\ file = [m \in {} |-> 0]
  /\ media = {} /\ flawed = {} /\ hopeless = {}
  /\ points = {} /\ mlist = <<>> /\ steps = <<>>
  /\ ptime = -1
  /\ pc = "collect"

\* _m_collect: what can be read; some of it may be flawed.
Collect ==
  /\ pc = "collect"
  /\ \E readable \in SUBSET Media :
       /\ media' = readable
       /\ file' \in [readable -> File]
       /\ flawed' \in SUBSET readable
  /\ pc' = "fix"
  /\ UNCHANGED <<hopeless, points, mlist, ptime, steps>>

\* What the filter after the repair keeps.
Kept(unreadable, still) == unreadable

\* _m_fix: one ffmpeg copies the flawed ones; then all are looked at again.
Fix ==
  /\ pc = "fix"
  /\ IF flawed = {} THEN UNCHANGED <<media, hopeless>>
     ELSE \E unreadable \in SUBSET media : \E still \in SUBSET (media \ unreadable) :
            /\ hopeless' = unreadable \union still
            /\ media' = Kept(unreadable, still)
  /\ pc' = "sort"
  /\ UNCHANGED <<file, flawed, points, mlist, ptime, steps>>

\* _postproc: without media the task fails.
Sort ==
  /\ pc = "sort"
  /\ points' = media \X BOOLEAN
  /\ pc' = IF media = {} THEN "failed" ELSE "cut"
  /\ flawed' = {} /\ hopeless' = {}
  /\ UNCHANGED <<file, media, mlist, ptime, steps>>

Starts(p) == p[2]
Time(p) == IF Starts(p) THEN file[p[1]].start ELSE file[p[1]].end

\* Mutant: no cut in less than two units.
CutHereApart(p) == ptime # -1 /\ mlist # <<>> /\ Time(p) > ptime + 1
CutHere(p) == ptime # -1 /\ mlist # <<>> /\ (points = {p} \/ Time(p) # ptime)

\* _postproc_run: the earliest point, in any order if there are several.
Cut ==
  /\ pc = "cut"
  /\ \E p \in points :
       /\ \A q \in points : Time(p) <= Time(q)
       /\ steps' = IF CutHere(p)
                   THEN Append(steps, [start |-> ptime, end |-> Time(p), list |-> mlist])
                   ELSE steps
       /\ mlist' = IF Starts(p) THEN Append(mlist, p[1]) ELSE RemoveFirst(mlist, p[1])
       /\ ptime' = Time(p)
       /\ points' = points \ {p}
  /\ pc' = IF points' = {} THEN "done" ELSE "cut"
  /\ UNCHANGED <<file, media, flawed, hopeless>>

Next == Collect \/ Fix \/ Sort \/ Cut

Spec == Init /\ [][Next]_vars
-----------------------------------------------------------------------------
(* _postproc_generate_step: who is seen where, and who is heard.           *)

\* Mutant: who is heard only is not shown.
ActiveVideos(list) == {m \in ToSet(list) : file[m].video}

\* The videos, and the sound of the users who have none.
Active(list) ==
  {m \in ToSet(list) :
    file[m].video \/ ~\E x \in ToSet(list) : file[x].user = file[m].user /\ file[x].video}

Heard(list) == {m \in ToSet(list) : ~file[m].video}

\* The indices of those that are shown, and how many of them come before the i-th.
Shown(list) == {i \in DOMAIN list : list[i] \in Active(list)}
Place(list, i) == Cardinality({j \in Shown(list) : j < i})

Root(n) == CHOOSE r \in 0..n : r * r >= n /\ \A s \in 0..(r - 1) : s * s < n
Columns(n) == IF n < 4 THEN n ELSE Root(n)
Rows(n) == IF n < 4 THEN 1 ELSE Root(n)

\* _m_apply_layout: the column and the row of the i-th of n, from zero.
Cell(n, i) == <<i % Columns(n), i \div Columns(n)>>
-----------------------------------------------------------------------------
TypeOK ==
  /\ media \subseteq DOMAIN file
  /\ flawed \subseteq Media /\ hopeless \subseteq Media
  /\ points \subseteq Media \X BOOLEAN
  /\ ptime \in -1..MaxTime
  /\ pc \in {"collect", "fix", "sort", "cut", "done", "failed"}

Lasting(t) == {m \in media : file[m].start <= t /\ t < file[m].end}
During(t) == {i \in DOMAIN steps : steps[i].start <= t /\ t < steps[i].end}

\* At every instant of the recording the steps have what was recorded then, once:
\* no medium is shown after its end, missing, or shown twice.
StepsAreTheRecording ==
  pc = "done" =>
    \A t \in 0..MaxTime :
      IF Lasting(t) = {} THEN During(t) = {}
      ELSE \E i \in During(t) : During(t) = {i} /\ ToSet(steps[i].list) = Lasting(t)
                                /\ Len(steps[i].list) = Cardinality(Lasting(t))

\* Everybody who is in a step is seen in it, in a cell of their own inside the
\* picture, and everybody who speaks is heard.
EverybodySeen ==
  \A s \in DOMAIN steps :
    LET list == steps[s].list
        n == Cardinality(Shown(list))
        At(i) == Cell(n, Place(list, i))
    IN /\ \A i, j \in Shown(list) : At(i) = At(j) => i = j
       /\ \A i \in Shown(list) : At(i)[1] < Columns(n) /\ At(i)[2] < Rows(n)
       /\ {file[m].user : m \in ToSet(list)} = {file[m].user : m \in Active(list)}
       /\ Heard(list) \union Active(list) = ToSet(list)

\* "Now filter out unrecoverable media items".
Filtered == media \cap hopeless = {}
=============================================================================
