-------------------------------- MODULE H264 --------------------------------
(***************************************************************************)
(* H.264 profile-level-id: what it means, whether two are the same profile *)
(* and which one answers an offer (rct/rct_h264.c).  The six digits are a  *)
(* profile number, eight constraint bits (a set of 0..7 here) and a level. *)
(* A description without one, or with an id of another length, is None or  *)
(* Odd; the code leaves a variable of its own unset for an odd one.        *)
(***************************************************************************)
EXTENDS Naturals, FiniteSets

CONSTANTS
  Iop,     \* the sets of constraint bits that are tried
  Levels,  \* the level numbers that are tried
  None, Odd

H264Assumption == Iop \subseteq SUBSET (0..7) /\ Levels \subseteq 0..255

\* The numbers 42, 4D, 58 and 64 (hexadecimal) of the profiles.
Baseline == 66
Main == 77
Extended == 88
High == 100

L1 == 10
L1b == 0
L11 == 11
Named == {10, 11, 12, 13, 20, 21, 22, 30, 31, 32, 40, 41, 42, 50, 51, 52}

Id == [idc : {Baseline, Main, Extended, High}, iop : Iop, level : Levels]
Plid == [profile : {"cb", "b", "main", "ch", "high"}, level : {L1b} \cup Named]
Default == [profile |-> "cb", level |-> 31]

Pattern == <<
  [profile |-> "cb",   idc |-> Baseline, mask |-> {6, 3, 2, 1, 0},    bits |-> {6}],
  [profile |-> "cb",   idc |-> Main,     mask |-> {7, 3, 2, 1, 0},    bits |-> {7}],
  [profile |-> "cb",   idc |-> Extended, mask |-> {7, 6, 3, 2, 1, 0}, bits |-> {7, 6}],
  [profile |-> "b",    idc |-> Baseline, mask |-> {6, 3, 2, 1, 0},    bits |-> {}],
  [profile |-> "b",    idc |-> Extended, mask |-> {7, 6, 3, 2, 1, 0}, bits |-> {7}],
  [profile |-> "main", idc |-> Main,     mask |-> {7, 5, 3, 2, 1, 0}, bits |-> {}],
  [profile |-> "high", idc |-> High,     mask |-> 0..7,               bits |-> {}],
  [profile |-> "ch",   idc |-> High,     mask |-> 0..7,               bits |-> {3, 2}] >>

\* h264_plid_parse: the set of what is found, empty for an error.
Level(id) == IF id.level = L11 /\ 4 \in id.iop THEN L1b ELSE id.level

Parse(id) ==
  LET fit == {i \in DOMAIN Pattern : Pattern[i].idc = id.idc
                                     /\ id.iop \cap Pattern[i].mask = Pattern[i].bits}
  IN  IF id.level \notin Named \/ fit = {} THEN {}
      ELSE LET i == CHOOSE i \in fit : \A j \in fit : i <= j
           IN  {[profile |-> Pattern[i].profile, level |-> Level(id)]}

\* h264_plid_equal compares what it read; for an odd id it has read anything.
Read(p) == IF p = Odd THEN Plid ELSE IF p = None THEN {Default} ELSE Parse(p)

Equal(p, q) ==
  IF p \in Id /\ p = q THEN {TRUE}
  ELSE IF Read(p) = {} \/ Read(q) = {} THEN {FALSE}
  ELSE {x.profile = y.profile : x \in Read(p), y \in Read(q)}

\* _level_is_lesser_than, _level_min
Lesser(a, b) == IF a = L1b THEN b > L1 ELSE IF b = L1b THEN a # L1 ELSE a < b

\* Mutant: the higher one.
LeastOther(a, b) == IF Lesser(a, b) THEN b ELSE a
Least(a, b) == IF Lesser(a, b) THEN a ELSE b

\* h256_plid_to_answer: {} for an error, None when neither side has an id.
Meaning(p) == IF p \in {None, Odd} THEN {Default} ELSE Parse(p)

Answer(local, remote, asymmetry) ==
  IF {local, remote} \subseteq {None, Odd} THEN {None}
  ELSE {[profile |-> xy[1].profile,
         level |-> IF asymmetry THEN xy[1].level ELSE Least(xy[1].level, xy[2].level)] :
          xy \in {z \in Meaning(local) \X Meaning(remote) : z[1].profile = z[2].profile}}

\* h256_plid_write: the set of the id, empty for an error.
Written ==
  [cb |-> [idc |-> Baseline, iop |-> {7, 6, 5}], b |-> [idc |-> Baseline, iop |-> {}],
   main |-> [idc |-> Main, iop |-> {}], ch |-> [idc |-> High, iop |-> {3, 2}],
   high |-> [idc |-> High, iop |-> {}]]

Write(plid) ==
  LET w == Written[plid.profile]
      L1bIop == IF plid.profile = "cb" THEN {7, 6, 5, 4} ELSE {4}
  IN  IF plid.level # L1b THEN {[idc |-> w.idc, iop |-> w.iop, level |-> plid.level]}
      ELSE IF w.idc = High THEN {}
      ELSE {[idc |-> w.idc, iop |-> L1bIop, level |-> L11]}

-----------------------------------------------------------------------------
VARIABLES
  local, remote,  \* the ids of a codec here and of one there
  asymmetry,      \* both sides allow different levels
  equal, answer   \* what becomes of them

vars == <<local, remote, asymmetry, equal, answer>>

Init == /\ local \in Id \cup {None, Odd} /\ remote \in Id \cup {None, Odd}
        /\ asymmetry \in BOOLEAN
        /\ equal = None /\ answer = None

\* The strict part of rct_utils_codecs_is_matched.
Match ==
  /\ equal = None
  /\ equal' \in Equal(local, remote)
  /\ \/ ~equal' /\ answer' = None
     \/ equal' /\ Answer(local, remote, asymmetry) = {} /\ answer' = Odd
     \/ equal' /\ \E a \in Answer(local, remote, asymmetry) :
          answer' \in IF a = None THEN {None} ELSE IF Write(a) = {} THEN {Odd} ELSE Write(a)
  /\ UNCHANGED <<local, remote, asymmetry>>

Next == Match
Spec == Init /\ [][Next]_vars
-----------------------------------------------------------------------------
\* What a level number stands for in the order of the standard: 1b is between
\* 1 and 1.1.
Height(level) == IF level = L1b THEN 2 * L1 + 1 ELSE 2 * level

(* The id that answers an offer says to the other side what was agreed: it  *)
(* parses to the profile that both have, at the lower of their levels, or   *)
(* at the own one where both sides allow it.  Level 1b is left to the       *)
(* README: the comparison of levels has it above all but level 1.           *)
AnswerUnderstood ==
  (equal = TRUE /\ answer \notin {None, Odd}) =>
    /\ Parse(answer) # {}
    /\ \A x \in Meaning(local), y \in Meaning(remote), z \in Parse(answer) :
         /\ z.profile = x.profile /\ z.profile = y.profile
         /\ L1b \notin {x.level, y.level} =>
              z.level = IF asymmetry \/ Height(x.level) <= Height(y.level) THEN x.level ELSE y.level
=============================================================================
