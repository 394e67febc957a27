-------------------------------- MODULE Board --------------------------------
(***************************************************************************)
(* What a whiteboard promises: an element never goes back to an older      *)
(* version, and what is stored follows; a crash may lose what was not yet  *)
(* stored, and nothing else does.                                          *)
(***************************************************************************)
EXTENDS Naturals

CONSTANTS Element, MaxVersion

VARIABLES
  board, stored,   \* the version of every element
  crashes

Init == board = [e \in Element |-> 0] /\ stored = board /\ crashes = 0

Older(a, b) == \A e \in Element : a[e] <= b[e]

Commit ==
  /\ board' \in [Element -> 0..MaxVersion]
  /\ Older(board, board')
  /\ UNCHANGED <<stored, crashes>>

Store ==
  /\ stored' \in [Element -> 0..MaxVersion]
  /\ Older(stored, stored') /\ Older(stored', board)
  /\ UNCHANGED <<board, crashes>>

Crash == crashes' = crashes + 1 /\ board' = stored /\ UNCHANGED stored

Next == Commit \/ Store \/ Crash

Spec == Init /\ [][Next]_<<board, stored, crashes>>
=============================================================================
