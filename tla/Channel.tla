------------------------------- MODULE Channel -------------------------------
(***************************************************************************)
(* What the channel to a worker promises: messages arrive whole, once and  *)
(* in order, and all of them do unless the channel breaks.                 *)
(***************************************************************************)
EXTENDS Naturals, Sequences

CONSTANT Message

VARIABLES sent, received, broken

vars == <<sent, received, broken>>

Init == sent = <<>> /\ received = <<>> /\ broken = FALSE

Send == /\ \E m \in Message : sent' = Append(sent, m)
        /\ UNCHANGED <<received, broken>>

\* A few at a time.
Receive ==
  /\ ~broken
  /\ \E n \in (Len(received) + 1)..Len(sent) : received' = SubSeq(sent, 1, n)
  /\ broken' \in BOOLEAN
  /\ UNCHANGED sent

Break == ~broken /\ broken' = TRUE /\ UNCHANGED <<sent, received>>

Next == Send \/ Receive \/ Break

Spec == Init /\ [][Next]_vars /\ WF_vars(Receive)
=============================================================================
