------------------------- MODULE WrcMessages_proof -------------------------
(***************************************************************************)
(* Proofs about WrcMessages, for any number of threads, messages and       *)
(* commands: type correctness, and, as long as no wait ends before its     *)
(* answer, that answers reach the threads they are for.                    *)
(***************************************************************************)
EXTENDS WrcMessages, TLAPS

(***************************************************************************)
(* Type correctness.                                                       *)
(***************************************************************************)
Types ==
  /\ TypeOK
  /\ \A c \in Caller : pc[c] # "idle" => at[c] \in Addr /\ id[at[c]] # 0
  /\ \A c \in Caller : pc[c] = "idle" => at[c] = None
  /\ \A c, d \in Caller : at[c] # None /\ at[c] = at[d] => c = d
  /\ hm # None => answer.id \in 1..MaxId

LEMMA UnlinkType ==
  ASSUME TypeOK, NEW a \in Addr, Unlink(a)
  PROVE  {head', tail'} \subseteq Addr \union {None} /\ next' \in [Addr -> Addr \union {None}]
<1>1. Listed \subseteq Addr /\ Pred(a) \subseteq Addr
  BY DEF Listed, Pred
<1>2. CASE UNCHANGED <<head, tail, next>>
  BY <1>2 DEF TypeOK
<1>3. CASE head' = next[a] /\ tail' = (IF next[a] = None THEN None ELSE tail) /\ UNCHANGED next
  BY <1>3 DEF TypeOK
<1>4. CASE \E p \in Pred(a) : /\ next' = [next EXCEPT ![p] = next[a]]
                              /\ tail' = IF next[a] = None THEN p ELSE tail
                              /\ UNCHANGED head
  BY <1>1, <1>4 DEF TypeOK
<1> QED BY <1>2, <1>3, <1>4 DEF Unlink

LEMMA InitTypes == Init => Types
BY MaxIdAssumption DEF Init, Types, TypeOK, NoResult, Answer

LEMMA NextTypes == Types /\ [Next]_vars => Types'
<1> SUFFICES ASSUME Types, [Next]_vars PROVE Types'
  OBVIOUS
<1> USE MaxIdAssumption DEF Types, TypeOK, mem, list
<1>1. ASSUME NEW c \in Caller, NEW a \in Addr, Allocate(c, a) PROVE Types'
  <2>1. a # None /\ seq + 1 \in 0..MaxId /\ at[c] = None
    BY <1>1, NoneAssumption DEF Allocate
  <2>2. \A d \in Caller : at[d] # a
    BY <1>1, <2>1 DEF Allocate
  <2>3. /\ seq' \in 0..MaxId /\ id' \in [Addr -> 0..MaxId]
        /\ next' \in [Addr -> Addr \union {None}] /\ inWait' \in [Addr -> BOOLEAN]
        /\ rc' \in [Addr -> {"ok", "exit", "error"}] /\ at' \in [Caller -> Addr \union {None}]
    BY <1>1, <2>1 DEF Allocate
  <2>4. data' \in [Addr -> [id : 1..MaxId, error : BOOLEAN] \union {None}]
    BY <1>1 DEF Allocate
  <2>5. result' \in [Caller -> [id : 0..MaxId, rc : {"none", "ok", "exit", "error"},
                              data : [id : 1..MaxId, error : BOOLEAN] \union {None}]]
    BY <1>1 DEF Allocate, NoResult
  <2>6. TypeOK'
    BY <1>1, <2>3, <2>4, <2>5 DEF Allocate
  <2>7. \A d \in Caller : pc'[d] # "idle" => at'[d] \in Addr /\ id'[at'[d]] # 0
    BY <1>1, <2>1, <2>2 DEF Allocate
  <2> QED BY <1>1, <2>1, <2>2, <2>6, <2>7 DEF Allocate
<1>2. ASSUME NEW c \in Caller, Enqueue(c) PROVE Types'
  <2>1. at[c] \in Addr
    BY <1>2 DEF Enqueue
  <2>2. {head', tail'} \subseteq Addr \union {None} /\ next' \in [Addr -> Addr \union {None}]
    BY <1>2, <2>1 DEF Enqueue
  <2>3. pc' = [pc EXCEPT ![c] = "transmit"] /\ pc[c] = "enqueue"
        /\ UNCHANGED <<seq, id, inWait, rc, data, at, result, inbox, worker, hm, answer>>
    BY <1>2 DEF Enqueue
  <2> QED BY <2>2, <2>3
<1>3. ASSUME NEW c \in Caller, Transmit(c) PROVE Types'
  <2>0. pc[c] # "idle"
    BY <1>3 DEF Transmit
  <2>1. at[c] \in Addr /\ id[at[c]] \in 1..MaxId
    <3>1. at[c] \in Addr /\ id[at[c]] # 0
      BY <2>0
    <3> QED BY <3>1
  <2>2. inbox' \subseteq inbox \union {id[at[c]]}
    BY <1>3 DEF Transmit
  <2>3. inbox' \subseteq 1..MaxId
    BY <2>1, <2>2
  <2> QED BY <1>3, <2>3 DEF Transmit
<1>4. ASSUME NEW c \in Caller, Refused(c) PROVE Types'
  <2>1. at[c] \in Addr /\ Unlink(at[c])
    BY <1>4 DEF Refused
  <2>2. {head', tail'} \subseteq Addr \union {None} /\ next' \in [Addr -> Addr \union {None}]
    BY <2>1, UnlinkType
  <2> QED BY <1>4, <2>1, <2>2 DEF Refused, Result
<1>5. ASSUME NEW c \in Caller, BeginWait(c) PROVE Types'
  BY <1>5 DEF BeginWait
<1>6. ASSUME NEW c \in Caller, WaitEnds(c) \/ Woken(c) PROVE Types'
  <2>1. PICK r \in {"ok", "exit", "error"} :
          result' = [result EXCEPT ![c] = Result(id[at[c]], r, None)]
    BY <1>6 DEF WaitEnds, Woken
  <2>2. result' \in [Caller -> [id : 0..MaxId, rc : {"none", "ok", "exit", "error"},
                              data : [id : 1..MaxId, error : BOOLEAN] \union {None}]]
    BY <1>6, <2>1 DEF WaitEnds, Woken, Result
  <2>3. /\ pc' = [pc EXCEPT ![c] = "unlink"] /\ pc[c] # "idle"
        /\ UNCHANGED <<seq, id, next, inWait, rc, data, head, tail, at, inbox, worker, hm, answer>>
    BY <1>6 DEF WaitEnds, Woken
  <2>4. TypeOK'
    BY <2>2, <2>3
  <2>5. \A d \in Caller : pc'[d] # "idle" <=> pc[d] # "idle"
    BY <2>3
  <2> QED BY <2>3, <2>4, <2>5
<1>7. ASSUME NEW c \in Caller, UnlinkOwn(c) PROVE Types'
  <2>1. at[c] \in Addr /\ Unlink(at[c])
    BY <1>7 DEF UnlinkOwn
  <2>2. {head', tail'} \subseteq Addr \union {None} /\ next' \in [Addr -> Addr \union {None}]
    BY <2>1, UnlinkType
  <2> QED BY <1>7, <2>1, <2>2 DEF UnlinkOwn
<1>8. ASSUME NEW c \in Caller, Free(c) PROVE Types'
  <2>1. at[c] \in Addr /\ at[c] # None
    BY <1>8, NoneAssumption DEF Free
  <2>2. /\ id' = [id EXCEPT ![at[c]] = 0] /\ at' = [at EXCEPT ![c] = None]
        /\ pc' = [pc EXCEPT ![c] = "idle"]
        /\ result' = [result EXCEPT ![c].data = data[at[c]]]
        /\ UNCHANGED <<seq, next, inWait, rc, data, head, tail, inbox, worker, hm, answer>>
    BY <1>8 DEF Free
  <2>3. id' \in [Addr -> 0..MaxId]
    BY <2>1, <2>2
  <2>4. result' \in [Caller -> [id : 0..MaxId, rc : {"none", "ok", "exit", "error"},
                              data : [id : 1..MaxId, error : BOOLEAN] \union {None}]]
    BY <2>1, <2>2
  <2>5. TypeOK'
    BY <2>2, <2>3, <2>4
  <2>6. ASSUME NEW d \in Caller, d # c PROVE at'[d] = at[d] /\ pc'[d] = pc[d] /\ at[d] # at[c]
    BY <2>1, <2>2, <2>6
  <2>7. \A d \in Caller : pc'[d] # "idle" => at'[d] \in Addr /\ id'[at'[d]] # 0
    BY <2>2, <2>6
  <2> QED BY <2>2, <2>5, <2>6, <2>7
<1>9. ASSUME NEW c \in Caller, SendAsync(c) PROVE Types'
  BY <1>9 DEF SendAsync
<1>10. ASSUME NEW i \in 1..MaxId, NEW e \in BOOLEAN, OnMsg(i, e) PROVE Types'
  <2>1. CASE UNCHANGED <<head, tail, next, hm, answer>>
    BY <1>10, <2>1 DEF OnMsg
  <2>2. ASSUME NEW a \in Listed, Unlink(a), hm' = a, answer' = Answer(i, e) PROVE Types'
    <3>1. a \in Addr
      BY DEF Listed
    <3>2. {head', tail'} \subseteq Addr \union {None} /\ next' \in [Addr -> Addr \union {None}]
      BY <2>2, <3>1, UnlinkType
    <3> QED BY <1>10, <2>2, <3>1, <3>2 DEF OnMsg, Answer
  <2> QED BY <1>10, <2>1, <2>2 DEF OnMsg
<1>11. ASSUME Complete PROVE Types'
  BY <1>11 DEF Complete, Answer
<1>12. ASSUME OnClosed PROVE Types'
  BY <1>12 DEF OnClosed
<1>13. ASSUME AdapterGone PROVE Types'
  BY <1>13 DEF AdapterGone
<1>14. ASSUME UNCHANGED vars PROVE Types'
  BY <1>14 DEF vars
<1> QED
  BY <1>1, <1>2, <1>3, <1>4, <1>5, <1>6, <1>7, <1>8, <1>9, <1>10, <1>11, <1>12, <1>13, <1>14
  DEF Next, CallStep

(* Every variable keeps its type, whether waits end early or not.           *)
THEOREM TypeCorrect == Spec => []TypeOK
<1>1. Types => TypeOK
  BY DEF Types
<1> QED BY <1>1, InitTypes, NextTypes, PTL DEF Spec

(***************************************************************************)
(* Answers.                                                                *)
(***************************************************************************)

\* Memory in use is some thread's, and no two messages have the same id.
Owned ==
  /\ \A a \in Addr : id[a] # 0 => \E c \in Caller : at[c] = a
  /\ \A c \in Caller : at[c] # None => id[at[c]] <= seq
  /\ \A c, d \in Caller : at[c] # None /\ at[d] # None /\ id[at[c]] = id[at[d]] => c = d
  /\ inbox \subseteq 1..seq

\* The thread will take notice of an answer.
Attentive(c) == pc[c] = "waiting" \/ (pc[c] = "sent" /\ ~inWait[at[c]])

\* A thread is attentive, and has no answer, from when its command is sent until
\* its answer is stored; the poller holds the message of such a thread, which therefore cannot
\* destroy it.
Awaited ==
  /\ \A c \in Caller :
       /\ at[c] # None /\ id[at[c]] \in inbox => Attentive(c)
       /\ pc[c] \in {"enqueue", "transmit"} => ~inWait[at[c]] /\ data[at[c]] = None
       /\ Attentive(c) => data[at[c]] = None
  /\ hm # None =>
       /\ worker = "up"
       /\ id[hm] = answer.id /\ answer.id \notin inbox
       /\ \E c \in Caller : at[c] = hm /\ Attentive(c)

\* What is stored is the answer to the command.
Own ==
  \A c \in Caller :
    /\ at[c] # None /\ data[at[c]] # None => data[at[c]].id = id[at[c]]
    /\ pc[c] \in {"unlink", "free"} => result[c].id = id[at[c]]
    /\ result[c].data # None => result[c].data.id = result[c].id

IInv == Types /\ Owned /\ Awaited /\ Own

LEMMA InitIInv == Init => IInv
<1> SUFFICES ASSUME Init PROVE IInv
  OBVIOUS
<1>1. Types
  BY InitTypes
<1>2. Owned
  BY DEF Init, Owned
<1>3. Awaited
  BY DEF Init, Awaited, Attentive
<1>4. Own
  BY DEF Init, Own, NoResult
<1> QED BY <1>1, <1>2, <1>3, <1>4 DEF IInv

(* Steps of a thread on its own message, which neither send nor answer.     *)
LEMMA LocalStep ==
  ASSUME IInv, Types', NEW c \in Caller, pc[c] # "idle",
         UNCHANGED <<seq, id, at, data, inbox, worker, hm, answer>>,
         \A d \in Caller : d # c => pc'[d] = pc[d] /\ result'[d] = result[d],
         \A a \in Addr : a # at[c] => inWait'[a] = inWait[a],
         Attentive(c) => Attentive(c)',
         pc'[c] \in {"enqueue", "transmit"} => ~inWait'[at[c]] /\ data[at[c]] = None,
         Attentive(c)' => data[at[c]] = None,
         pc'[c] \in {"unlink", "free"} => result'[c].id = id[at[c]],
         result'[c].data # None => result'[c].data.id = result'[c].id
  PROVE  IInv'
<1>1. Types /\ Owned /\ Awaited /\ Own
  BY DEF IInv
<1>2. Owned'
  BY <1>1 DEF Owned
<1>3. ASSUME NEW d \in Caller, d # c, at[d] # None PROVE at[d] \in Addr /\ at[d] # at[c]
  BY <1>1, <1>3 DEF Types, TypeOK
<1>4. \A d \in Caller : pc[d] # "idle" => at[d] # None
  BY <1>1, NoneAssumption DEF Types
<1>5. ASSUME NEW d \in Caller, Attentive(d) PROVE Attentive(d)'
  <2>1. CASE d = c
    BY <1>5, <2>1
  <2>2. CASE d # c
    BY <1>3, <1>4, <1>5, <2>2 DEF Attentive
  <2> QED BY <2>1, <2>2
<1>6. ASSUME NEW d \in Caller
      PROVE  /\ at[d] # None /\ id[at[d]] \in inbox => Attentive(d)'
             /\ pc'[d] \in {"enqueue", "transmit"} => ~inWait'[at[d]] /\ data[at[d]] = None
             /\ Attentive(d)' => data[at[d]] = None
  <2>1. CASE d = c
    BY <1>1, <1>5, <2>1 DEF Awaited
  <2>2. CASE d # c
    BY <1>1, <1>3, <1>4, <1>5, <2>2 DEF Awaited, Attentive
  <2> QED BY <2>1, <2>2
<1>7. Awaited'
  BY <1>1, <1>5, <1>6 DEF Awaited
<1>8. Own'
  <2>1. ASSUME NEW d \in Caller
        PROVE  /\ at[d] # None /\ data[at[d]] # None => data[at[d]].id = id[at[d]]
               /\ pc'[d] \in {"unlink", "free"} => result'[d].id = id[at[d]]
               /\ result'[d].data # None => result'[d].data.id = result'[d].id
    <3>1. CASE d = c
      BY <1>1, <3>1 DEF Own
    <3>2. CASE d # c
      BY <1>1, <3>2 DEF Own
    <3> QED BY <3>1, <3>2
  <2> QED BY <2>1 DEF Own
<1> QED BY <1>2, <1>7, <1>8 DEF IInv

LEMMA NextIInv == ASSUME ~Timeouts, IInv, [Next]_vars PROVE IInv'
<1> USE MaxIdAssumption, NoneAssumption
<1>t. Types /\ Types'
  BY NextTypes DEF IInv
<1>o. Owned /\ Awaited /\ Own
  BY DEF IInv
<1>u. ASSUME NEW c \in Caller, pc[c] # "idle"
      PROVE  /\ at[c] \in Addr /\ at[c] # None /\ id[at[c]] \in 1..MaxId
             /\ \A d \in Caller : d # c => at[d] # at[c]
  BY <1>t, <1>u DEF Types, TypeOK
<1>1. ASSUME NEW c \in Caller, NEW a \in Addr, Allocate(c, a) PROVE IInv'
  <2>1. a # None /\ at[c] = None /\ seq' = seq + 1 /\ id[a] = 0
    BY <1>1, <1>t DEF Allocate, Types
  <2>2. \A d \in Caller : at[d] # a
    BY <1>t, <2>1 DEF Types, TypeOK
  <2>3. /\ id' = [id EXCEPT ![a] = seq + 1] /\ at' = [at EXCEPT ![c] = a]
        /\ UNCHANGED <<inbox, hm, answer, worker>>
    BY <1>1, <2>1 DEF Allocate
  <2>4. \A d \in Caller : d # c => at'[d] = at[d] /\ (at[d] # None => id'[at[d]] = id[at[d]])
    BY <1>t, <2>2, <2>3 DEF Types, TypeOK
  <2>5. at'[c] = a /\ id'[a] = seq + 1
    BY <1>t, <2>3 DEF Types, TypeOK
  <2>6. seq \in Nat
    BY <1>t DEF Types, TypeOK
  <2>7. Owned'
    <3>1. \A b \in Addr : id'[b] # 0 => \E d \in Caller : at'[d] = b
      BY <1>o, <1>t, <2>1, <2>3, <2>4, <2>5 DEF Owned, Types, TypeOK
    <3>2. \A d \in Caller : d # c /\ at'[d] # None => id'[at'[d]] <= seq /\ id'[at'[d]] \in Nat
      BY <1>o, <1>t, <2>4 DEF Owned, Types, TypeOK
    <3>3. \A d \in Caller : at'[d] # None => id'[at'[d]] <= seq'
      BY <3>2, <2>1, <2>5, <2>6
    <3>4. \A d, e \in Caller : at'[d] # None /\ at'[e] # None /\ id'[at'[d]] = id'[at'[e]] => d = e
      BY <3>2, <2>4, <2>5, <2>6, <1>o DEF Owned
    <3>5. inbox' \subseteq 1..seq'
      BY <1>o, <2>1, <2>3, <2>6 DEF Owned
    <3> QED BY <3>1, <3>3, <3>4, <3>5 DEF Owned
  <2>8. /\ data' = [data EXCEPT ![a] = None] /\ inWait' = [inWait EXCEPT ![a] = FALSE]
        /\ pc' = [pc EXCEPT ![c] = "enqueue"] /\ result' = [result EXCEPT ![c] = NoResult]
    BY <1>1 DEF Allocate
  <2>9. ASSUME NEW d \in Caller, d # c
        PROVE  /\ at'[d] = at[d] /\ pc'[d] = pc[d] /\ result'[d] = result[d]
               /\ at[d] # None => /\ id'[at[d]] = id[at[d]] /\ data'[at[d]] = data[at[d]]
                                  /\ inWait'[at[d]] = inWait[at[d]]
    <3>1. pc'[d] = pc[d] /\ result'[d] = result[d]
      BY <1>t, <2>8, <2>9 DEF Types, TypeOK
    <3>2. ASSUME NEW b \in Addr, b # a PROVE data'[b] = data[b] /\ inWait'[b] = inWait[b]
      BY <1>t, <2>8, <3>2 DEF Types, TypeOK
    <3>3. at[d] # None => at[d] \in Addr /\ at[d] # a
      BY <1>t, <2>2 DEF Types, TypeOK
    <3> QED BY <2>4, <2>9, <3>1, <3>2, <3>3
  <2>10. /\ pc'[c] = "enqueue" /\ result'[c] = NoResult /\ data'[a] = None /\ ~inWait'[a]
         /\ seq + 1 \notin inbox
    BY <1>t, <1>o, <2>6, <2>8 DEF Types, TypeOK, Owned
  <2>11. \A d \in Caller : pc[d] # "idle" => at[d] # None
    BY <1>u
  <2>12. ASSUME NEW d \in Caller, d # c, Attentive(d) PROVE Attentive(d)'
    BY <2>9, <2>11, <2>12 DEF Attentive
  <2>13. Awaited'
    <3>1. ASSUME NEW d \in Caller
          PROVE  /\ at'[d] # None /\ id'[at'[d]] \in inbox' => Attentive(d)'
                 /\ pc'[d] \in {"enqueue", "transmit"} => ~inWait'[at'[d]] /\ data'[at'[d]] = None
                 /\ Attentive(d)' => data'[at'[d]] = None
      <4>1. CASE d = c
        BY <4>1, <2>5, <2>10, <2>3 DEF Attentive
      <4>2. CASE d # c
        BY <4>2, <2>3, <2>9, <2>11, <2>12, <1>o DEF Awaited, Attentive
      <4> QED BY <4>1, <4>2
    <3>2. ASSUME hm' # None
          PROVE  /\ worker' = "up" /\ id'[hm'] = answer'.id /\ answer'.id \notin inbox'
                 /\ \E d \in Caller : at'[d] = hm' /\ Attentive(d)'
      <4>1. PICK d \in Caller : at[d] = hm /\ Attentive(d)
        BY <3>2, <2>3, <1>o DEF Awaited
      <4>2. d # c /\ at[d] # None
        BY <4>1, <2>1, <3>2, <2>3
      <4> QED BY <3>2, <4>1, <4>2, <2>3, <2>9, <2>12, <1>o DEF Awaited
    <3> QED BY <3>1, <3>2 DEF Awaited
  <2>14. Own'
    <3>1. ASSUME NEW d \in Caller
          PROVE  /\ at'[d] # None /\ data'[at'[d]] # None => data'[at'[d]].id = id'[at'[d]]
                 /\ pc'[d] \in {"unlink", "free"} => result'[d].id = id'[at'[d]]
                 /\ result'[d].data # None => result'[d].data.id = result'[d].id
      <4>1. CASE d = c
        BY <4>1, <2>5, <2>10 DEF NoResult
      <4>2. CASE d # c
        BY <4>2, <2>9, <2>11, <1>o DEF Own
      <4> QED BY <4>1, <4>2
    <3> QED BY <3>1 DEF Own
  <2> QED BY <1>t, <2>7, <2>13, <2>14 DEF IInv
<1>2. ASSUME NEW c \in Caller, Enqueue(c) PROVE IInv'
  <2>1. /\ pc[c] = "enqueue" /\ pc' = [pc EXCEPT ![c] = "transmit"]
        /\ UNCHANGED <<seq, id, at, data, inWait, result, inbox, worker, hm, answer>>
    BY <1>2 DEF Enqueue
  <2>2. pc[c] # "idle" /\ pc'[c] = "transmit" /\ \A d \in Caller : d # c => pc'[d] = pc[d]
    BY <1>t, <2>1 DEF Types, TypeOK
  <2>3. ~inWait[at[c]] /\ data[at[c]] = None /\ ~Attentive(c)
    BY <1>o, <2>1 DEF Awaited, Attentive
  <2>4. result[c].data # None => result[c].data.id = result[c].id
    BY <1>o DEF Own
  <2> QED BY <1>t, <2>1, <2>2, <2>3, <2>4, LocalStep
<1>3. ASSUME NEW c \in Caller, Transmit(c) PROVE IInv'
  <2>1. /\ pc[c] = "transmit"
        /\ UNCHANGED <<seq, id, at, data, inWait, result, worker, hm, answer>>
    BY <1>3 DEF Transmit, mem
  <2>2. ~inWait[at[c]] /\ data[at[c]] = None /\ ~Attentive(c)
    BY <1>o, <2>1 DEF Awaited, Attentive
  <2>3. result[c].data # None => result[c].data.id = result[c].id
    BY <1>o DEF Own
  <2>4. pc[c] # "idle"
    BY <2>1
  <2>5. CASE UNCHANGED inbox /\ pc' = [pc EXCEPT ![c] = "refused"]
    <3>1. pc'[c] = "refused" /\ \A d \in Caller : d # c => pc'[d] = pc[d]
      BY <1>t, <2>5 DEF Types, TypeOK
    <3> QED BY <1>t, <2>1, <2>2, <2>3, <2>4, <2>5, <3>1, LocalStep
  <2>6. CASE inbox' = inbox \union {id[at[c]]} /\ pc' = [pc EXCEPT ![c] = "sent"]
    <3>1. pc'[c] = "sent" /\ \A d \in Caller : d # c => pc'[d] = pc[d]
      BY <1>t, <2>6 DEF Types, TypeOK
    <3>2. at[c] # None /\ id[at[c]] \in 1..MaxId
      BY <1>u, <2>4
    <3>3. Owned'
      BY <1>o, <1>t, <2>1, <2>6, <3>2 DEF Owned, Types, TypeOK
    <3>4. Attentive(c)'
      BY <2>1, <2>2, <3>1 DEF Attentive
    <3>5. \A d \in Caller : Attentive(d) => Attentive(d)'
      BY <2>1, <3>1, <3>4 DEF Attentive
    <3>6. \A d \in Caller : at[d] # None /\ d # c => id[at[d]] # id[at[c]]
      BY <1>o, <3>2 DEF Owned
    <3>7. \A d \in Caller : at[d] # None /\ id[at[d]] \in inbox' => Attentive(d)'
      BY <1>o, <2>6, <3>4, <3>5, <3>6 DEF Awaited
    <3>8. hm # None => id[hm] \notin inbox'
      <4>1. SUFFICES ASSUME hm # None PROVE id[hm] # id[at[c]]
        BY <1>o, <2>6 DEF Awaited
      <4>2. PICK d \in Caller : at[d] = hm /\ Attentive(d)
        BY <1>o, <4>1 DEF Awaited
      <4> QED BY <2>2, <3>6, <4>1, <4>2
    <3>9. Awaited'
      BY <1>o, <2>1, <2>2, <3>1, <3>5, <3>7, <3>8 DEF Awaited, Attentive
    <3>10. Own'
      BY <1>o, <2>1, <3>1 DEF Own
    <3> QED BY <1>t, <3>3, <3>9, <3>10 DEF IInv
  <2> QED BY <1>3, <2>5, <2>6 DEF Transmit
<1>4. ASSUME NEW c \in Caller, Refused(c) PROVE IInv'
  <2>1. /\ pc[c] = "refused" /\ pc' = [pc EXCEPT ![c] = "free"]
        /\ result' = [result EXCEPT ![c] = Result(id[at[c]], "error", None)]
        /\ inWait' = [inWait EXCEPT ![at[c]] = TRUE]
        /\ UNCHANGED <<seq, id, at, data, inbox, worker, hm, answer>>
    BY <1>4 DEF Refused
  <2>2. /\ pc[c] # "idle" /\ pc'[c] = "free" /\ ~Attentive(c)
        /\ \A d \in Caller : d # c => pc'[d] = pc[d] /\ result'[d] = result[d]
        /\ \A a \in Addr : a # at[c] => inWait'[a] = inWait[a]
    BY <1>t, <2>1 DEF Types, TypeOK, Attentive
  <2>3. result'[c].id = id[at[c]] /\ result'[c].data = None
    BY <1>t, <2>1 DEF Types, TypeOK, Result
  <2> QED BY <1>t, <2>1, <2>2, <2>3, LocalStep DEF Attentive
<1>5. ASSUME NEW c \in Caller, BeginWait(c) PROVE IInv'
  <2>1. /\ pc[c] = "sent"
        /\ UNCHANGED <<seq, id, at, data, result, inbox, worker, hm, answer>>
    BY <1>5 DEF BeginWait
  <2>2. result[c].data # None => result[c].data.id = result[c].id
    BY <1>o DEF Own
  <2>3. pc[c] # "idle" /\ at[c] \in Addr
    BY <1>u, <2>1
  <2>4. CASE inWait[at[c]] /\ pc' = [pc EXCEPT ![c] = "woken"] /\ UNCHANGED inWait
    <3>1. pc'[c] = "woken" /\ ~Attentive(c) /\ \A d \in Caller : d # c => pc'[d] = pc[d]
      BY <1>t, <2>1, <2>4 DEF Types, TypeOK, Attentive
    <3> QED BY <1>t, <2>1, <2>2, <2>3, <2>4, <3>1, LocalStep DEF Attentive
  <2>5. CASE /\ ~inWait[at[c]] /\ inWait' = [inWait EXCEPT ![at[c]] = TRUE]
             /\ pc' = [pc EXCEPT ![c] = "waiting"]
    <3>1. /\ pc'[c] = "waiting" /\ \A d \in Caller : d # c => pc'[d] = pc[d]
          /\ \A a \in Addr : a # at[c] => inWait'[a] = inWait[a]
      BY <1>t, <2>5 DEF Types, TypeOK
    <3>2. data[at[c]] = None
      BY <1>o, <2>1, <2>5 DEF Awaited, Attentive
    <3>3. Attentive(c)'
      BY <2>1, <3>1, <3>2 DEF Attentive
    <3> QED BY <1>t, <2>1, <2>2, <2>3, <3>1, <3>2, <3>3, LocalStep
  <2> QED BY <1>5, <2>4, <2>5 DEF BeginWait
<1>6. ASSUME NEW c \in Caller, Woken(c) PROVE IInv'
  <2>1. /\ pc[c] = "woken" /\ pc' = [pc EXCEPT ![c] = "unlink"]
        /\ result' = [result EXCEPT ![c] = Result(id[at[c]], rc[at[c]], None)]
        /\ UNCHANGED <<seq, id, at, data, inWait, inbox, worker, hm, answer>>
    BY <1>6 DEF Woken, mem
  <2>2. /\ pc[c] # "idle" /\ pc'[c] = "unlink" /\ ~Attentive(c)
        /\ \A d \in Caller : d # c => pc'[d] = pc[d] /\ result'[d] = result[d]
    BY <1>t, <2>1 DEF Types, TypeOK, Attentive
  <2>3. result'[c].id = id[at[c]] /\ result'[c].data = None
    BY <1>t, <2>1 DEF Types, TypeOK, Result
  <2> QED BY <1>t, <2>1, <2>2, <2>3, LocalStep DEF Attentive
<1>7. ASSUME NEW c \in Caller, UnlinkOwn(c) PROVE IInv'
  <2>1. /\ pc[c] = "unlink" /\ pc' = [pc EXCEPT ![c] = "free"]
        /\ UNCHANGED <<seq, id, at, data, inWait, result, inbox, worker, hm, answer>>
    BY <1>7 DEF UnlinkOwn
  <2>2. /\ pc[c] # "idle" /\ pc'[c] = "free" /\ ~Attentive(c)
        /\ \A d \in Caller : d # c => pc'[d] = pc[d]
    BY <1>t, <2>1 DEF Types, TypeOK, Attentive
  <2>3. /\ result[c].id = id[at[c]]
        /\ result[c].data # None => result[c].data.id = result[c].id
    BY <1>o, <2>1 DEF Own
  <2> QED BY <1>t, <2>1, <2>2, <2>3, LocalStep DEF Attentive
<1>8. ASSUME NEW c \in Caller, Free(c) PROVE IInv'
  <2>1. /\ pc[c] = "free" /\ pc' = [pc EXCEPT ![c] = "idle"]
        /\ result' = [result EXCEPT ![c].data = data[at[c]]]
        /\ id' = [id EXCEPT ![at[c]] = 0] /\ at' = [at EXCEPT ![c] = None]
        /\ UNCHANGED <<seq, data, inWait, inbox, worker, hm, answer>>
    BY <1>8 DEF Free
  <2>2. /\ at[c] \in Addr /\ at[c] # None
        /\ \A d \in Caller : d # c => at[d] # at[c]
    BY <1>u, <2>1
  <2>3. pc'[c] = "idle" /\ at'[c] = None /\ id'[at[c]] = 0
    BY <1>t, <2>1, <2>2 DEF Types, TypeOK
  <2>4. \A a \in Addr : a # at[c] => id'[a] = id[a]
    BY <1>t, <2>1 DEF Types, TypeOK
  <2>5. ASSUME NEW d \in Caller, d # c
        PROVE  /\ pc'[d] = pc[d] /\ at'[d] = at[d] /\ result'[d] = result[d]
               /\ at[d] # None => id'[at[d]] = id[at[d]]
    BY <1>t, <2>1, <2>2, <2>4, <2>5 DEF Types, TypeOK
  <2>6. Owned'
    <3>1. ASSUME NEW a \in Addr, id'[a] # 0 PROVE \E d \in Caller : at'[d] = a
      <4>1. a # at[c] /\ id[a] # 0
        BY <2>3, <2>4, <3>1
      <4>2. PICK d \in Caller : at[d] = a
        BY <1>o, <4>1 DEF Owned
      <4> QED BY <2>5, <4>1, <4>2
    <3> QED BY <1>o, <2>1, <2>3, <2>5, <3>1 DEF Owned
  <2>7. ASSUME NEW d \in Caller, Attentive(d) PROVE d # c /\ Attentive(d)'
    BY <2>1, <2>5, <2>7 DEF Attentive
  <2>8. \A d \in Caller : pc[d] # "idle" => at[d] # None
    BY <1>u
  <2>9. Awaited'
    <3>1. ASSUME NEW d \in Caller
          PROVE  /\ at'[d] # None /\ id'[at'[d]] \in inbox => Attentive(d)'
                 /\ pc'[d] \in {"enqueue", "transmit"} => ~inWait[at'[d]] /\ data[at'[d]] = None
                 /\ Attentive(d)' => data[at'[d]] = None
      <4>1. CASE d = c
        BY <2>3, <4>1 DEF Attentive
      <4>2. CASE d # c
        BY <1>o, <2>1, <2>5, <2>7, <2>8, <4>2 DEF Awaited, Attentive
      <4> QED BY <4>1, <4>2
    <3>2. ASSUME hm # None
          PROVE  /\ worker = "up" /\ id'[hm] = answer.id /\ answer.id \notin inbox
                 /\ \E d \in Caller : at'[d] = hm /\ Attentive(d)'
      <4>1. PICK d \in Caller : at[d] = hm /\ Attentive(d)
        BY <1>o, <3>2 DEF Awaited
      <4> QED BY <1>o, <2>5, <2>7, <3>2, <4>1 DEF Awaited
    <3> QED BY <2>1, <3>1, <3>2 DEF Awaited
  <2>10. Own'
    <3>1. result'[c].data = data[at[c]] /\ result'[c].id = result[c].id
      BY <1>t, <2>1 DEF Types, TypeOK
    <3>2. /\ result[c].id = id[at[c]]
          /\ data[at[c]] # None => data[at[c]].id = id[at[c]]
      BY <1>o, <2>1, <2>2 DEF Own
    <3>3. ASSUME NEW d \in Caller
          PROVE  /\ at'[d] # None /\ data[at'[d]] # None => data[at'[d]].id = id'[at'[d]]
                 /\ pc'[d] \in {"unlink", "free"} => result'[d].id = id'[at'[d]]
                 /\ result'[d].data # None => result'[d].data.id = result'[d].id
      <4>1. CASE d = c
        BY <2>3, <3>1, <3>2, <4>1
      <4>2. CASE d # c
        BY <1>o, <2>5, <2>8, <4>2 DEF Own
      <4> QED BY <4>1, <4>2
    <3> QED BY <2>1, <3>3 DEF Own
  <2> QED BY <1>t, <2>6, <2>9, <2>10 DEF IInv
<1>9. ASSUME NEW c \in Caller, SendAsync(c) PROVE IInv'
  <2>1. /\ seq' = seq + 1 /\ inbox' = inbox \union {seq + 1}
        /\ UNCHANGED <<id, at, data, inWait, pc, result, worker, hm, answer>>
    BY <1>9 DEF SendAsync, mem
  <2>2. \A d \in Caller : at[d] # None => at[d] \in Addr /\ id[at[d]] \in Nat /\ id[at[d]] # seq + 1
    BY <1>o, <1>t DEF Owned, Types, TypeOK
  <2>3. Owned'
    BY <1>o, <1>t, <2>1, <2>2 DEF Owned, Types, TypeOK
  <2>4. \A d \in Caller : Attentive(d) => Attentive(d)' /\ at[d] # None
    BY <1>u, <2>1 DEF Attentive
  <2>5. hm # None => id[hm] \notin inbox'
    BY <1>o, <2>1, <2>2, <2>4 DEF Awaited
  <2>6. Awaited'
    BY <1>o, <2>1, <2>2, <2>4, <2>5 DEF Awaited, Attentive
  <2>7. Own'
    BY <1>o, <2>1 DEF Own
  <2> QED BY <1>t, <2>3, <2>6, <2>7 DEF IInv
<1>10. ASSUME NEW i \in 1..MaxId, NEW e \in BOOLEAN, OnMsg(i, e) PROVE IInv'
  <2>1. /\ worker = "up" /\ i \in inbox /\ inbox' = inbox \ {i} /\ hm = None
        /\ UNCHANGED <<seq, id, inWait, data, pc, at, result, worker>>
    BY <1>10 DEF OnMsg
  <2>2. Owned' /\ Own'
    BY <1>o, <2>1 DEF Owned, Own
  <2>3. \A d \in Caller : Attentive(d)' <=> Attentive(d)
    BY <2>1 DEF Attentive
  <2>4. CASE UNCHANGED <<hm, answer>>
    BY <1>o, <1>t, <2>1, <2>2, <2>3, <2>4 DEF IInv, Awaited
  <2>5. ASSUME NEW a \in Listed, id[a] = i, hm' = a, answer' = Answer(i, e) PROVE IInv'
    <3>1. a \in Addr /\ a # None /\ id[a] # 0
      BY <2>5 DEF Listed
    <3>2. PICK d \in Caller : at[d] = a
      BY <1>o, <3>1 DEF Owned
    <3>3. Attentive(d)
      BY <1>o, <2>1, <2>5, <3>1, <3>2 DEF Awaited
    <3>4. answer'.id = i
      BY <2>5 DEF Answer
    <3>5. /\ hm' = a /\ worker' = "up" /\ id'[a] = i /\ i \notin inbox'
          /\ at'[d] = a /\ Attentive(d)'
      BY <2>1, <2>3, <2>5, <3>2, <3>3
    <3>6. \A c \in Caller :
            /\ at'[c] # None /\ id'[at'[c]] \in inbox' => Attentive(c)'
            /\ pc'[c] \in {"enqueue", "transmit"} => ~inWait'[at'[c]] /\ data'[at'[c]] = None
            /\ Attentive(c)' => data'[at'[c]] = None
      BY <1>o, <2>1, <2>3 DEF Awaited
    <3>7. Awaited'
      BY <3>4, <3>5, <3>6 DEF Awaited
    <3> QED BY <1>t, <2>2, <3>7 DEF IInv
  <2> QED BY <1>10, <2>4, <2>5 DEF OnMsg
<1>11. ASSUME Complete PROVE IInv'
  <2>1. /\ hm # None /\ hm' = None
        /\ data' = [data EXCEPT ![hm] = answer] /\ inWait' = [inWait EXCEPT ![hm] = TRUE]
        /\ pc' = [c \in Caller |-> IF at[c] = hm /\ pc[c] = "waiting" THEN "woken" ELSE pc[c]]
        /\ UNCHANGED <<seq, id, at, result, inbox, worker>>
    BY <1>11 DEF Complete
  <2>2. hm \in Addr /\ data'[hm] = answer /\ inWait'[hm] /\ \A a \in Addr : a # hm =>
          data'[a] = data[a] /\ inWait'[a] = inWait[a]
    BY <1>t, <2>1 DEF Types, TypeOK
  <2>3. PICK c \in Caller : at[c] = hm /\ Attentive(c)
    BY <1>o, <2>1 DEF Awaited
  <2>4. id[hm] = answer.id /\ id[hm] \notin inbox
    BY <1>o, <2>1 DEF Awaited
  <2>5. ASSUME NEW d \in Caller, d # c
        PROVE  /\ pc'[d] = pc[d] /\ at[d] # hm
               /\ at[d] # None => data'[at[d]] = data[at[d]] /\ inWait'[at[d]] = inWait[at[d]]
    BY <1>t, <2>1, <2>2, <2>3, <2>5 DEF Types, TypeOK
  <2>6. pc'[c] \in {"woken", "sent"}
    BY <2>1, <2>3 DEF Attentive
  <2>7. Owned' /\ ~Attentive(c)'
    <3>1. inWait'[at'[c]]
      BY <2>1, <2>2, <2>3
    <3> QED BY <1>o, <2>1, <2>6, <3>1 DEF Owned, Attentive
  <2>8. \A d \in Caller : pc[d] # "idle" => at[d] # None
    BY <1>u
  <2>9. Awaited'
    <3>1. ASSUME NEW d \in Caller
          PROVE  /\ at[d] # None /\ id[at[d]] \in inbox => Attentive(d)'
                 /\ pc'[d] \in {"enqueue", "transmit"} => ~inWait'[at[d]] /\ data'[at[d]] = None
                 /\ Attentive(d)' => data'[at[d]] = None
      <4>1. CASE d = c
        BY <2>3, <2>4, <2>6, <2>7, <4>1
      <4>2. CASE d # c
        BY <1>o, <2>1, <2>5, <2>8, <4>2 DEF Awaited, Attentive
      <4> QED BY <4>1, <4>2
    <3> QED BY <2>1, <3>1 DEF Awaited
  <2>10. Own'
    <3>1. ASSUME NEW d \in Caller
          PROVE  /\ at[d] # None /\ data'[at[d]] # None => data'[at[d]].id = id[at[d]]
                 /\ pc'[d] \in {"unlink", "free"} => result[d].id = id[at[d]]
                 /\ result[d].data # None => result[d].data.id = result[d].id
      <4>1. CASE d = c
        BY <1>o, <2>2, <2>3, <2>4, <2>6, <4>1 DEF Own
      <4>2. CASE d # c
        BY <1>o, <2>5, <4>2 DEF Own
      <4> QED BY <4>1, <4>2
    <3> QED BY <2>1, <3>1 DEF Own
  <2> QED BY <1>t, <2>7, <2>9, <2>10 DEF IInv
<1>12. ASSUME OnClosed PROVE IInv'
  <2>1. /\ inbox' = {} /\ hm = None
        /\ pc' = [c \in Caller |-> IF at[c] \in Listed /\ pc[c] = "waiting" THEN "woken" ELSE pc[c]]
        /\ UNCHANGED <<seq, id, at, data, inWait, result, hm, answer>>
    BY <1>12 DEF OnClosed
  <2>2. Owned'
    BY <1>o, <2>1 DEF Owned
  <2>3. \A d \in Caller : pc'[d] = pc[d] \/ pc'[d] = "woken"
    BY <2>1
  <2>4. Awaited'
    BY <1>o, <2>1, <2>3 DEF Awaited, Attentive
  <2>5. Own'
    BY <1>o, <2>1, <2>3 DEF Own
  <2> QED BY <1>t, <2>2, <2>4, <2>5 DEF IInv
<1>13. ASSUME AdapterGone PROVE IInv'
  <2>1. /\ worker # "up"
        /\ UNCHANGED <<seq, id, at, data, inWait, pc, result, inbox, hm, answer>>
    BY <1>13 DEF AdapterGone, mem
  <2> QED BY <1>t, <1>o, <2>1 DEF IInv, Owned, Awaited, Attentive, Own
<1>14. ASSUME UNCHANGED vars PROVE IInv'
  BY <1>14, <1>t, <1>o DEF vars, IInv, Owned, Awaited, Attentive, Own
<1>15. ASSUME NEW c \in Caller, WaitEnds(c) PROVE IInv'
  BY <1>15 DEF WaitEnds
<1> QED
  BY <1>1, <1>2, <1>3, <1>4, <1>5, <1>6, <1>7, <1>8, <1>9, <1>10, <1>11, <1>12, <1>13, <1>14, <1>15
  DEF Next, CallStep

(* What the poller completes after it has released _mtx is the message it     *)
(* took from the list: as long as threads wait for their answers, none of     *)
(* them destroys it meanwhile (_on_msg).                                      *)
THEOREM HandlersAlive == ASSUME ~Timeouts PROVE Spec => []HandlerAlive
<1>1. IInv => HandlerAlive
  BY DEF IInv, Awaited, HandlerAlive
<1>2. IInv /\ [Next]_vars => IInv'
  BY NextIInv
<1> QED BY <1>1, <1>2, InitIInv, PTL DEF Spec

(* A thread that waits for its answer gets the answer to its own command      *)
(* (wrc_send_and_wait, _on_msg).                                              *)
THEOREM AnswersAreOwn == ASSUME ~Timeouts PROVE Spec => []OwnAnswer
<1>1. IInv => OwnAnswer
  BY DEF IInv, Own, OwnAnswer
<1>2. IInv /\ [Next]_vars => IInv'
  BY NextIInv
<1> QED BY <1>1, <1>2, InitIInv, PTL DEF Spec

(* No thread sleeps on a message that has been answered (in_wait of           *)
(* wrc_send_and_wait and _send_and_wait_handler).                             *)
THEOREM NoWakeupLost == ASSUME ~Timeouts PROVE Spec => []NoLostWakeup
<1>1. IInv => NoLostWakeup
  BY DEF IInv, Awaited, NoLostWakeup, Attentive
<1>2. IInv /\ [Next]_vars => IInv'
  BY NextIInv
<1> QED BY <1>1, <1>2, InitIInv, PTL DEF Spec
=============================================================================
