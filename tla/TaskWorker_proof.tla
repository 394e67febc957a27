-------------------------- MODULE TaskWorker_proof --------------------------
(***************************************************************************)
(* For any number of tasks, failures, crashes and delays: every step of    *)
(* the worker is a step of the queue of TaskQueue, or none of its steps.   *)
(***************************************************************************)
EXTENDS TaskWorker, SequenceTheorems, WellFoundedInduction, TLAPS

Status == Outcome \union {"waits"}

Types ==
  /\ status \in Seq(Status) /\ Len(status) <= MaxTask
  /\ saved \in Seq(Status) /\ Len(saved) <= MaxTask
  /\ worker \in [pc : {"idle", "scan", "take", "run", "save", "down"}, pending : Seq(Nat),
                 id : Nat, outcome : Status]
  /\ skipped \subseteq Nat

\* What waits behind a settled task was skipped.
Gapless(s) ==
  \A i, j \in DOMAIN s : i < j /\ s[j] # "waits" /\ s[i] = "waits" => i \in skipped

\* The list of the worker holds tasks that wait, the oldest one last, and all of
\* them up to the newest that it holds.
List ==
  worker.pc \in {"take", "run", "save"} =>
    LET P == worker.pending IN
    /\ \A k \in 1..Len(P) : P[k] \in DOMAIN status /\ status[P[k]] = "waits"
    /\ \A k, l \in 1..Len(P) : k < l => P[l] < P[k]
    /\ \A i \in DOMAIN status : status[i] = "waits" /\ i \notin skipped =>
         \/ \E k \in 1..Len(P) : P[k] = i
         \/ \A k \in 1..Len(P) : P[k] < i
         \/ worker.pc # "take" /\ i = worker.id

\* It is the turn of the task in hand.
InHand ==
  worker.pc \in {"run", "save"} =>
    /\ worker.id \in DOMAIN status /\ status[worker.id] = "waits"
    /\ \A k \in 1..Len(worker.pending) : worker.id < worker.pending[k]
    /\ \A i \in DOMAIN status : i < worker.id /\ status[i] = "waits" => i \in skipped
    /\ worker.pc = "save" => worker.outcome \in Outcome

IInv == Types /\ Gapless(status) /\ Gapless(saved) /\ List /\ InHand
-----------------------------------------------------------------------------
(* Sequences.                                                              *)

\* There is a newest one among some of the tasks.
LEMMA Newest ==
  ASSUME NEW n \in Nat, NEW S \in SUBSET (1..n), S # {}
  PROVE  \E i \in S : \A j \in S : j <= i
<1> DEFINE D == {n - i : i \in S}
<1>1. D \subseteq Nat /\ D # {}
  <2>1. \A i \in S : n - i \in Nat
    OBVIOUS
  <2> QED BY <2>1
<1>2. PICK d \in D : \A e \in D : ~(<<e, d>> \in OpToRel(<, Nat))
  BY <1>1, NatLessThanWellFounded, WFMin
<1>3. \A e \in D : ~(e < d)
  BY <1>1, <1>2 DEF OpToRel
<1>4. PICK i \in S : d = n - i
  OBVIOUS
<1>5. \A j \in S : ~(n - j < n - i)
  BY <1>3, <1>4
<1> QED BY <1>5

\* The tasks behind the newest settled one wait, and all others before it do not
\* or were skipped.
LEMMA VisitedTasks ==
  ASSUME Types, Gapless(status)
  PROVE  /\ Visited \in Seq(Nat)
         /\ \A k \in 1..Len(Visited) : Visited[k] \in DOMAIN status /\ Waits(Visited[k])
         /\ \A k, l \in 1..Len(Visited) : k < l => Visited[l] < Visited[k]
         /\ \A i \in DOMAIN status : Waits(i) /\ i \notin skipped =>
              \E k \in 1..Len(Visited) : Visited[k] = i
<1> DEFINE n == Len(status)
           completed == {i \in DOMAIN status : ~Waits(i)}
           last == IF completed = {} THEN 0
                   ELSE CHOOSE i \in completed : \A j \in completed : j <= i
<1>1. n \in Nat /\ DOMAIN status = 1..n
  BY LenProperties DEF Types
<1>2. /\ last \in 0..n
      /\ \A j \in completed : j <= last
      /\ last # 0 => last \in completed
  <2>1. CASE completed = {}
    BY <1>1, <2>1
  <2>2. CASE completed # {}
    <3>1. \E i \in completed : \A j \in completed : j <= i
      BY <1>1, <2>2, Newest
    <3>2. last \in completed /\ \A j \in completed : j <= last
      BY <2>2, <3>1
    <3> HIDE DEF last
    <3> QED BY <1>1, <3>2
  <2> QED BY <2>1, <2>2
<1>3. Pending = [i \in 1..(n - last) |-> last + i]
  BY DEF Pending
<1> HIDE DEF last, n
<1>4. Pending \in Seq(Nat) /\ Len(Pending) = n - last /\ n - last \in Nat
  <2>1. n - last \in Nat /\ Pending \in [1..(n - last) -> Nat]
    BY <1>1, <1>2, <1>3
  <2>2. Pending \in Seq(Nat)
    BY <2>1, SeqDef
  <2> QED BY <1>3, <2>1, <2>2, LenProperties
<1>5. Visited = [i \in 1..(n - last) |-> last + ((n - last) - i) + 1]
  <2>1. Visited = [i \in 1..(n - last) |-> Pending[((n - last) - i) + 1]]
    BY <1>4 DEF Visited, Reverse
  <2>2. \A i \in 1..(n - last) : Pending[((n - last) - i) + 1] = last + ((n - last) - i) + 1
    <3>1. ASSUME NEW i \in 1..(n - last)
          PROVE  Pending[((n - last) - i) + 1] = last + ((n - last) - i) + 1
      <4>1. ((n - last) - i) + 1 \in 1..(n - last)
        BY <1>4
      <4>2. Pending[((n - last) - i) + 1] = last + (((n - last) - i) + 1)
        BY <1>3, <4>1
      <4>3. last \in Nat /\ n - last \in Nat
        BY <1>2, <1>4
      <4> QED BY <4>2, <4>3
    <3> QED BY <3>1
  <2> QED BY <2>1, <2>2
<1>6. Visited \in Seq(Nat) /\ Len(Visited) = n - last
  <2>1. Visited \in [1..(n - last) -> Nat]
    BY <1>1, <1>2, <1>4, <1>5
  <2>2. Visited \in Seq(Nat)
    BY <1>4, <2>1, SeqDef
  <2> QED BY <1>4, <1>5, <2>2, LenProperties
<1>7. \A k \in 1..(n - last) : Visited[k] = n - k + 1
  BY <1>1, <1>2, <1>4, <1>5
<1>8. \A k \in 1..(n - last) : Visited[k] \in DOMAIN status /\ Waits(Visited[k])
  BY <1>1, <1>2, <1>4, <1>7
<1>9. \A k, l \in 1..(n - last) : k < l => Visited[l] < Visited[k]
  BY <1>1, <1>2, <1>4, <1>7
<1>10. ASSUME NEW i \in DOMAIN status, Waits(i), i \notin skipped
       PROVE  \E k \in 1..(n - last) : Visited[k] = i
  <2>1. last < i
    <3>1. last = 0 \/ (~Waits(last) /\ last \in DOMAIN status)
      BY <1>2
    <3>2. ~(i < last)
      BY <1>1, <1>2, <1>10, <3>1 DEF Gapless, Waits
    <3> QED BY <1>1, <1>2, <1>10, <3>1, <3>2
  <2>2. n - i + 1 \in 1..(n - last) /\ n - (n - i + 1) + 1 = i
    BY <1>1, <1>2, <2>1
  <2> QED BY <1>7, <2>2
<1> QED BY <1>6, <1>8, <1>9, <1>10
-----------------------------------------------------------------------------
(* The invariant.                                                          *)

LEMMA InitIInv == ASSUME TaskBounds, Init PROVE IInv
<1>1. <<>> \in Seq(Status) /\ Len(<<>>) = 0 /\ <<>> \in Seq(Nat)
  BY EmptySeq
<1>2. Idle \in [pc : {"idle", "scan", "take", "run", "save", "down"}, pending : Seq(Nat),
                 id : Nat, outcome : Status] /\ Idle.pc = "idle"
  BY <1>1 DEF Idle, Status
<1>3. DOMAIN <<>> = {}
  OBVIOUS
<1> QED BY <1>1, <1>2, <1>3 DEF TaskBounds, Init, IInv, Types, Gapless, List, InHand

LEMMA NextIInv == ASSUME TaskBounds, IInv, [Next]_vars PROVE IInv'
<1> DEFINE W == [pc : {"idle", "scan", "take", "run", "save", "down"}, pending : Seq(Nat),
                 id : Nat, outcome : Status]
<1>t. /\ status \in Seq(Status) /\ saved \in Seq(Status) /\ worker \in W
      /\ worker.pending \in Seq(Nat)
      /\ Len(status) \in Nat /\ DOMAIN status = 1..Len(status)
      /\ Len(saved) \in Nat /\ DOMAIN saved = 1..Len(saved)
      /\ Idle \in W /\ Idle.pc = "idle" /\ MaxTask \in Nat
      /\ Len(worker.pending) \in Nat
  <2>1. <<>> \in Seq(Nat)
    BY EmptySeq
  <2> QED BY <2>1, LenProperties DEF IInv, Types, Idle, Status, TaskBounds
\* The worker stands still or has nothing in hand.
<1>q. ASSUME worker' \in W, worker'.pc \in {"idle", "scan", "down"}, UNCHANGED <<status, saved, skipped>>
      PROVE  IInv'
  BY <1>q DEF IInv, Types, Gapless, List, InHand
<1>1. ASSUME Submit PROVE IInv'
  <2> DEFINE n == Len(status)
  <2>1. /\ status' = Append(status, "waits") /\ n < MaxTask
        /\ UNCHANGED <<saved, worker, skipped>>
    BY <1>1 DEF Submit
  <2>2. /\ status' \in Seq(Status) /\ Len(status') = n + 1
        /\ DOMAIN status' = 1..(n + 1)
        /\ \A i \in 1..n : status'[i] = status[i]
        /\ status'[n + 1] = "waits"
    BY <1>t, <2>1, AppendProperties, LenProperties DEF Status
  <2>3. Types'
    BY <1>t, <2>1, <2>2 DEF IInv, Types
  <2>4. Gapless(status)' /\ Gapless(saved)'
    BY <1>t, <2>1, <2>2 DEF IInv, Gapless
  <2>5. List'
    <3> SUFFICES ASSUME worker.pc \in {"take", "run", "save"} PROVE List'
      BY <2>1 DEF List
    <3> DEFINE P == worker.pending
    <3>1. /\ \A k \in 1..Len(P) : P[k] \in 1..n /\ status[P[k]] = "waits"
          /\ \A k, l \in 1..Len(P) : k < l => P[l] < P[k]
          /\ \A i \in 1..n : status[i] = "waits" /\ i \notin skipped =>
               \/ \E k \in 1..Len(P) : P[k] = i
               \/ \A k \in 1..Len(P) : P[k] < i
               \/ worker.pc # "take" /\ i = worker.id
      BY <1>t DEF IInv, List
    <3> HIDE DEF P, n
    <3>2. \A k \in 1..Len(P) : P[k] \in 1..(n + 1) /\ status'[P[k]] = "waits" /\ P[k] < n + 1
      BY <1>t, <2>2, <3>1 DEF n
    <3>3. \A i \in 1..(n + 1) : i \in 1..n \/ i = n + 1
      BY <1>t DEF n
    <3> QED BY <2>1, <2>2, <3>1, <3>2, <3>3 DEF List, P
  <2>6. InHand'
    BY <1>t, <2>1, <2>2 DEF IInv, InHand
  <2> QED BY <2>3, <2>4, <2>5, <2>6 DEF IInv
<1>2. ASSUME Timer \/ Shutdown \/ UNCHANGED vars PROVE IInv'
  BY <1>2 DEF Timer, Shutdown, vars, IInv, Types, Gapless, List, InHand
<1>3. ASSUME Start PROVE IInv'
  <2>1. worker' \in W /\ worker'.pc = "scan"
    BY <1>3, <1>t DEF Start
  <2> QED BY <1>3, <1>q, <2>1 DEF Start
<1>4. ASSUME Scan PROVE IInv'
  <2>1. CASE Visited = <<>>
    BY <1>4, <1>t, <1>q, <2>1 DEF Scan
  <2>2. CASE Visited # <<>>
    <3> DEFINE v == [worker EXCEPT !.pc = "take", !.pending = Visited]
    <3>1. worker' = v /\ UNCHANGED <<status, saved, skipped>>
      BY <1>4, <2>2 DEF Scan
    <3>2. Visited \in Seq(Nat)
      BY VisitedTasks DEF IInv
    <3>3. v \in W /\ v.pc = "take" /\ v.pending = Visited
      BY <1>t, <3>2
    <3> HIDE DEF v
    <3>4. Types' /\ Gapless(status)' /\ Gapless(saved)' /\ InHand'
      BY <3>1, <3>3 DEF IInv, Types, Gapless, InHand
    <3>5. List'
      BY <3>1, <3>3, VisitedTasks DEF IInv, List, Waits
    <3> QED BY <3>4, <3>5 DEF IInv
  <2> QED BY <2>1, <2>2
<1>5. ASSUME Take PROVE IInv'
  <2>1. CASE worker.pending = <<>>
    <3>1. worker' \in W /\ worker'.pc = "scan"
      BY <1>5, <1>t, <2>1 DEF Take
    <3> QED BY <1>5, <1>q, <3>1 DEF Take
  <2>2. CASE worker.pending # <<>> /\ shutdown
    BY <1>5, <1>t, <1>q, <2>2 DEF Take
  <2>3. CASE worker.pending # <<>> /\ ~shutdown
    <3> DEFINE P == worker.pending
               n == Len(P)
               v == [worker EXCEPT !.pc = "run", !.id = Last(P), !.pending = Front(P)]
    <3>1. worker' = v /\ worker.pc = "take" /\ UNCHANGED <<status, saved, skipped>>
      BY <1>5, <2>3 DEF Take
    <3>2. n \in Nat \ {0} /\ Last(P) = P[n] /\ P[n] \in Nat
      BY <1>t, <2>3, EmptySeq, ElementOfSeq DEF Last
    <3>3. /\ Front(P) \in Seq(Nat) /\ Len(Front(P)) = n - 1
          /\ \A k \in 1..(n - 1) : Front(P)[k] = P[k]
      <4>1. \A k \in 1..(n - 1) : P[k] \in Nat
        BY <1>t, <3>2, ElementOfSeq
      <4>2. Front(P) = SubSeq(P, 1, n - 1)
        BY DEF Front
      <4>3. /\ SubSeq(P, 1, n - 1) \in Seq(Nat)
            /\ Len(SubSeq(P, 1, n - 1)) = IF 1 <= n - 1 THEN (n - 1) - 1 + 1 ELSE 0
            /\ \A k \in 1..((n - 1) - 1 + 1) : SubSeq(P, 1, n - 1)[k] = P[1 + k - 1]
        <5> HIDE DEF n, P
        <5> QED BY <3>2, <4>1, SubSeqProperties
      <4> HIDE DEF n, P
      <4> QED BY <3>2, <4>2, <4>3
    <3>4. v \in W /\ v.pc = "run" /\ v.pending = Front(P) /\ v.id = P[n]
      BY <1>t, <3>2, <3>3
    <3>5. /\ \A k \in 1..n : P[k] \in DOMAIN status /\ status[P[k]] = "waits"
          /\ \A k, l \in 1..n : k < l => P[l] < P[k]
          /\ \A i \in DOMAIN status : status[i] = "waits" /\ i \notin skipped =>
               (\E k \in 1..n : P[k] = i) \/ (\A k \in 1..n : P[k] < i)
      BY <3>1 DEF IInv, List
    <3> HIDE DEF v, P, n
    <3>6. Types' /\ Gapless(status)' /\ Gapless(saved)'
      BY <3>1, <3>4 DEF IInv, Types, Gapless
    <3>7. List'
      <4>0. /\ worker'.pc = "run" /\ worker'.id = P[n] /\ Len(worker'.pending) = n - 1
            /\ \A k \in 1..(n - 1) : worker'.pending[k] = P[k]
            /\ status' = status /\ skipped' = skipped
        BY <3>1, <3>3, <3>4
      <4> SUFFICES /\ \A k \in 1..(n - 1) : P[k] \in DOMAIN status /\ status[P[k]] = "waits"
                   /\ \A k, l \in 1..(n - 1) : k < l => P[l] < P[k]
                   /\ \A i \in DOMAIN status : status[i] = "waits" /\ i \notin skipped =>
                        \/ \E k \in 1..(n - 1) : P[k] = i
                        \/ \A k \in 1..(n - 1) : P[k] < i
                        \/ i = P[n]
        BY <4>0 DEF List
      <4>1. \A k \in 1..n : k \in 1..(n - 1) \/ k = n
        BY <3>2
      <4>2. \A k \in 1..(n - 1) : k \in 1..n
        BY <3>2
      <4> QED BY <3>5, <4>1, <4>2
    <3>8. InHand'
      <4>1. n \in 1..n /\ \A k \in 1..(n - 1) : k \in 1..n /\ k < n
        BY <3>2
      <4>2. P[n] \in DOMAIN status /\ status[P[n]] = "waits"
        BY <3>5, <4>1
      <4>3. \A k \in 1..(n - 1) : P[n] < P[k]
        BY <3>5, <4>1
      <4>4. \A i \in DOMAIN status : i < P[n] /\ status[i] = "waits" => i \in skipped
        <5> SUFFICES ASSUME NEW i \in DOMAIN status, i < P[n], status[i] = "waits", i \notin skipped
                     PROVE  FALSE
          OBVIOUS
        <5>1. CASE \E k \in 1..n : P[k] = i
          <6>1. PICK k \in 1..n : P[k] = i
            BY <5>1
          <6>2. k = n \/ k < n
            BY <3>2
          <6> QED BY <1>t, <3>2, <3>5, <4>1, <6>1, <6>2
        <5>2. CASE \A k \in 1..n : P[k] < i
          BY <1>t, <3>2, <4>1, <5>2
        <5> QED BY <3>5, <5>1, <5>2
      <4> QED BY <3>1, <3>2, <3>3, <3>4, <4>2, <4>3, <4>4 DEF InHand
    <3> QED BY <3>6, <3>7, <3>8 DEF IInv
  <2> QED BY <2>1, <2>2, <2>3
<1>6. ASSUME NEW o \in Outcome, Handle(o) PROVE IInv'
  <2> DEFINE v == [worker EXCEPT !.pc = "save", !.outcome = o]
  <2>1. worker' = v /\ worker.pc = "run" /\ UNCHANGED <<status, saved, skipped>>
    BY <1>6 DEF Handle
  <2>2. v \in W /\ v.pc = "save" /\ v.pending = worker.pending /\ v.id = worker.id /\ v.outcome = o
    BY <1>t DEF Status
  <2> HIDE DEF v
  <2> QED BY <2>1, <2>2 DEF IInv, Types, Gapless, List, InHand
<1>7. ASSUME Postpone PROVE IInv'
  BY <1>7, <1>t, <1>q DEF Postpone
<1>8. ASSUME Save PROVE IInv'
  <2> DEFINE v == [worker EXCEPT !.pc = "take"]
             d == worker.id
  <2>1. /\ worker' = v /\ worker.pc = "save" /\ UNCHANGED <<saved, skipped>>
        /\ status' = [status EXCEPT ![d] = worker.outcome]
    BY <1>8 DEF Save
  <2>2. v \in W /\ v.pc = "take" /\ v.pending = worker.pending
    BY <1>t
  <2>3. /\ d \in DOMAIN status /\ status[d] = "waits"
        /\ \A k \in 1..Len(worker.pending) : d < worker.pending[k]
        /\ \A i \in DOMAIN status : i < d /\ status[i] = "waits" => i \in skipped
        /\ worker.outcome \in Outcome
    BY <2>1 DEF IInv, InHand
  <2>4. /\ status' \in Seq(Status) /\ Len(status') = Len(status) /\ DOMAIN status' = DOMAIN status
        /\ \A i \in DOMAIN status : status'[i] = IF i = d THEN worker.outcome ELSE status[i]
    BY <1>t, <2>1, <2>3, ExceptSeq DEF Status
  <2>5. worker.outcome # "waits"
    BY <2>3 DEF Outcome
  <2> HIDE DEF v, d
  <2>6. Types'
    BY <2>1, <2>2, <2>4 DEF IInv, Types
  <2>7. Gapless(status)' /\ Gapless(saved)'
    BY <2>1, <2>3, <2>4, <2>5 DEF IInv, Gapless
  <2>8. List'
    <3>1. /\ \A k \in 1..Len(worker.pending) :
               worker.pending[k] \in DOMAIN status /\ status[worker.pending[k]] = "waits"
          /\ \A k, l \in 1..Len(worker.pending) : k < l => worker.pending[l] < worker.pending[k]
          /\ \A i \in DOMAIN status : status[i] = "waits" /\ i \notin skipped =>
               \/ \E k \in 1..Len(worker.pending) : worker.pending[k] = i
               \/ \A k \in 1..Len(worker.pending) : worker.pending[k] < i
               \/ i = d
      BY <2>1 DEF IInv, List, d
    <3>2. \A k \in 1..Len(worker.pending) : worker.pending[k] # d
      <4>1. d \in Nat
        BY <1>t DEF d
      <4> QED BY <2>3, <4>1
    <3> DEFINE P == worker.pending
    <3>3. \A k \in 1..Len(P) : P[k] \in DOMAIN status' /\ status'[P[k]] = "waits"
      BY <2>4, <3>1, <3>2
    <3>4. \A i \in DOMAIN status' : status'[i] = "waits" /\ i \notin skipped =>
               \/ \E k \in 1..Len(P) : P[k] = i
               \/ \A k \in 1..Len(P) : P[k] < i
      BY <2>4, <2>5, <3>1
    <3> QED BY <2>1, <2>2, <3>1, <3>3, <3>4 DEF List
  <2>9. InHand'
    BY <2>1, <2>2 DEF InHand
  <2> QED BY <2>6, <2>7, <2>8, <2>9 DEF IInv
<1>9. ASSUME SaveFails PROVE IInv'
  <2> DEFINE v == [worker EXCEPT !.pc = "take"]
  <2>1. /\ worker' = v /\ worker.pc = "save" /\ UNCHANGED <<saved, status>>
        /\ skipped' = skipped \union {worker.id}
    BY <1>9 DEF SaveFails
  <2>2. v \in W /\ v.pc = "take" /\ v.pending = worker.pending /\ worker.id \in Nat
    BY <1>t
  <2> HIDE DEF v
  <2> QED BY <2>1, <2>2 DEF IInv, Types, Gapless, List, InHand
<1>10. ASSUME Savepoint PROVE IInv'
  BY <1>10 DEF Savepoint, IInv, Types, Gapless, List, InHand
<1>11. ASSUME Crash PROVE IInv'
  <2>1. worker' \in W /\ worker'.pc = "down"
    BY <1>11, <1>t DEF Crash
  <2> QED BY <1>11, <2>1 DEF Crash, IInv, Types, Gapless, List, InHand
<1>12. ASSUME Exit PROVE IInv'
  <2>1. worker' \in W /\ worker'.pc = "down"
    BY <1>12, <1>t DEF Exit
  <2> QED BY <1>12, <2>1 DEF Exit, IInv, Types, Gapless, List, InHand
<1>13. ASSUME Restart PROVE IInv'
  BY <1>13, <1>t, <1>q DEF Restart
<1> QED
  BY <1>1, <1>2, <1>3, <1>4, <1>5, <1>6, <1>7, <1>8, <1>9, <1>10, <1>11, <1>12, <1>13
  DEF Next, Work-----------------------------------------------------------------------------
(* The worker is a queue.                                                  *)

LEMMA QueueInit == Init => Queue!Init
<1>1. Len(<<>>) = 0 /\ DOMAIN <<>> = {}
  BY EmptySeq
<1>2. WaitingIn(<<>>) = {}
  BY <1>1 DEF WaitingIn
<1> QED BY <1>1, <1>2 DEF Init, Queue!Init

LEMMA QueueNext == ASSUME TaskBounds, IInv, [Next]_vars PROVE [Queue!Next]_(Queue!queue)
<1>t. /\ status \in Seq(Status) /\ saved \in Seq(Status)
      /\ Len(status) \in Nat /\ DOMAIN status = 1..Len(status) /\ Len(status) <= MaxTask
      /\ MaxTask \in Nat
  BY LenProperties DEF IInv, Types, TaskBounds
\* Steps that the queue does not see.
<1>s. ASSUME UNCHANGED <<status, saved, skipped>> PROVE UNCHANGED Queue!queue
  BY <1>s DEF Queue!queue, WaitingIn
\* It is the turn of the task in hand.
<1>h. ASSUME worker.pc = "save"
      PROVE  worker.id \in 1..MaxTask /\ status[worker.id] = "waits" /\ Queue!Turn(worker.id)
  <2>1. /\ worker.id \in DOMAIN status /\ status[worker.id] = "waits"
        /\ \A i \in DOMAIN status : i < worker.id /\ status[i] = "waits" => i \in skipped
    BY <1>h DEF IInv, InHand
  <2> QED BY <1>t, <2>1 DEF Queue!Turn, WaitingIn
<1>1. ASSUME Submit PROVE Queue!Submit
  <2>1. /\ status' = Append(status, "waits") /\ Len(status) < MaxTask
        /\ UNCHANGED <<saved, skipped>>
    BY <1>1 DEF Submit
  <2>2. /\ Len(status') = Len(status) + 1
        /\ DOMAIN status' = 1..(Len(status) + 1)
        /\ \A i \in 1..Len(status) : status'[i] = status[i]
        /\ status'[Len(status) + 1] = "waits"
    BY <1>t, <2>1, AppendProperties, LenProperties DEF Status
  <2>3. WaitingIn(status') = WaitingIn(status) \union {Len(status) + 1}
    <3>1. \A i : i \in 1..(Len(status) + 1) <=> i \in 1..Len(status) \/ i = Len(status) + 1
      BY <1>t
    <3> QED BY <1>t, <2>2, <3>1 DEF WaitingIn
  <2> QED BY <2>1, <2>2, <2>3 DEF Queue!Submit
<1>2. ASSUME Save PROVE Queue!Settle(worker.id)
  <2>1. /\ worker.pc = "save" /\ status' = [status EXCEPT ![worker.id] = worker.outcome]
        /\ UNCHANGED <<saved, skipped>>
    BY <1>2 DEF Save
  <2>2. worker.outcome \in Status /\ worker.outcome # "waits"
    BY <2>1 DEF IInv, InHand, Outcome, Status
  <2>3. /\ Len(status') = Len(status) /\ DOMAIN status' = DOMAIN status
        /\ \A i \in DOMAIN status :
             status'[i] = IF i = worker.id THEN worker.outcome ELSE status[i]
    <3>1. worker.id \in 1..Len(status)
      BY <1>t, <2>1 DEF IInv, InHand
    <3> QED BY <1>t, <2>1, <2>2, <3>1, ExceptSeq
  <2>4. WaitingIn(status') = WaitingIn(status) \ {worker.id}
    BY <2>2, <2>3 DEF WaitingIn
  <2> QED BY <1>h, <2>1, <2>3, <2>4 DEF Queue!Settle
<1>3. ASSUME SaveFails PROVE Queue!Skip(worker.id)
  BY <1>3, <1>h DEF SaveFails, Queue!Skip
<1>4. ASSUME Savepoint \/ Exit PROVE Queue!Savepoint
  BY <1>4 DEF Savepoint, Exit, Queue!Savepoint
<1>5. ASSUME Crash PROVE Queue!Crash
  BY <1>5 DEF Crash, Queue!Crash
<1>6. ASSUME \/ Start \/ Scan \/ Take \/ Postpone \/ Timer \/ Shutdown \/ Restart
             \/ \E o \in Outcome : Handle(o)
             \/ UNCHANGED vars
      PROVE  UNCHANGED Queue!queue
  BY <1>6, <1>s DEF Start, Scan, Take, Postpone, Timer, Shutdown, Restart, Handle, vars
<1>7. ASSUME worker.pc = "save" PROVE worker.id \in 1..MaxTask
  BY <1>7, <1>h
<1> QED
  BY <1>1, <1>2, <1>3, <1>4, <1>5, <1>6, <1>7 DEF Next, Work, Queue!Next, Save, SaveFails

(* Whatever fails or crashes, the worker does nothing that a queue does not *)
(* do: tasks are settled in the order of their submission, once, and none   *)
(* is passed over whose outcome could be stored.                            *)
THEOREM WorkerIsQueue ==
  ASSUME TaskBounds PROVE Spec => Queue!Init /\ [][Queue!Next]_(Queue!queue)
<1>1. Init => IInv
  BY InitIInv
<1>2. IInv /\ [Next]_vars => IInv'
  BY NextIInv
<1>3. IInv /\ [Next]_vars => [Queue!Next]_(Queue!queue)
  BY QueueNext
<1> QED BY <1>1, <1>2, <1>3, QueueInit, PTL DEF Spec
=============================================================================
