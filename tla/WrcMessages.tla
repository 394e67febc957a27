---------------------------- MODULE WrcMessages ----------------------------
(***************************************************************************)
(* Commands to a media worker and their answers (wrc.c).  A request thread *)
(* allocates a message, links it into the list of messages that wait for   *)
(* an answer (_reply, _reply_tail), hands it to the adapter and sleeps on  *)
(* the message's condition; the poller thread unlinks the message whose id *)
(* an answer carries and wakes its sender, which unlinks the message once  *)
(* more and frees it.  Message memory is reused, so a stale pointer may    *)
(* come to name another message.                                           *)
(*                                                                         *)
(* A step is a critical section of _mtx or of a message's cond_mtx, or an  *)
(* access made under neither.                                              *)
(***************************************************************************)
EXTENDS Integers, FiniteSets

CONSTANTS
  Caller,      \* request threads
  Addr,        \* memory for messages
  None,        \* the null pointer, no answer
  MaxId,       \* bound: commands sent in a behaviour (the 32 bit seq does not wrap)
  Timeouts     \* TRUE when a wait may end before the answer

ASSUME NoneAssumption == None \notin Addr
ASSUME MaxIdAssumption == MaxId \in Nat
ASSUME TimeoutsAssumption == Timeouts \in BOOLEAN
ASSUME FiniteAssumption == IsFiniteSet(Addr) /\ IsFiniteSet(Caller)

VARIABLES
  seq,         \* the id given out last
  id,          \* id of the message at an address, 0 when the memory is free
  next,        \* next_reply
  inWait,      \* in_wait: its sender sleeps, or it has been completed before that
  rc,          \* mm.rc, the result its sender will return
  data,        \* the answer stored in the message
  head, tail,  \* _reply and _reply_tail
  pc,          \* where a caller is in wrc_send_and_wait
  at,          \* the message of a caller
  result,      \* what the last call of a caller returned
  inbox,       \* commands the worker has not answered yet
  worker,      \* "up", "closed" once _on_closed ran, "gone" without its adapter
  hm, answer   \* the message the poller has unlinked and the answer it carries

mem == <<id, next, inWait, rc, data>>
list == <<head, tail>>
vars == <<seq, id, next, inWait, rc, data, head, tail, pc, at, result, inbox,
          worker, hm, answer>>

Answer(i, e) == [id |-> i, error |-> e]
NoResult == [id |-> 0, rc |-> "none", data |-> None]
Result(i, r, d) == [id |-> i, rc |-> r, data |-> d]
-----------------------------------------------------------------------------
(* The list of messages waiting for an answer.                             *)

\* The k-th message from the head, as the loops over next_reply meet it.
Nth[k \in Nat] == IF k = 0 THEN head
                  ELSE IF Nth[k - 1] = None THEN None ELSE next[Nth[k - 1]]

Listed == {a \in Addr : \E k \in 0..Cardinality(Addr) : Nth[k] = a}

Pred(a) == {p \in Listed : next[p] = a}

\* Take a out of the list if a loop from the head finds it.
Unlink(a) ==
  IF a \notin Listed THEN UNCHANGED <<head, tail, next>>
  ELSE IF a = head
  THEN /\ head' = next[a]
       /\ tail' = IF next[a] = None THEN None ELSE tail
       /\ UNCHANGED next
  ELSE \E p \in Pred(a) :
       /\ next' = [next EXCEPT ![p] = next[a]]
       /\ tail' = IF next[a] = None THEN p ELSE tail
       /\ UNCHANGED head

Init ==
  /\ seq = 0
  /\ id = [a \in Addr |-> 0]
  /\ next = [a \in Addr |-> None]
  /\ inWait = [a \in Addr |-> FALSE]
  /\ rc = [a \in Addr |-> "ok"]
  /\ data = [a \in Addr |-> None]
  /\ head = None
  /\ tail = None
  /\ pc = [c \in Caller |-> "idle"]
  /\ at = [c \in Caller |-> None]
  /\ result = [c \in Caller |-> NoResult]
  /\ inbox = {}
  /\ worker = "up"
  /\ hm = None
  /\ answer = Answer(0, FALSE)
-----------------------------------------------------------------------------
(* A request thread in wrc_msg_create and wrc_send_and_wait.               *)

Allocate(c, a) ==
  /\ pc[c] = "idle"
  /\ seq < MaxId
  /\ id[a] = 0
  /\ seq' = seq + 1
  /\ id' = [id EXCEPT ![a] = seq']
  /\ next' = [next EXCEPT ![a] = None]
  /\ inWait' = [inWait EXCEPT ![a] = FALSE]
  /\ rc' = [rc EXCEPT ![a] = "ok"]
  /\ data' = [data EXCEPT ![a] = None]
  /\ at' = [at EXCEPT ![c] = a]
  /\ pc' = [pc EXCEPT ![c] = "enqueue"]
  /\ result' = [result EXCEPT ![c] = NoResult]
  /\ UNCHANGED <<list, inbox, worker, hm, answer>>

\* The message is linked behind _reply_tail, which stays where it is.
Enqueue(c) ==
  /\ pc[c] = "enqueue"
  /\ IF tail = None
     THEN head' = at[c] /\ tail' = at[c] /\ UNCHANGED next
     ELSE next' = [next EXCEPT ![tail] = at[c]] /\ UNCHANGED list
  /\ pc' = [pc EXCEPT ![c] = "transmit"]
  /\ UNCHANGED <<seq, id, inWait, rc, data, at, result, inbox, worker, hm, answer>>

\* wrc_adapter_send_msg: taken as long as the adapter resource exists.
Transmit(c) ==
  /\ pc[c] = "transmit"
  /\ IF worker = "gone"
     THEN pc' = [pc EXCEPT ![c] = "refused"] /\ UNCHANGED inbox
     ELSE /\ inbox' = inbox \union {id[at[c]]}
          /\ pc' = [pc EXCEPT ![c] = "sent"]
  /\ UNCHANGED <<seq, mem, list, at, result, worker, hm, answer>>

\* The adapter is gone: the sender unlinks and completes its message itself.
Refused(c) ==
  /\ pc[c] = "refused"
  /\ Unlink(at[c])
  /\ rc' = [rc EXCEPT ![at[c]] = "error"]
  /\ inWait' = [inWait EXCEPT ![at[c]] = TRUE]
  /\ result' = [result EXCEPT ![c] = Result(id[at[c]], "error", None)]
  /\ pc' = [pc EXCEPT ![c] = "free"]
  /\ UNCHANGED <<seq, id, data, at, inbox, worker, hm, answer>>

\* Mutant: the sender sleeps whether it has been answered or not.
BeginWaitAlways(c) ==
  /\ pc[c] = "sent"
  /\ inWait' = [inWait EXCEPT ![at[c]] = TRUE]
  /\ pc' = [pc EXCEPT ![c] = "waiting"]
  /\ UNCHANGED <<seq, id, next, rc, data, list, at, result, inbox, worker, hm, answer>>

\* Mutant: the sender does not sleep at all.
BeginWaitNever(c) ==
  /\ pc[c] = "sent"
  /\ pc' = [pc EXCEPT ![c] = "woken"]
  /\ inWait' = [inWait EXCEPT ![at[c]] = TRUE]
  /\ UNCHANGED <<seq, id, next, rc, data, list, at, result, inbox, worker, hm, answer>>

\* Under cond_mtx: sleep, unless the answer came first.
BeginWait(c) ==
  /\ pc[c] = "sent"
  /\ IF inWait[at[c]]
     THEN pc' = [pc EXCEPT ![c] = "woken"] /\ UNCHANGED inWait
     ELSE /\ inWait' = [inWait EXCEPT ![at[c]] = TRUE]
          /\ pc' = [pc EXCEPT ![c] = "waiting"]
  /\ UNCHANGED <<seq, id, next, rc, data, list, at, result, inbox, worker, hm, answer>>

\* Mutant: only messages still in the list time out.
WaitEndsIfListed(c) ==
  /\ Timeouts
  /\ pc[c] = "waiting"
  /\ at[c] \in Listed
  /\ result' = [result EXCEPT ![c] = Result(id[at[c]], "error", None)]
  /\ pc' = [pc EXCEPT ![c] = "unlink"]
  /\ UNCHANGED <<seq, mem, list, at, inbox, worker, hm, answer>>

\* The wait times out, or ends spuriously.  pthread_cond_timedwait returns
\* ETIMEDOUT rather than -1, which RCN may or may not take for an error.
WaitEnds(c) ==
  /\ Timeouts
  /\ pc[c] = "waiting"
  /\ \E r \in {"error", rc[at[c]]} :
       result' = [result EXCEPT ![c] = Result(id[at[c]], r, None)]
  /\ pc' = [pc EXCEPT ![c] = "unlink"]
  /\ UNCHANGED <<seq, mem, list, at, inbox, worker, hm, answer>>

Woken(c) ==
  /\ pc[c] = "woken"
  /\ result' = [result EXCEPT ![c] = Result(id[at[c]], rc[at[c]], None)]
  /\ pc' = [pc EXCEPT ![c] = "unlink"]
  /\ UNCHANGED <<seq, mem, list, at, inbox, worker, hm, answer>>

UnlinkOwn(c) ==
  /\ pc[c] = "unlink"
  /\ Unlink(at[c])
  /\ pc' = [pc EXCEPT ![c] = "free"]
  /\ UNCHANGED <<seq, id, inWait, rc, data, at, result, inbox, worker, hm, answer>>

\* The sender reads the answer out of the message and destroys it.
Free(c) ==
  /\ pc[c] = "free"
  /\ result' = [result EXCEPT ![c].data = data[at[c]]]
  /\ id' = [id EXCEPT ![at[c]] = 0]
  /\ at' = [at EXCEPT ![c] = None]
  /\ pc' = [pc EXCEPT ![c] = "idle"]
  /\ UNCHANGED <<seq, next, inWait, rc, data, list, inbox, worker, hm, answer>>

\* wrc_send of a message without handler: no one waits for the answer.
SendAsync(c) ==
  /\ pc[c] = "idle"
  /\ seq < MaxId
  /\ worker # "gone"
  /\ seq' = seq + 1
  /\ inbox' = inbox \union {seq'}
  /\ UNCHANGED <<mem, list, pc, at, result, worker, hm, answer>>
-----------------------------------------------------------------------------
(* The poller thread: _on_msg and _on_closed.                              *)

\* Mutant: answers are taken to arrive in the order of the commands.
OnMsgInOrder(i, e) ==
  /\ worker = "up"
  /\ hm = None
  /\ i \in inbox
  /\ inbox' = inbox \ {i}
  /\ IF head = None
     THEN UNCHANGED <<head, tail, next, hm, answer>>
     ELSE Unlink(head) /\ hm' = head /\ answer' = Answer(i, e)
  /\ UNCHANGED <<seq, id, inWait, rc, data, pc, at, result, worker>>

\* An answer arrives; under _mtx the message with its id is looked for.
OnMsg(i, e) ==
  /\ worker = "up"
  /\ hm = None
  /\ i \in inbox
  /\ inbox' = inbox \ {i}
  /\ \/ /\ \A a \in Listed : id[a] # i
        /\ UNCHANGED <<head, tail, next, hm, answer>>
     \/ \E a \in Listed :
        /\ id[a] = i
        /\ Unlink(a)
        /\ hm' = a
        /\ answer' = Answer(i, e)
  /\ UNCHANGED <<seq, id, inWait, rc, data, pc, at, result, worker>>

\* _mtx released, the poller stores the answer in the message it unlinked and
\* calls its handler; the error answers of the worker never reach mm.rc.
Complete ==
  /\ hm # None
  /\ data' = [data EXCEPT ![hm] = answer]
  /\ inWait' = [inWait EXCEPT ![hm] = TRUE]
  /\ pc' = [c \in Caller |-> IF at[c] = hm /\ pc[c] = "waiting" THEN "woken"
                             ELSE pc[c]]
  /\ hm' = None
  /\ answer' = Answer(0, FALSE)
  /\ UNCHANGED <<seq, id, next, rc, list, at, result, inbox, worker>>

\* The process is gone and its channels are closed: every listed message fails
\* with GR_ERROR_WORKER_EXIT, and those who sleep are woken.
OnClosed ==
  /\ worker = "up"
  /\ hm = None
  /\ worker' = "closed"
  /\ inbox' = {}
  /\ rc' = [a \in Addr |-> IF a \in Listed THEN "exit" ELSE rc[a]]
  /\ pc' = [c \in Caller |-> IF at[c] \in Listed /\ pc[c] = "waiting" THEN "woken"
                             ELSE pc[c]]
  /\ UNCHANGED <<seq, id, next, inWait, data, list, at, result, hm, answer>>

\* _on_exit goes on to close the adapter resource.
AdapterGone ==
  /\ worker = "closed"
  /\ worker' = "gone"
  /\ UNCHANGED <<seq, mem, list, pc, at, result, inbox, hm, answer>>
-----------------------------------------------------------------------------
CallStep(c) == Enqueue(c) \/ Transmit(c) \/ Refused(c) \/ BeginWait(c)
               \/ Woken(c) \/ UnlinkOwn(c) \/ Free(c)

Next ==
  \/ \E c \in Caller, a \in Addr : Allocate(c, a)
  \/ \E c \in Caller : CallStep(c)
  \/ \E c \in Caller : WaitEnds(c)
  \/ \E c \in Caller : SendAsync(c)
  \/ \E i \in 1..MaxId, e \in BOOLEAN : OnMsg(i, e)
  \/ Complete
  \/ OnClosed
  \/ AdapterGone

Spec == Init /\ [][Next]_vars

\* Threads run, waits time out, the poller handles what it has read.  The
\* worker need not answer.
FairSpec == /\ Spec
            /\ \A c \in Caller : WF_vars(CallStep(c)) /\ WF_vars(WaitEnds(c))
            /\ WF_vars(Complete)
-----------------------------------------------------------------------------
(* Properties.                                                             *)

TypeOK ==
  /\ seq \in 0..MaxId
  /\ id \in [Addr -> 0..MaxId]
  /\ next \in [Addr -> Addr \union {None}]
  /\ inWait \in [Addr -> BOOLEAN]
  /\ rc \in [Addr -> {"ok", "exit", "error"}]
  /\ data \in [Addr -> [id : 1..MaxId, error : BOOLEAN] \union {None}]
  /\ {head, tail} \subseteq Addr \union {None}
  /\ pc \in [Caller -> {"idle", "enqueue", "transmit", "refused", "sent",
                        "waiting", "woken", "unlink", "free"}]
  /\ at \in [Caller -> Addr \union {None}]
  /\ result \in [Caller -> [id : 0..MaxId, rc : {"none", "ok", "exit", "error"},
                            data : [id : 1..MaxId, error : BOOLEAN] \union {None}]]
  /\ inbox \subseteq 1..MaxId
  /\ worker \in {"up", "closed", "gone"}
  /\ hm \in Addr \union {None}
  /\ answer \in [id : 0..MaxId, error : BOOLEAN]

\* While no wait ends early, the message the poller works on after it has
\* released _mtx is still the one it unlinked.
HandlerAlive == hm # None => id[hm] = answer.id

\* While no wait ends early, a caller gets the answer to its own command.
OwnAnswer == \A c \in Caller : result[c].data # None => result[c].data.id = result[c].id

\* No wake-up is lost between an answer and the sender's wait: a sender does
\* not sleep on a message that has been answered (the in_wait handshake of
\* _send_and_wait_handler and wrc_send_and_wait).
NoLostWakeup == \A c \in Caller : pc[c] = "waiting" => data[at[c]] = None

\* Every call returns, the worker answering or not.
CallReturns == \A c \in Caller : pc[c] # "idle" ~> pc[c] = "idle"

\* An answer that arrives finds its message: every command on its way is in
\* the list the answer is looked up in ("notify message handlers", _on_msg).
AnswerFindsSender ==
  \A c \in Caller : pc[c] \in {"transmit", "sent", "waiting"} /\ id[at[c]] \in inbox
                      => at[c] \in Listed

\* A command the worker answered with an error does not succeed
\* (GR_ERROR_WORKER_ANSWER).  It does not hold: _on_msg keeps the error to itself.
ErrorReported ==
  \A c \in Caller : result[c].rc = "ok" /\ result[c].data # None
                      => ~result[c].data.error
=============================================================================
