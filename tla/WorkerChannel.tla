---------------------------- MODULE WorkerChannel ----------------------------
(***************************************************************************)
(* The pipes between the server and a worker process                       *)
(* (wrc/local/wrc_adapter_local.c).  A message is framed by its length;    *)
(* threads append frames to a buffer, which the poller writes as far as    *)
(* the pipe takes it; what comes back is read in pieces and cut into       *)
(* messages.  The worker, which is not here, sends back what it gets, so   *)
(* that one pipe stands for the two.                                       *)
(*                                                                         *)
(* Sizes are counted in units; a message is the number of its units, and   *)
(* a unit is <<its message, its place in the frame>>.                      *)
(***************************************************************************)
EXTENDS Integers, Sequences, SequencesExt

CONSTANTS
  Header,    \* size of the length in front of a message
  Sizes,     \* sizes of messages
  Pipe,      \* what the pipe holds
  ReadSize,  \* size of the buffer of a read
  MaxSize,   \* READBUF_SIZE_MAX
  MaxSends   \* bound: messages sent

ChannelSizes ==
  /\ {Header, Pipe, ReadSize} \subseteq Nat \ {0}
  /\ Sizes \subseteq Nat /\ {MaxSize, MaxSends} \subseteq Nat

VARIABLES
  sent,       \* sizes of the messages sent
  writeBuf,   \* msg_write_buf
  armed,      \* the poller is to call _on_msg_write
  writing,    \* it is calling it
  pipe,
  readBuf,    \* msg_read_buf
  readLen,    \* msg_read_len: size of the message awaited, -1 before its header
  received,   \* sizes of the messages handed over
  closed      \* the reader has given up

vars == <<sent, writeBuf, armed, writing, pipe, readBuf, readLen, received, closed>>
writer == <<sent, writeBuf, armed, writing>>
reader == <<readBuf, readLen, received, closed>>

Init ==
  /\ sent = <<>> /\ received = <<>>
  /\ writeBuf = <<>> /\ pipe = <<>> /\ readBuf = <<>>
  /\ armed = FALSE /\ writing = FALSE
  /\ readLen = -1
  /\ closed = FALSE

Frame(i, n) == [k \in 1..(Header + n) |-> <<i, k>>]
Taken(s, n) == SubSeq(s, 1, n)
Shifted(s, n) == SubSeq(s, n + 1, Len(s))
Least(a, b) == IF a < b THEN a ELSE b
-----------------------------------------------------------------------------
\* wrc_adapter_send_msg: a whole frame is appended under the lock.
Send(n) ==
  /\ Len(sent) < MaxSends
  /\ sent' = Append(sent, n)
  /\ writeBuf' = writeBuf \o Frame(Len(sent) + 1, n)
  /\ armed' = TRUE
  /\ UNCHANGED <<writing, pipe, reader>>

StartWrite ==
  /\ armed /\ ~writing
  /\ writing' = TRUE /\ armed' = FALSE
  /\ UNCHANGED <<sent, writeBuf, pipe, reader>>

Rearmed == TRUE

\* Mutant: all of the buffer counts as written.
RestNone(k) == <<>>
Rest(k) == Shifted(writeBuf, k)

\* One round of _on_msg_write: it ends with an empty buffer or a full pipe.
Write ==
  /\ writing
  /\ LET room == Pipe - Len(pipe) IN
     IF writeBuf = <<>> THEN writing' = FALSE /\ UNCHANGED <<writeBuf, pipe, armed>>
     ELSE IF room = 0 THEN writing' = FALSE /\ armed' = Rearmed /\ UNCHANGED <<writeBuf, pipe>>
     ELSE \E k \in 1..Least(room, Len(writeBuf)) :
            /\ pipe' = pipe \o Taken(writeBuf, k)
            /\ writeBuf' = Rest(k)
            /\ UNCHANGED <<armed, writing>>
  /\ UNCHANGED <<sent, reader>>
-----------------------------------------------------------------------------
\* The length that the first units of a buffer make, 0 if they are no header.
LengthIn(s) ==
  IF \E i \in DOMAIN sent : Taken(s, Header) = [k \in 1..Header |-> <<i, k>>]
  THEN sent[s[1][1]] ELSE 0

\* The message that units make, -1 if they are not all of it.
MessageOf(s) ==
  LET mine == \E i \in DOMAIN sent : s = Shifted(Frame(i, sent[i]), Header)
  IN IF mine THEN Len(s) ELSE -1

\* A message is handed over, then what c has.
Before(message, c) == [c EXCEPT !.out = <<message>> \o @]

\* The loop of _on_channel_read over the messages that buf holds.
Cut[at \in Seq(Nat \X Nat) \X (Nat \union {-1})] ==
  LET buf == at[1]
      len == at[2]
  IN  IF len = -1
      THEN IF Len(buf) < Header THEN [buf |-> buf, len |-> -1, out |-> <<>>, bad |-> FALSE]
           ELSE IF LengthIn(buf) > MaxSize
                THEN [buf |-> buf, len |-> -1, out |-> <<>>, bad |-> TRUE]
           ELSE Cut[<<Shifted(buf, Header), LengthIn(buf)>>]
      ELSE IF len > Len(buf) THEN [buf |-> buf, len |-> len, out |-> <<>>, bad |-> FALSE]
      ELSE Before(MessageOf(Taken(buf, len)), Cut[<<Shifted(buf, len), -1>>])

Kept(c) == c.buf

TooLong(k) == Len(readBuf) + k > MaxSize

\* One read; the pipe may hold more, the poller calls again.
Read ==
  /\ ~closed
  /\ pipe # <<>>
  /\ \E k \in 1..Least(ReadSize, Len(pipe)) :
       /\ pipe' = Shifted(pipe, k)
       /\ IF TooLong(k) THEN closed' = TRUE /\ UNCHANGED <<readBuf, readLen, received>>
          ELSE LET c == Cut[<<readBuf \o Taken(pipe, k), readLen>>] IN
               /\ readBuf' = Kept(c)
               /\ readLen' = c.len
               /\ received' = received \o c.out
               /\ closed' = c.bad
  /\ UNCHANGED writer

Next == StartWrite \/ Write \/ Read \/ \E n \in Sizes : Send(n)

Spec == Init /\ [][Next]_vars

\* The poller calls what is ready.
FairSpec == Spec /\ WF_vars(StartWrite) /\ WF_vars(Write) /\ WF_vars(Read)
-----------------------------------------------------------------------------
\* However frames are split, messages arrive whole and in order, and each of them
\* does unless the reader gives up.
C == INSTANCE Channel WITH Message <- Sizes, broken <- closed
IsChannel == C!Spec

\* The reader gives up on messages that fill its buffer but for one read, only.
GivesUpOnLong ==
  closed => \E i \in DOMAIN sent : sent[i] > MaxSize - ReadSize
=============================================================================
