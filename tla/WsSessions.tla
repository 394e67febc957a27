----------------------------- MODULE WsSessions -----------------------------
(***************************************************************************)
(* Websocket sessions (grh_ws.c).  A browser asks for a ticket over HTTP   *)
(* and sends it as the first message of its connection; the session is     *)
(* then found by its descriptor and by its uuid.  What is sent to several  *)
(* sessions is sent by descriptors that were collected before.             *)
(*                                                                         *)
(* The library of the connections is not here: it runs the callbacks of    *)
(* one connection one after the other, and closes its descriptor after the *)
(* last of them.                                                           *)
(***************************************************************************)

CONSTANTS
  Conn,    \* connections, each with the session made for it
  Fd,      \* file descriptors
  Ticket,
  User,
  None

SessionsAssumption == None \notin Conn \union Fd \union Ticket

VARIABLES
  ticket,   \* the tickets in the database, and whom they are for
  issued,   \* history: whom every ticket was issued to
  conn,     \* connections and their sessions
  byWsid,   \* _map_wsid_wsdata
  byUuid,   \* _map_uuid_sessions: the sessions in it
  sender,   \* a thread that sends to the sessions of some users
  misled    \* history: sessions that got what was meant for others

vars == <<ticket, issued, conn, byWsid, byUuid, sender, misled>>

NoConn == [pc |-> "none", fd |-> None, ticket |-> None, user |-> None]
NoSender == [to |-> {}, users |-> {}]

Init ==
  /\ ticket = [t \in {} |-> None] /\ issued = ticket
  /\ conn = [c \in Conn |-> NoConn]
  /\ byWsid = [f \in Fd |-> None] /\ byUuid = {}
  /\ sender = NoSender
  /\ misled = {}

Connected(c) == conn[c].pc \notin {"none", "gone"}
Without(T) == [t \in DOMAIN ticket \ T |-> ticket[t]]
-----------------------------------------------------------------------------
\* _handler_ticket, for a user that is logged in.
IssueTicket(t, u) ==
  /\ t \notin DOMAIN issued
  /\ ticket' = [x \in DOMAIN ticket \union {t} |-> IF x = t THEN u ELSE ticket[x]]
  /\ issued' = [x \in DOMAIN issued \union {t} |-> IF x = t THEN u ELSE issued[x]]
  /\ UNCHANGED <<conn, byWsid, byUuid, sender, misled>>

\* _on_timeout of the periodic worker: those that are too old.
ExpireTickets ==
  /\ \E T \in SUBSET DOMAIN ticket \ {{}} : ticket' = Without(T)
  /\ UNCHANGED <<issued, conn, byWsid, byUuid, sender, misled>>

\* _on_wss_init, of a connection whose descriptor nobody else has.
Connect(c, f) ==
  /\ conn[c].pc = "none"
  /\ \A x \in Conn : Connected(x) => conn[x].fd # f
  /\ conn' = [conn EXCEPT ![c] = [pc |-> "open", fd |-> f, ticket |-> None, user |-> None]]
  /\ UNCHANGED <<ticket, issued, byWsid, byUuid, sender, misled>>

\* Mutant: the ticket stays.
PulledNot(t) == ticket
Pulled(t) == Without({t})

\* _ws_ticket_pull: the first message.
Pull(c, t) ==
  /\ conn[c].pc = "open"
  /\ t \in DOMAIN issued
  /\ IF t \in DOMAIN ticket
     THEN /\ conn' = [conn EXCEPT ![c].pc = "known", ![c].ticket = t, ![c].user = ticket[t]]
          /\ ticket' = Pulled(t)
     ELSE conn' = [conn EXCEPT ![c].pc = "closing"] /\ UNCHANGED ticket
  /\ UNCHANGED <<issued, byWsid, byUuid, sender, misled>>

\* _ws_message_init; a session of the same descriptor would be freed by it.
Register(c) ==
  /\ conn[c].pc = "known"
  /\ byWsid' = [byWsid EXCEPT ![conn[c].fd] = c]
  /\ byUuid' = (byUuid \ {byWsid[conn[c].fd]}) \union {c}
  /\ conn' = [conn EXCEPT ![c].pc = "ready"]
  /\ UNCHANGED <<ticket, issued, sender, misled>>

\* _on_wss_close: who listens is told that the session ends.
Close(c) ==
  /\ conn[c].pc \in {"open", "ready"}
  /\ conn' = [conn EXCEPT ![c].pc = "closing"]
  /\ UNCHANGED <<ticket, issued, byWsid, byUuid, sender, misled>>

Removed(f) == [byWsid EXCEPT ![f] = None]

\* _on_wss_dispose: the session of the descriptor is taken off and freed.
Dispose(c) ==
  /\ conn[c].pc = "closing"
  /\ byWsid' = Removed(conn[c].fd)
  /\ byUuid' = byUuid \ {byWsid[conn[c].fd]}
  /\ conn' = [conn EXCEPT ![c].pc = "gone"]
  /\ UNCHANGED <<ticket, issued, sender, misled>>
-----------------------------------------------------------------------------
\* grh_ws_send_all_room_participants: the descriptors of the users' sessions.
Collect(U) ==
  /\ sender.to = {}
  /\ sender' = [users |-> U, to |->
       {f \in Fd : byWsid[f] # None /\ conn[byWsid[f]].user \in U}]
  /\ UNCHANGED <<ticket, issued, conn, byWsid, byUuid, misled>>

\* To the session that has the descriptor now.
Send ==
  /\ \E f \in sender.to :
       /\ sender' = IF sender.to = {f} THEN NoSender ELSE [sender EXCEPT !.to = @ \ {f}]
       /\ misled' = misled \union
            ({byWsid[f]} \cap {c \in Conn : conn[c].user \notin sender.users})
  /\ UNCHANGED <<ticket, issued, conn, byWsid, byUuid>>

Next ==
  \/ ExpireTickets \/ Send
  \/ \E t \in Ticket, u \in User : IssueTicket(t, u)
  \/ \E U \in SUBSET User \ {{}} : Collect(U)
  \/ \E c \in Conn : Register(c) \/ Close(c) \/ Dispose(c)
  \/ \E c \in Conn, f \in Fd : Connect(c, f)
  \/ \E c \in Conn, t \in Ticket : Pull(c, t)

Spec == Init /\ [][Next]_vars
-----------------------------------------------------------------------------
TypeOK ==
  /\ DOMAIN ticket \subseteq DOMAIN issued
  /\ DOMAIN issued \subseteq Ticket
  /\ \A c \in Conn : conn[c].pc \in {"none", "open", "known", "ready", "closing", "gone"}
  /\ byWsid \in [Fd -> Conn \union {None}] /\ byUuid \subseteq Conn
  /\ sender.to \subseteq Fd

\* Both maps hold the same sessions, each under the descriptor of its connection
\* and only while that is there: nothing is sent to a session that was freed,
\* whatever connection has its descriptor next.
MapsAgree ==
  /\ byUuid = {byWsid[f] : f \in Fd} \ {None}
  /\ \A f \in Fd : byWsid[f] # None => Connected(byWsid[f]) /\ conn[byWsid[f]].fd = f
  /\ \A c \in Conn : conn[c].pc = "ready" => byWsid[conn[c].fd] = c

\* A ticket opens one session, that of the user it was issued to.
OwnTicket ==
  \A c \in Conn : conn[c].ticket # None =>
    /\ conn[c].user = issued[conn[c].ticket]
    /\ \A x \in Conn \ {c} : conn[x].ticket # conn[c].ticket

\* The sessions of the server are those of its connections.
SessionsAgree == MapsAgree /\ OwnTicket

\* "send all room participants": nobody else gets it.  It does not hold: a descriptor
\* that was collected may be another session's when its turn comes.
OnlyParticipants == misled = {}
=============================================================================
