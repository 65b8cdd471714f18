------------------------------ MODULE Gateway ------------------------------
(***************************************************************************)
(* The WebSocket to serial gateway: the main loop of ws/server/wsserver.c, *)
(* its serial port (wsserver-linux.c), and the pages that connect to it    *)
(* (ws/ws.js).  The server serves one client at a time; its file           *)
(* descriptors are numbers, the least free one is taken first.  A step of  *)
(* the server runs between two waits.                                      *)
(***************************************************************************)
EXTENDS Integers, Sequences, FiniteSets

CONSTANTS
  Pages, Conns,   \* pages, and TCP connections
  Backlog,        \* connections that wait to be accepted
  Fds,            \* descriptors that the server may have
  SbufSize,       \* sizeof(sbuf)
  Messages,       \* kinds of messages that a client sends
  Reliable,       \* send() does not fail
  Nil

ASSUME GatewayAssumption ==
  /\ Backlog \in Nat /\ Fds = 1..Cardinality(Fds) /\ SbufSize \in Nat \ {0}
  /\ Messages \subseteq {"SERIALS", "SERIAL", "OPEN", "CLOSE", ">"}
  /\ Reliable \in BOOLEAN /\ Nil \notin Fds
  /\ Nil \notin Conns /\ "port" \notin Conns /\ Nil # "port"
  /\ Cardinality(Conns) > Cardinality(Pages) + Backlog

VARIABLES
  ws,         \* App.ws: the connection of each page, or Nil
  state,      \* its readyState
  timers,     \* pending timers of each page
  timerId,    \* App.wsTimeoutId: the timer armed last
  syn,        \* connections asked for
  backlog,    \* connections to accept
  left,       \* connections whose client is gone
  answered,   \* connections of pages whose header is answered, before onopen
  inbox,      \* message sent on a connection and not yet received
  pc,         \* where the server waits
  table,      \* what each descriptor of the server denotes
  clientId,   \* descriptor of the client
  sid,        \* descriptor of the serial port
  sbuflen,
  plugged     \* the serial port exists

page == <<ws, state, timers, timerId>>
net == <<syn, backlog, left, answered>>
server == <<pc, table, clientId, sid, sbuflen>>
vars == <<page, net, inbox, server, plugged>>

Init ==
  /\ ws = [p \in Pages |-> Nil] /\ state = [p \in Pages |-> "none"]
  /\ timers = [p \in Pages |-> {}] /\ timerId = [p \in Pages |-> Nil]
  /\ syn = {} /\ backlog = <<>> /\ left = {} /\ answered = {} /\ inbox = [c \in Conns |-> Nil]
  /\ pc = "accept" /\ table = [f \in Fds |-> Nil] /\ clientId = Nil /\ sid = Nil
  /\ sbuflen = 0 /\ plugged = TRUE

Queued == {backlog[i] : i \in DOMAIN backlog}
Live == {table[f] : f \in Fds} \cap Conns
Used == {ws[p] : p \in Pages} \cup syn \cup Queued \cup Live

\* A new connection: which one it is does not matter.
Fresh == CHOOSE c \in Conns : c \notin Used

-----------------------------------------------------------------------------
(* ws.js: each callback of a page, and the end of the page.                *)

\* wsConnect, two seconds after a close, or for the first time.  No script calls it
\* first: the page does not load ws.js, so that its beginning is an assumption.
WsConnect(p) ==
  /\ \/ state[p] = "none" /\ timers' = [timers EXCEPT ![p] = @ \cup {"timeout"}]
     \/ /\ "connect" \in timers[p]
        /\ timers' = [timers EXCEPT ![p] = (@ \ {"connect"}) \cup {"timeout"}]
  /\ timerId' = [timerId EXCEPT ![p] = "timeout"]
  /\ Conns \ Used # {}
  /\ ws' = [ws EXCEPT ![p] = Fresh] /\ syn' = syn \cup {Fresh} /\ left' = left \ {Fresh}
  /\ inbox' = [inbox EXCEPT ![Fresh] = Nil]
  /\ state' = [state EXCEPT ![p] = "connecting"]
  /\ UNCHANGED <<backlog, answered, server, plugged>>

\* The reply to the header has come, and onWsOpen sends the first message.
OnWsOpen(p) ==
  /\ state[p] = "connecting" /\ ws[p] \in answered
  /\ state' = [state EXCEPT ![p] = "open"] /\ answered' = answered \ {ws[p]}
  /\ inbox' = IF ws[p] \in Live THEN [inbox EXCEPT ![ws[p]] = "SERIALS"] ELSE inbox
  /\ UNCHANGED <<ws, timers, timerId, syn, backlog, left, server, plugged>>

\* The server has closed the connection, or refused it, and the page knows.  A
\* reply comes before: a server that closes a connection has read all of what the
\* page sent before onopen, so that nothing resets the connection.
Lost(p) ==
  /\ state[p] \in {"connecting", "open"}
  /\ ws[p] \notin syn \cup Queued \cup Live \cup answered

\* Mutant: the pending timer is not cleared.
OnWsCloseKeepsTimer(p) ==
  /\ Lost(p)
  /\ timers' = [timers EXCEPT ![p] = @ \cup {"connect"}]
  /\ timerId' = [timerId EXCEPT ![p] = "connect"]
  /\ state' = [state EXCEPT ![p] = "closed"] /\ ws' = [ws EXCEPT ![p] = Nil]
  /\ UNCHANGED <<net, inbox, server, plugged>>

\* Mutant: the page does not connect again.
OnWsCloseGivesUp(p) ==
  /\ Lost(p)
  /\ timers' = [timers EXCEPT ![p] = @ \ {timerId[p]}]
  /\ state' = [state EXCEPT ![p] = "closed"] /\ ws' = [ws EXCEPT ![p] = Nil]
  /\ UNCHANGED <<net, inbox, server, plugged, timerId>>

\* onWsClose.
OnWsClose(p) ==
  /\ Lost(p)
  /\ timers' = [timers EXCEPT ![p] = (@ \ {timerId[p]}) \cup {"connect"}]
  /\ timerId' = [timerId EXCEPT ![p] = "connect"]
  /\ state' = [state EXCEPT ![p] = "closed"] /\ ws' = [ws EXCEPT ![p] = Nil]
  /\ UNCHANGED <<net, inbox, server, plugged>>

\* wsTimeout closes a socket that is closed already: a connection that is
\* neither made nor refused is waited for.
WsTimeout(p) ==
  /\ "timeout" \in timers[p]
  /\ timers' = [timers EXCEPT ![p] = @ \ {"timeout"}]
  /\ UNCHANGED <<ws, state, timerId, net, inbox, server, plugged>>

\* The page is loaded again: its socket is closed and its timers are lost.
Reload(p) ==
  /\ state[p] # "none"
  /\ ws' = [ws EXCEPT ![p] = Nil] /\ state' = [state EXCEPT ![p] = "none"]
  /\ timers' = [timers EXCEPT ![p] = {}] /\ timerId' = [timerId EXCEPT ![p] = Nil]
  /\ syn' = syn \ {ws[p]} /\ left' = left \cup ({ws[p]} \cap (Queued \cup Live))
  /\ answered' = answered \ {ws[p]}
  /\ UNCHANGED <<backlog, inbox, server, plugged>>

\* A client sends a message.  The page of the repository sends only "SERIALS".
ClientSends(p) ==
  /\ state[p] = "open" /\ ws[p] \in Live /\ inbox[ws[p]] = Nil
  /\ \E m \in Messages : inbox' = [inbox EXCEPT ![ws[p]] = m]
  /\ UNCHANGED <<page, net, server, plugged>>

-----------------------------------------------------------------------------
(* The kernel, and the serial port.                                        *)

Connected(c) ==
  /\ c \in syn /\ pc # "down" /\ Len(backlog) < Backlog
  /\ syn' = syn \ {c} /\ backlog' = Append(backlog, c)
  /\ UNCHANGED <<page, left, answered, inbox, server, plugged>>

Refused(c) ==
  /\ c \in syn /\ pc = "down" /\ syn' = syn \ {c}
  /\ UNCHANGED <<page, backlog, left, answered, inbox, server, plugged>>

Plug == plugged' = ~plugged /\ UNCHANGED <<page, net, inbox, server>>

-----------------------------------------------------------------------------
(* The server.                                                             *)

Free == {f \in Fds : table[f] = Nil}
LeastFree == {f \in Free : \A g \in Free : f <= g}

\* sendFrame closes the socket when send() fails, and goes on.
Sent(t, ok) == IF ok THEN t ELSE [t EXCEPT ![clientId] = Nil]

Ok == IF Reliable THEN {TRUE} ELSE BOOLEAN

\* accept, then processHeader waits for the header.
Accept ==
  /\ pc = "accept" /\ backlog # <<>>
  /\ clientId' \in LeastFree /\ pc' = "header"
  /\ table' = [table EXCEPT ![clientId'] = Head(backlog)]
  /\ backlog' = Tail(backlog)
  /\ UNCHANGED <<page, syn, left, answered, inbox, sid, sbuflen, plugged>>

\* The header that the client of connection c sent is answered.
Answer(c) ==
  /\ pc' = "client"
  /\ answered' = answered \cup ({c} \ left)
  /\ UNCHANGED <<table, clientId>>

\* Mutant: the connection is not closed when the header is bad.
HeaderLeaks ==
  /\ pc = "header"
  /\ \/ Answer(table[clientId])
     \/ /\ table[clientId] \in left \/ ~Reliable
        /\ clientId' = Nil /\ pc' = "accept"
        /\ UNCHANGED <<table, answered>>
  /\ UNCHANGED <<page, syn, backlog, left, inbox, sid, sbuflen, plugged>>

\* processHeader: the header is answered, or the client has left before it sent
\* one, or the reply fails.
Header ==
  /\ pc = "header"
  /\ \/ Answer(table[clientId])
     \/ /\ table[clientId] \in left \/ ~Reliable
        /\ table' = [table EXCEPT ![clientId] = Nil] /\ clientId' = Nil /\ pc' = "accept"
        /\ UNCHANGED answered
  /\ UNCHANGED <<page, syn, backlog, left, inbox, sid, sbuflen, plugged>>

\* select() fails on the descriptor that sendFrame has closed.
SelectFails ==
  /\ pc = "client" /\ table[clientId] = Nil
  /\ pc' = "accept" /\ clientId' = Nil
  /\ UNCHANGED <<page, net, inbox, table, sid, sbuflen, plugged>>

\* Mutant: the end of the connection is not seen.
ClientLeavesUnseen ==
  /\ pc = "client" /\ table[clientId] \in left /\ inbox[table[clientId]] = Nil
  /\ pc' = "serial"
  /\ UNCHANGED <<page, net, inbox, table, clientId, sid, sbuflen, plugged>>

\* recv() returns 0, or -1.
ClientLeaves ==
  /\ pc = "client" /\ table[clientId] \in left
  /\ table' = [table EXCEPT ![clientId] = Nil] /\ clientId' = Nil /\ pc' = "accept"
  /\ left' = left \ {table[clientId]} /\ inbox' = [inbox EXCEPT ![table[clientId]] = Nil]
  /\ UNCHANGED <<page, syn, backlog, answered, sid, sbuflen, plugged>>

\* Mutant: the descriptor of a port that is closed is kept.
ProcessKeepsSid(m) ==
  \/ /\ m \in {"SERIALS", ">"}
     /\ \E ok \in Ok : table' = Sent(table, ok)
     /\ UNCHANGED sid
  \/ /\ m = "CLOSE"
     /\ table' = IF sid # Nil THEN [table EXCEPT ![sid] = Nil] ELSE table
     /\ UNCHANGED sid
  \/ /\ m = "OPEN" /\ plugged
     /\ sid' \in LeastFree
     /\ \E ok \in Ok : table' = Sent([table EXCEPT ![sid'] = "port"], ok)
  \/ m \in {"SERIAL", "OPEN"} /\ sid' = Nil /\ UNCHANGED table

\* onMessage.  "SERIAL <name>" takes a space for the end of an empty name, and
\* so does not find the port: only the name right after SERIAL ("OPEN") is
\* opened.  The former port is forgotten.
Process(m) ==
  \/ /\ m \in {"SERIALS", ">"}
     /\ \E ok \in Ok : table' = Sent(table, ok)
     /\ UNCHANGED sid
  \/ /\ m = "CLOSE"
     /\ table' = IF sid # Nil THEN [table EXCEPT ![sid] = Nil] ELSE table
     /\ sid' = Nil
  \/ /\ m = "OPEN" /\ plugged
     /\ sid' \in LeastFree
     /\ \E ok \in Ok : table' = Sent([table EXCEPT ![sid'] = "port"], ok)
  \/ /\ m = "SERIAL" \/ (m = "OPEN" /\ (~plugged \/ Free = {}))
     /\ sid' = Nil
     /\ \E ok \in Ok : table' = Sent(table, ok)

\* A message is received and processed.
Receive ==
  /\ pc = "client" /\ table[clientId] # Nil
  /\ LET c == table[clientId]
     IN inbox[c] # Nil /\ inbox' = [inbox EXCEPT ![c] = Nil] /\ Process(inbox[c])
  /\ pc' = "serial"
  /\ UNCHANGED <<page, net, clientId, sbuflen, plugged>>

\* Nothing came from the client.
ClientQuiet ==
  /\ pc = "client" /\ table[clientId] # Nil
  /\ table[clientId] \notin left /\ inbox[table[clientId]] = Nil
  /\ pc' = "serial"
  /\ UNCHANGED <<page, net, inbox, table, clientId, sid, sbuflen, plugged>>

\* A byte of the serial port: one with bit 7, or that fills the buffer, sends it.
SerialByte ==
  /\ pc = "serial" /\ sid # Nil /\ plugged
  /\ \/ sbuflen + 1 < SbufSize /\ sbuflen' = sbuflen + 1 /\ UNCHANGED <<pc, table>>
     \/ sbuflen' = 0 /\ pc' = "client" /\ \E ok \in Ok : table' = Sent(table, ok)
  /\ UNCHANGED <<page, net, inbox, clientId, sid, plugged>>

\* Nothing more comes from the port, which may be gone.
SerialQuiet ==
  /\ pc = "serial" /\ pc' = "client"
  /\ \/ UNCHANGED <<table, sid>>
     \/ sid # Nil /\ ~plugged /\ table' = [table EXCEPT ![sid] = Nil] /\ sid' = Nil
  /\ UNCHANGED <<page, net, inbox, clientId, sbuflen, plugged>>

\* The server dies, and is started again.
Die ==
  /\ pc # "down" /\ pc' = "down"
  /\ table' = [f \in Fds |-> Nil] /\ clientId' = Nil /\ sid' = Nil /\ sbuflen' = 0
  /\ backlog' = <<>> /\ left' = {} /\ inbox' = [c \in Conns |-> Nil]
  /\ UNCHANGED <<page, syn, answered, plugged>>

Start ==
  /\ pc = "down" /\ pc' = "accept"
  /\ UNCHANGED <<page, net, inbox, table, clientId, sid, sbuflen, plugged>>

-----------------------------------------------------------------------------

Server ==
  \/ Accept \/ Header \/ SelectFails \/ ClientLeaves \/ Receive \/ ClientQuiet
  \/ SerialByte \/ SerialQuiet \/ Start

Next ==
  \/ \E p \in Pages :
       \/ WsConnect(p) \/ OnWsOpen(p) \/ OnWsClose(p) \/ WsTimeout(p)
       \/ Reload(p) \/ ClientSends(p)
  \/ \E c \in Conns : Connected(c) \/ Refused(c)
  \/ Plug \/ Server \/ Die

Spec == Init /\ [][Next]_vars

\* Timers fire, the kernel makes connections and carries what is sent, the server
\* runs, and select() tells of the client in the end though serial bytes come.  A
\* connection that finds the backlog full is asked for again until it fits, and
\* the reply to the header of a page does not fail for ever.
FairSpec ==
  /\ Spec /\ WF_vars(Server)
  /\ \A p \in Pages : SF_vars(Header /\ pc' = "client" /\ table[clientId] = ws[p])
  /\ \A p \in Pages : WF_vars(WsConnect(p)) /\ WF_vars(OnWsOpen(p)) /\ WF_vars(OnWsClose(p))
  /\ \A c \in Conns : SF_vars(Connected(c)) /\ WF_vars(Refused(c))

-----------------------------------------------------------------------------

\* Every variable has its type.
TypeOK ==
  /\ ws \in [Pages -> Conns \cup {Nil}]
  /\ state \in [Pages -> {"none", "connecting", "open", "closed"}]
  /\ timers \in [Pages -> SUBSET {"timeout", "connect"}]
  /\ syn \subseteq Conns /\ Queued \subseteq Conns /\ Len(backlog) <= Backlog
  /\ left \subseteq Conns /\ answered \subseteq Conns
  /\ inbox \in [Conns -> Messages \cup {"SERIALS", Nil}]
  /\ pc \in {"down", "accept", "header", "client", "serial"}
  /\ table \in [Fds -> Conns \cup {"port", Nil}]
  /\ clientId \in Fds \cup {Nil} /\ sid \in Fds \cup {Nil}
  /\ sbuflen \in 0..SbufSize - 1 /\ plugged \in BOOLEAN

\* A page has one timer at most, the one it remembers: it never makes two
\* connections.
OneTimer == \A p \in Pages : timers[p] \subseteq {timerId[p]}

\* The descriptor that the server takes for the serial port is that of the
\* port, and never the one of a client that took its number.
SidIsPort == sid # Nil => table[sid] = "port"

\* A connection that the server has left, by whatever path, is closed.
NoConnectionLeak == \A f \in Fds : table[f] \in Conns => f = clientId

\* A client that leaves ends its connection, whatever the serial port sends.
LeavingFrees == \A c \in Conns : (c \in left \cap Live) ~> c \notin left \cap Live

\* A page is connected in the end, and again after each loss, if it is not loaded
\* for ever and the server does not die for ever, unless another page keeps the
\* server for itself, or is loaded for ever: the server serves a client until it
\* leaves, and the other one waits in the backlog.  Those who lose their connection
\* take turns.
AlwaysOpensAgain ==
  <>[](pc # "down") =>
    \A p \in Pages :
      \/ []<>(state[p] = "open") \/ []<>(state[p] = "none")
      \/ \E q \in Pages \ {p} : <>[](state[q] = "open") \/ []<>(state[q] = "none")
=============================================================================
