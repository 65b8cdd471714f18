--------------------------- MODULE GatewayProofs ---------------------------
(***************************************************************************)
(* For any number of pages, connections and descriptors: the gateway never *)
(* takes a client for the serial port nor keeps a connection that it has   *)
(* left, and a page has one timer.                                         *)
(***************************************************************************)
EXTENDS Gateway, TLAPS

PageOK ==
  /\ ws \in [Pages -> Conns \cup {Nil}]
  /\ state \in [Pages -> {"none", "connecting", "open", "closed"}]
  /\ timers \in [Pages -> SUBSET {"timeout", "connect"}]
  /\ timerId \in [Pages -> {"timeout", "connect", Nil}]
  /\ OneTimer
  /\ \A p \in Pages : state[p] = "none" => timers[p] = {}

NetOK ==
  /\ syn \subseteq Conns /\ left \subseteq Conns /\ answered \subseteq Conns
  /\ backlog \in Seq(Conns) /\ Len(backlog) <= Backlog
  /\ inbox \in [Conns -> Messages \cup {"SERIALS", Nil}]

\* The descriptor of the client denotes its connection, or nothing when
\* sendFrame has closed it, and there is one exactly when a client is served.
TableOK(t, cl, s) ==
  /\ t \in [Fds -> Conns \cup {"port", Nil}]
  /\ cl \in Fds \cup {Nil} /\ s \in Fds \cup {Nil}
  /\ cl # Nil => t[cl] \in Conns \cup {Nil}
  /\ s # Nil => t[s] = "port"
  /\ \A f \in Fds : t[f] \in Conns => f = cl

ServerOK ==
  /\ pc \in {"down", "accept", "header", "client", "serial"}
  /\ TableOK(table, clientId, sid)
  /\ clientId = Nil <=> pc \in {"down", "accept"}
  /\ pc = "header" => table[clientId] \in Conns
  /\ sbuflen \in 0..SbufSize - 1 /\ plugged \in BOOLEAN

Inv == PageOK /\ NetOK /\ ServerOK

LEMMA InvImplies == Inv => TypeOK /\ OneTimer /\ SidIsPort /\ NoConnectionLeak
<1> SUFFICES ASSUME Inv PROVE TypeOK /\ OneTimer /\ SidIsPort /\ NoConnectionLeak
  OBVIOUS
<1>1. Queued \subseteq Conns
  BY DEF Inv, NetOK, Queued
<1>2. TypeOK
  BY <1>1 DEF Inv, PageOK, NetOK, ServerOK, TableOK, TypeOK
<1> QED
  BY <1>2 DEF Inv, PageOK, ServerOK, TableOK, SidIsPort, NoConnectionLeak

LEMMA InitInv == Init => Inv
<1> SUFFICES ASSUME Init PROVE PageOK /\ NetOK /\ ServerOK
  BY DEF Inv
<1> USE GatewayAssumption DEF Init
<1>1. PageOK
  BY DEF PageOK, OneTimer
<1>2. NetOK
  BY DEF NetOK
<1>3. ServerOK
  BY DEF ServerOK, TableOK
<1> QED
  BY <1>1, <1>2, <1>3

-----------------------------------------------------------------------------
(* Descriptors.                                                            *)

\* sendFrame keeps the table in order, whether it closes the client or not.
LEMMA SentOK ==
  ASSUME NEW t, NEW s, NEW ok \in BOOLEAN, TableOK(t, clientId, s), clientId # Nil
  PROVE  TableOK(Sent(t, ok), clientId, s)
<1>1. CASE ok
  BY <1>1 DEF Sent
<1>2. CASE ~ok
  <2>1. Sent(t, ok) = [t EXCEPT ![clientId] = Nil]
    BY <1>2 DEF Sent
  <2>2. s # Nil => s # clientId
    BY GatewayAssumption DEF TableOK
  <2> QED
    BY <2>1, <2>2, GatewayAssumption DEF TableOK
<1> QED
  BY <1>1, <1>2

\* A port that is closed.
LEMMA ClosedPort ==
  ASSUME TableOK(table, clientId, sid), sid # Nil
  PROVE  TableOK([table EXCEPT ![sid] = Nil], clientId, Nil)
BY GatewayAssumption DEF TableOK

\* A port that is forgotten.
LEMMA ForgottenPort == ASSUME TableOK(table, clientId, sid) PROVE TableOK(table, clientId, Nil)
BY DEF TableOK

\* A port that is opened.
LEMMA OpenedPort ==
  ASSUME TableOK(table, clientId, sid), NEW f \in Fds, table[f] = Nil,
         clientId # Nil, table[clientId] # Nil
  PROVE  TableOK([table EXCEPT ![f] = "port"], clientId, f)
BY GatewayAssumption DEF TableOK

\* No connection is left when the descriptor of the client is closed.
LEMMA ClosedClient ==
  ASSUME TableOK(table, clientId, sid), clientId # Nil
  PROVE  TableOK([table EXCEPT ![clientId] = Nil], Nil, sid)
BY GatewayAssumption DEF TableOK

LEMMA ProcessOK ==
  ASSUME NEW m, TableOK(table, clientId, sid), clientId # Nil, table[clientId] # Nil, Process(m)
  PROVE  TableOK(table', clientId, sid')
<1>0. Ok \subseteq BOOLEAN
  BY DEF Ok
<1>1. ASSUME NEW ok \in Ok, table' = Sent(table, ok), sid' = sid
      PROVE  TableOK(table', clientId, sid')
  BY <1>0, <1>1, SentOK
<1>2. ASSUME table' = IF sid # Nil THEN [table EXCEPT ![sid] = Nil] ELSE table, sid' = Nil
      PROVE  TableOK(table', clientId, sid')
  BY <1>2, ClosedPort
<1>3. ASSUME sid' \in LeastFree,
             NEW ok \in Ok, table' = Sent([table EXCEPT ![sid'] = "port"], ok)
      PROVE  TableOK(table', clientId, sid')
  <2>1. sid' \in Fds /\ table[sid'] = Nil
    BY <1>3 DEF LeastFree, Free
  <2>2. TableOK([table EXCEPT ![sid'] = "port"], clientId, sid')
    BY <2>1, OpenedPort
  <2> QED
    BY <1>0, <1>3, <2>2, SentOK
<1>4. ASSUME sid' = Nil, NEW ok \in Ok, table' = Sent(table, ok)
      PROVE  TableOK(table', clientId, sid')
  BY <1>0, <1>4, ForgottenPort, SentOK
<1> QED
  BY <1>1, <1>2, <1>3, <1>4 DEF Process

-----------------------------------------------------------------------------
(* Steps of the pages and of the kernel.                                   *)

LEMMA WsConnectInv == ASSUME Inv, NEW p \in Pages, WsConnect(p) PROVE Inv'
<1> USE DEF Inv
<1>0. Fresh \in Conns
  BY DEF WsConnect, Fresh
<1>1. PICK c \in Conns :
        /\ ws' = [ws EXCEPT ![p] = c] /\ syn' = syn \cup {c} /\ left' = left \ {c}
        /\ inbox' = [inbox EXCEPT ![c] = Nil]
  BY <1>0 DEF WsConnect
<1>2. timers' = [timers EXCEPT ![p] = {"timeout"}]
  <2>1. CASE state[p] = "none"
    BY <2>1 DEF WsConnect, PageOK, OneTimer
  <2>2. CASE state[p] # "none"
    BY <2>2 DEF WsConnect, PageOK, OneTimer
  <2> QED
    BY <2>1, <2>2
<1>3. PageOK'
  BY <1>1, <1>2 DEF WsConnect, PageOK, OneTimer
<1>4. NetOK'
  BY <1>1 DEF WsConnect, NetOK
<1>5. ServerOK'
  BY DEF WsConnect, ServerOK, server
<1> QED
  BY <1>3, <1>4, <1>5

LEMMA PageInv ==
  ASSUME Inv, NEW p \in Pages,
         OnWsOpen(p) \/ OnWsClose(p) \/ WsTimeout(p) \/ Reload(p) \/ ClientSends(p)
  PROVE  Inv'
<1> USE DEF Inv
<1>1. ServerOK'
  BY DEF OnWsOpen, OnWsClose, WsTimeout, Reload, ClientSends, ServerOK, server
<1>2. CASE OnWsClose(p)
  <2>1. timers[p] \subseteq {timerId[p]}
    BY DEF PageOK, OneTimer
  <2>2. timers' = [timers EXCEPT ![p] = {"connect"}]
    BY <1>2, <2>1 DEF OnWsClose
  <2>3. PageOK'
    BY <1>2, <2>2 DEF OnWsClose, PageOK, OneTimer
  <2>4. NetOK'
    BY <1>2 DEF OnWsClose, NetOK, net
  <2> QED
    BY <1>1, <2>3, <2>4
<1>3. CASE WsTimeout(p)
  <2>1. PageOK'
    BY <1>3 DEF WsTimeout, PageOK, OneTimer
  <2>2. NetOK'
    BY <1>3 DEF WsTimeout, NetOK, net
  <2> QED
    BY <1>1, <2>1, <2>2
<1>4. CASE Reload(p)
  <2>1. PageOK'
    BY <1>4 DEF Reload, PageOK, OneTimer
  <2>2. Queued \cup Live \subseteq Conns
    BY DEF NetOK, Queued, Live
  <2>3. NetOK'
    BY <1>4, <2>2 DEF Reload, NetOK
  <2> QED
    BY <1>1, <2>1, <2>3
<1>5. CASE ClientSends(p)
  <2>1. PageOK'
    BY <1>5 DEF ClientSends, PageOK, OneTimer, page
  <2>2. NetOK'
    BY <1>5 DEF ClientSends, NetOK, net
  <2> QED
    BY <1>1, <2>1, <2>2
<1>6. CASE OnWsOpen(p)
  <2>1. PageOK'
    BY <1>6 DEF OnWsOpen, PageOK, OneTimer
  <2>2. NetOK'
    BY <1>6 DEF OnWsOpen, NetOK
  <2> QED
    BY <1>1, <2>1, <2>2
<1> QED
  BY <1>2, <1>3, <1>4, <1>5, <1>6

LEMMA KernelInv ==
  ASSUME Inv, (\E c \in Conns : Connected(c) \/ Refused(c)) \/ Plug
  PROVE  Inv'
<1> USE DEF Inv
<1>1. PageOK'
  BY DEF Connected, Refused, Plug, PageOK, OneTimer, page
<1>2. ServerOK'
  BY DEF Connected, Refused, Plug, ServerOK, server
<1>3. NetOK'
  <2>1. ASSUME NEW c \in Conns, Connected(c) PROVE NetOK'
    BY <2>1, GatewayAssumption DEF Connected, NetOK
  <2>2. ASSUME NEW c \in Conns, Refused(c) PROVE NetOK'
    BY <2>2 DEF Refused, NetOK
  <2>3. CASE Plug
    BY <2>3 DEF Plug, NetOK, net
  <2> QED
    BY <2>1, <2>2, <2>3
<1> QED
  BY <1>1, <1>2, <1>3

-----------------------------------------------------------------------------
(* Steps of the server.                                                    *)

LEMMA AcceptInv == ASSUME Inv, Accept PROVE Inv'
<1> USE DEF Inv
<1>1. PageOK'
  BY DEF Accept, PageOK, OneTimer, page
<1>2. Head(backlog) \in Conns /\ Tail(backlog) \in Seq(Conns) /\ Len(Tail(backlog)) <= Backlog
  BY GatewayAssumption DEF Accept, NetOK
<1>3. NetOK'
  BY <1>2 DEF Accept, NetOK
<1>4. clientId' \in Fds /\ table[clientId'] = Nil /\ clientId = Nil
  BY DEF Accept, LeastFree, Free, ServerOK
<1>5. table' = [table EXCEPT ![clientId'] = Head(backlog)] /\ sid' = sid
  BY DEF Accept
<1>6. TableOK(table', clientId', sid')
  BY <1>2, <1>4, <1>5, GatewayAssumption DEF ServerOK, TableOK
<1>7. ServerOK'
  BY <1>2, <1>4, <1>5, <1>6, GatewayAssumption DEF Accept, ServerOK, TableOK
<1> QED
  BY <1>1, <1>3, <1>7

LEMMA HeaderInv == ASSUME Inv, Header PROVE Inv'
<1> USE DEF Inv
<1>1. clientId \in Fds /\ clientId # Nil /\ table[clientId] \in Conns
  BY GatewayAssumption DEF Header, ServerOK, TableOK
<1>2. PageOK'
  BY DEF Header, PageOK, OneTimer, page
<1>3. NetOK'
  BY <1>1 DEF Header, Answer, NetOK
<1>4. ServerOK'
  <2>1. CASE table' = table /\ clientId' = clientId /\ pc' = "client"
    BY <1>1, <2>1 DEF Header, ServerOK
  <2>2. CASE table' = [table EXCEPT ![clientId] = Nil] /\ clientId' = Nil /\ pc' = "accept"
    BY <1>1, <2>2, ClosedClient DEF Header, ServerOK
  <2> QED
    BY <2>1, <2>2 DEF Header, Answer
<1> QED
  BY <1>2, <1>3, <1>4

LEMMA ClientInv ==
  ASSUME Inv, SelectFails \/ ClientLeaves \/ ClientQuiet
  PROVE  Inv'
<1> USE DEF Inv
<1>1. PageOK'
  BY DEF SelectFails, ClientLeaves, ClientQuiet, PageOK, OneTimer, page
<1>2. clientId \in Fds /\ clientId # Nil
  BY GatewayAssumption DEF SelectFails, ClientLeaves, ClientQuiet, ServerOK, TableOK
<1>3. CASE SelectFails
  <2>1. TableOK(table, Nil, sid)
    BY <1>2, <1>3, GatewayAssumption DEF SelectFails, ServerOK, TableOK
  <2> QED
    BY <1>1, <1>3, <2>1 DEF SelectFails, NetOK, net, ServerOK
<1>4. CASE ClientLeaves
  <2>1. ServerOK'
    BY <1>2, <1>4, ClosedClient DEF ClientLeaves, ServerOK
  <2>2. NetOK'
    BY <1>4 DEF ClientLeaves, NetOK
  <2> QED
    BY <1>1, <2>1, <2>2
<1>5. CASE ClientQuiet
  BY <1>1, <1>2, <1>5 DEF ClientQuiet, NetOK, net, ServerOK
<1> QED
  BY <1>3, <1>4, <1>5

LEMMA ReceiveInv == ASSUME Inv, Receive PROVE Inv'
<1> USE DEF Inv
<1>1. PageOK'
  BY DEF Receive, PageOK, OneTimer, page
<1>2. NetOK'
  BY DEF Receive, NetOK, net
<1>3. TableOK(table, clientId, sid) /\ clientId # Nil /\ table[clientId] # Nil
  BY DEF Receive, ServerOK
<1>4. Process(inbox[table[clientId]])
  BY DEF Receive
<1>5. TableOK(table', clientId, sid')
  BY <1>3, <1>4, ProcessOK
<1>6. ServerOK'
  BY <1>3, <1>5 DEF Receive, ServerOK
<1> QED
  BY <1>1, <1>2, <1>6

LEMMA SerialInv == ASSUME Inv, SerialByte \/ SerialQuiet PROVE Inv'
<1> USE DEF Inv
<1>1. PageOK'
  BY DEF SerialByte, SerialQuiet, PageOK, OneTimer, page
<1>2. NetOK'
  BY DEF SerialByte, SerialQuiet, NetOK, net
<1>3. clientId # Nil /\ TableOK(table, clientId, sid) /\ SbufSize \in Nat \ {0}
  BY GatewayAssumption DEF SerialByte, SerialQuiet, ServerOK
<1>4. CASE SerialByte
  <2>1. CASE sbuflen + 1 < SbufSize /\ sbuflen' = sbuflen + 1 /\ UNCHANGED <<pc, table>>
    <3>1. sbuflen' \in 0..SbufSize - 1
      BY <1>3, <2>1 DEF ServerOK
    <3> QED
      BY <1>1, <1>2, <1>4, <2>1, <3>1 DEF SerialByte, ServerOK
  <2>2. ASSUME sbuflen' = 0, pc' = "client", NEW ok \in Ok, table' = Sent(table, ok) PROVE Inv'
    <3>1. TableOK(table', clientId, sid)
      BY <1>3, <2>2, SentOK DEF Ok
    <3>2. sbuflen' \in 0..SbufSize - 1
      BY <1>3, <2>2
    <3> QED
      BY <1>1, <1>2, <1>3, <1>4, <2>2, <3>1, <3>2 DEF SerialByte, ServerOK
  <2> QED
    BY <1>4, <2>1, <2>2 DEF SerialByte
<1>5. CASE SerialQuiet
  <2>1. TableOK(table', clientId, sid')
    BY <1>3, <1>5, ClosedPort DEF SerialQuiet
  <2> QED
    BY <1>1, <1>2, <1>3, <1>5, <2>1 DEF SerialQuiet, ServerOK
<1> QED
  BY <1>4, <1>5

LEMMA DieInv == ASSUME Inv, Die \/ Start PROVE Inv'
<1> USE DEF Inv
<1>1. PageOK'
  BY DEF Die, Start, PageOK, OneTimer, page
<1>2. NetOK'
  <2>1. <<>> \in Seq(Conns) /\ Len(<<>>) <= Backlog
    BY GatewayAssumption
  <2>2. CASE Die
    <3>1. inbox' \in [Conns -> Messages \cup {"SERIALS", Nil}]
      BY <2>2 DEF Die
    <3> QED
      BY <2>1, <2>2, <3>1 DEF Die, NetOK
  <2>3. CASE Start
    BY <2>3 DEF Start, NetOK, net
  <2> QED
    BY <2>2, <2>3
<1>3. CASE Die
  BY <1>1, <1>2, <1>3, GatewayAssumption DEF Die, ServerOK, TableOK
<1>4. CASE Start
  BY <1>1, <1>2, <1>4 DEF Start, ServerOK
<1> QED
  BY <1>3, <1>4

LEMMA NextInv == ASSUME Inv, [Next]_vars PROVE Inv'
<1>1. CASE UNCHANGED vars
  BY <1>1 DEF vars, page, net, server, Inv, PageOK, OneTimer, NetOK, ServerOK
<1> QED
  BY <1>1, WsConnectInv, PageInv, KernelInv, AcceptInv, HeaderInv, ClientInv, ReceiveInv, SerialInv,
     DieInv DEF Next, Server

\* The invariant of the gateway and of its pages.
THEOREM GatewayInvariant == Spec => []Inv
BY InitInv, NextInv, PTL DEF Spec

\* Every variable keeps its type; the serial buffer does not overflow.
THEOREM GatewayTypes == Spec => []TypeOK
BY GatewayInvariant, InvImplies, PTL

\* The descriptor of the serial port never denotes a client.
THEOREM SerialIsPort == Spec => []SidIsPort
BY GatewayInvariant, InvImplies, PTL

\* Every path out of the service of a client closes its connection.
THEOREM NoConnectionIsLeft == Spec => []NoConnectionLeak
BY GatewayInvariant, InvImplies, PTL

\* A page that loses its connection has one timer, so that it connects once.
THEOREM PageHasOneTimer == Spec => []OneTimer
BY GatewayInvariant, InvImplies, PTL
=============================================================================
