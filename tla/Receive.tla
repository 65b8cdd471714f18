------------------------------ MODULE Receive ------------------------------
(***************************************************************************)
(* What the gateway makes of the frames it receives (processBuffer in      *)
(* ws/server/wsserver.c).  A frame is three cells of the stream: its first *)
(* byte, its second byte, and the rest.  The stream is cut into segments   *)
(* by the network; each recv() returns some cells, and is taken for one    *)
(* frame.                                                                  *)
(***************************************************************************)
EXTENDS Integers, Sequences

CONSTANTS
  Kinds,     \* kinds of frames that the client sends
  MaxFrames, \* frames that it sends
  Networks   \* what a recv() may return: one frame, whole frames, any cells

Ignored == {"fragment", "binary", "ping", "pong", "huge"}
Refused == {"extension", "unmasked", "continuation"}

ASSUME ReceiveAssumption ==
  /\ MaxFrames \in Nat /\ Networks \subseteq {"one", "whole", "any"}
  /\ Kinds \subseteq {"text", "closing"} \cup Ignored \cup Refused

VARIABLES
  network,  \* what a recv() returns in this behaviour
  sent,     \* the kind of each frame
  stream,   \* cells to receive: a frame and one of its parts
  handled,  \* frames given to onMessage; 0 for a text that is no frame
  replies,  \* closing frames sent back
  alive     \* the connection is open

receiveVars == <<network, sent, stream, handled, replies, alive>>

ReceiveInit ==
  /\ network \in Networks /\ sent = <<>> /\ stream = <<>>
  /\ handled = <<>> /\ replies = 0 /\ alive = TRUE

ClientSends ==
  /\ alive /\ Len(sent) < MaxFrames
  /\ \E k \in Kinds : sent' = Append(sent, k)
  /\ stream' = stream \o [part \in 1..3 |-> <<Len(sent'), part>>]
  /\ UNCHANGED <<network, handled, replies, alive>>

\* What becomes of a segment: the message it gives, the reply it gets, and
\* whether processBuffer asks that the connection be closed.
Nothing == [msg |-> <<>>, reply |-> 0, close |-> FALSE]
Message(k) == [Nothing EXCEPT !.msg = <<k>>]
Reply == [Nothing EXCEPT !.reply = 1]
Close == [Nothing EXCEPT !.close = TRUE]

\* What a frame whose two first bytes are there may give; if the rest of a text
\* is not there, its long length is missed, or what the buffer held is its data.
Framed(k, whole) ==
  CASE sent[k] = "text"    -> IF whole THEN {Message(k)} ELSE {Message(0), Nothing}
    [] sent[k] \in Ignored -> {Nothing}
    [] sent[k] \in Refused -> {Close}
    [] sent[k] = "closing" -> {Reply}

\* Mutant: the data is taken from the frame before.
OutcomesStale(cell, n) ==
  IF cell[2] # 1 THEN {Nothing, Message(0), Reply, Close}
  ELSE IF n < 2 THEN {Nothing}
  ELSE IF cell[1] > 1 /\ sent[cell[1]] = "text" THEN {Message(cell[1] - 1)}
  ELSE Framed(cell[1], n >= 3)

\* Mutant: no text is handled after a closing frame was sent back.
OutcomesDrop(cell, n) ==
  IF cell[2] # 1 THEN {Nothing, Message(0), Reply, Close}
  ELSE IF n < 2 THEN {Nothing}
  ELSE IF replies > 0 /\ sent[cell[1]] = "text" THEN {Nothing}
  ELSE Framed(cell[1], n >= 3)

\* processBuffer: masked data taken for the beginning of a frame may be
\* taken for anything.
Outcomes(cell, n) ==
  IF cell[2] # 1 THEN {Nothing, Message(0), Reply, Close}
  ELSE IF n < 2 THEN {Nothing}
  ELSE Framed(cell[1], n >= 3)

Returned ==
  CASE network = "one"   -> {3}
    [] network = "whole" -> {n \in 1..Len(stream) : n % 3 = 0}
    [] network = "any"   -> 1..Len(stream)

\* The server: recv(), then processBuffer.
ProcessBuffer ==
  /\ alive /\ stream # <<>>
  /\ \E n \in Returned :
       /\ stream' = SubSeq(stream, n + 1, Len(stream))
       /\ \E o \in Outcomes(Head(stream), n) :
            /\ handled' = handled \o o.msg /\ replies' = replies + o.reply
            /\ alive' = ~o.close
  /\ UNCHANGED <<network, sent>>

-----------------------------------------------------------------------------
Frames == 1..MaxFrames
IsText(k) == k <= Len(sent) /\ sent[k] = "text"
IsHandled(k) == \E j \in DOMAIN handled : handled[j] = k

\* With the types of the variables: unless a frame is cut, and whatever whole
\* frames come together, the messages handled are text frames that the client
\* sent, in their order and once each, and the connection is closed only because
\* of a frame that the server refuses.
HandledInOrder ==
  /\ sent \in UNION {[1..n -> Kinds] : n \in 0..MaxFrames}
  /\ stream \in Seq(Frames \X (1..3)) /\ handled \in Seq(0..MaxFrames)
  /\ replies \in 0..(3 * MaxFrames) /\ alive \in BOOLEAN
  /\ network # "any" =>
    /\ \A j \in DOMAIN handled :
         /\ IsText(handled[j])
         /\ \A l \in 1..(j - 1) : handled[l] < handled[j]
    /\ ~alive => \E k \in DOMAIN sent : sent[k] \in Refused
=============================================================================
