------------------------------ MODULE Channel -------------------------------
(***************************************************************************)
(* One connection of the gateway (main of ws/server/wsserver.c): the       *)
(* frames of the client (Receive) and the frames that the server builds    *)
(* from its answers and from the serial port (Frame).  The server is one   *)
(* thread: what comes from the client waits while a frame is built.        *)
(***************************************************************************)
EXTENDS Receive, Frame

channelVars == <<receiveVars, frameVars>>

ChannelInit == ReceiveInit /\ FrameInit

Client == ClientSends /\ UNCHANGED frameVars

\* The message of the client is processed, and onMessage answers or not.
Serve ==
  /\ stage = "read" /\ ProcessBuffer
  /\ \/ handled' # handled /\ SendText
     \/ UNCHANGED frameVars

\* The serial port is read only while there is a client.
Serial == (alive \/ stage # "read") /\ Advance /\ UNCHANGED receiveVars

ChannelNext == Client \/ Serve \/ Serial

\* The server goes on, and looks at the client after each frame it sends.
ChannelSpec ==
  /\ ChannelInit /\ [][ChannelNext]_channelVars
  /\ WF_channelVars(Serial /\ stage # "read") /\ SF_channelVars(Serve)

-----------------------------------------------------------------------------
\* When each frame comes alone, every text is handled at last, whatever came
\* before it and however much the serial port sends, unless the connection is
\* closed or the buffer of the frames exceeded.
TextIsHandled ==
  \A k \in Frames :
    network = "one" /\ IsText(k) ~> IsHandled(k) \/ ~alive \/ stage = "over"
=============================================================================
