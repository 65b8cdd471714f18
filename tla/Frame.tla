------------------------------- MODULE Frame -------------------------------
(***************************************************************************)
(* Frames that the gateway builds (ws/server/wsserver.c): the bytes of the *)
(* serial port gathered in sbuf, and the text of a frame appended piece by *)
(* piece in buffer.  A character of the text is its rank; 0 is any other   *)
(* content of the buffer.                                                  *)
(***************************************************************************)
EXTENDS Integers

CONSTANTS
  Size,      \* sizeof(buffer)
  Short,     \* least length that takes two more bytes of header: 126
  SbufSize,  \* sizeof(sbuf)
  Texts      \* lengths of the other messages

ASSUME FrameAssumption ==
  /\ Short \in Nat \ {0} /\ Size \in Nat /\ Size > Short + 8 /\ Size < 2^15
  /\ SbufSize \in Nat \ {0} /\ Texts \subseteq 1..(Short - 1)

\* Least length of a frame of the serial port with a longer header: it has "<",
\* then two characters for each byte.
First == IF Short % 2 = 1 THEN Short ELSE Short + 1

\* Such a frame then grows by 6, and so never leaves room for none or one of two
\* characters, of which vsnprintf would lose some: it would go on without them.
\* This depends on the sizes alone; it holds of those of the code, 512 and 126.
ASSUME SizeAssumption == (Size - First) % 6 \notin {2, 3}

VARIABLES
  sbuflen,
  frame,  \* buffer: code = buffer[1], ext = buffer[2..3], cell = all of it
  text,   \* auxiliary: characters that the frame should hold
  i,      \* bytes of sbuf printed
  stage   \* "read", "append", "ready" (to be sent), or "over": the buffer is exceeded

frameVars == <<sbuflen, frame, text, i, stage>>

Offset == 0..(Size - 1)

\* frameInit
New == [code |-> 0, ext |-> 0, cell |-> [o \in Offset |-> 0]]

\* frameDataLen
DataLen(f) == IF f.code < Short THEN f.code ELSE f.ext
Header(f) == IF DataLen(f) < Short THEN 2 ELSE 4
Flen(f) == DataLen(f) + Header(f)

\* vsnprintf: the text goes on at an offset, its end may be cut.
Printed(f, len, old) ==
  LET at == Flen(f)
  IN [o \in Offset |-> IF o \in at..(at + len - 1) /\ o # Size - 1
                       THEN old + o - at + 1 ELSE f.cell[o]]

\* memmove: the payload makes room for the longer header.
Moved(cell, dlen) ==
  [o \in Offset |-> IF o \in 4..(dlen + 3) THEN cell[o - 2] ELSE cell[o]]

\* The difference of the sizes is unsigned: it is large when negative.
TooLong(f, len) == Flen(f) <= Size /\ len > Size - Flen(f)
Exceeds(f, len) == Flen(f) > Size

\* Mutant: the payload is moved without the text that was just printed.
VPrintfMovesOld(f, len, old) ==
  LET cell == Printed(f, len, old)
      dlen == f.code + len
  IN IF TooLong(f, len) THEN [f EXCEPT !.cell = cell]
     ELSE IF f.code >= Short THEN [f EXCEPT !.cell = cell, !.ext = Flen(f) + len]
     ELSE IF dlen < Short THEN [f EXCEPT !.cell = cell, !.code = dlen]
     ELSE [code |-> Short, ext |-> dlen + 4, cell |-> Moved(cell, f.code)]

\* frameVPrintf
VPrintf(f, len, old) ==
  LET cell == Printed(f, len, old)
      dlen == f.code + len
  IN IF TooLong(f, len) THEN [f EXCEPT !.cell = cell]
     ELSE IF f.code >= Short THEN [f EXCEPT !.cell = cell, !.ext = Flen(f) + len]
     ELSE IF dlen < Short THEN [f EXCEPT !.cell = cell, !.code = dlen]
     ELSE [code |-> Short, ext |-> dlen + 4, cell |-> Moved(cell, dlen)]

-----------------------------------------------------------------------------
FrameInit == sbuflen = 0 /\ frame = New /\ text = 0 /\ i = 0 /\ stage = "read"

\* A byte of the serial port: the last one if it has its bit 7, or if sbuf
\* is full.  The frame is begun with "<".
ReadByte ==
  /\ stage = "read" /\ sbuflen' = sbuflen + 1
  /\ \E last \in BOOLEAN :
       IF last \/ sbuflen' >= SbufSize
       THEN /\ frame' = VPrintf(New, 1, 0) /\ text' = 1 /\ i' = 0
            /\ stage' = "append"
       ELSE UNCHANGED <<frame, text, i, stage>>

\* One byte of sbuf in hexadecimal, or the end of the loop.
AppendByte ==
  /\ stage = "append"
  /\ IF i = sbuflen
     THEN sbuflen' = 0 /\ stage' = "ready" /\ UNCHANGED <<frame, text, i>>
     ELSE /\ stage' = IF Exceeds(frame, 2) THEN "over" ELSE stage
          /\ frame' = VPrintf(frame, 2, text) /\ text' = text + 2 /\ i' = i + 1
          /\ UNCHANGED sbuflen

\* sendTextFrame
SendText ==
  /\ stage = "read" /\ \E n \in Texts : frame' = VPrintf(New, n, 0) /\ text' = n
  /\ i' = 0 /\ stage' = "ready" /\ UNCHANGED sbuflen

\* sendFrame
SendFrame ==
  /\ stage = "ready" /\ stage' = "read" /\ frame' = New /\ text' = 0 /\ i' = 0
  /\ UNCHANGED sbuflen

Advance == ReadByte \/ AppendByte \/ SendFrame

-----------------------------------------------------------------------------
Payload(f) == {o \in Offset : o >= Header(f) /\ o < Flen(f)}

\* With the types of the variables: as long as the buffer is not exceeded, no
\* character of a frame is overwritten, lost or out of order when the header
\* grows or a piece is appended: the payload that is sent holds the characters
\* printed.  In a frame of Short bytes or more there are gaps between them,
\* because of the length that frameVPrintf writes; a shorter one is exact.
TextInOrder ==
  LET held == {o \in Payload(frame) : frame.cell[o] # 0}
  IN /\ sbuflen \in 0..SbufSize /\ i \in 0..SbufSize
     /\ stage \in {"read", "append", "ready", "over"} /\ (stage = "read" => sbuflen < SbufSize)
     /\ frame.code \in 0..Short /\ frame.ext \in Nat /\ text \in Nat
     /\ stage = "ready" /\ Flen(frame) <= Size =>
       /\ {frame.cell[o] : o \in held} = 1..text
       /\ \A o, q \in held : o < q => frame.cell[o] < frame.cell[q]
       /\ text < Short => DataLen(frame) = text /\ \A k \in 1..text : frame.cell[k + 1] = k
=============================================================================
