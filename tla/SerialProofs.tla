---------------------------- MODULE SerialProofs ----------------------------
(***************************************************************************)
(* What goes through the two ends of a serial port: the channel between a  *)
(* client and the gateway, and the link of the page to its module.         *)
(***************************************************************************)
EXTENDS Channel, Link, SequenceTheorems, TLAPS

-----------------------------------------------------------------------------
(***************************************************************************)
(* The frames that the gateway receives, and those that it builds, for any *)
(* number of frames, and any sizes of the buffers that SizeAssumption      *)
(* allows.  The two are independent: an invariant for each, ReceiveInv and *)
(* FrameInv, that every step of either keeps.                              *)
(***************************************************************************)

Cell == Frames \X (1..3)

\* Where the stream is in what was sent: cell after cell, up to the last one.
StreamInv ==
  /\ sent \in Seq(Kinds) /\ Len(sent) <= MaxFrames
  /\ stream \in Seq(Cell) /\ Len(stream) <= 3 * Len(sent)
  /\ \A j \in DOMAIN stream :
       3 * (stream[j][1] - 1) + stream[j][2] = 3 * Len(sent) - Len(stream) + j

\* Without cuts, whole frames remain, and those handled come before them.
WholeInv ==
  network # "any" =>
    /\ Len(stream) % 3 = 0
    /\ \A j \in DOMAIN handled :
         /\ handled[j] \in 1..Len(sent) /\ sent[handled[j]] = "text"
         /\ 3 * handled[j] <= 3 * Len(sent) - Len(stream)
         /\ \A l \in 1..(j - 1) : handled[l] < handled[j]
    /\ ~alive => \E k \in DOMAIN sent : sent[k] \in Refused

ReceiveInv ==
  /\ network \in Networks /\ alive \in BOOLEAN
  /\ handled \in Seq(0..MaxFrames)
  /\ replies \in Nat /\ replies + Len(stream) <= 3 * Len(sent)
  /\ StreamInv /\ WholeInv

\* The numbers of a cell.
LEMMA CellNumbers ==
  ASSUME NEW c \in Cell
  PROVE  c[1] \in 1..MaxFrames /\ c[2] \in 1..3
BY DEF Cell, Frames

\* The stream is cut by three, and its first cell begins a frame.
LEMMA Thirds ==
  ASSUME NEW N \in Nat, NEW L \in Nat, NEW n \in 0..L, L % 3 = 0, n % 3 = 0
  PROVE  /\ (L - n) % 3 = 0
         /\ \A f \in Int, part \in 1..3 :
              3 * (f - 1) + part = 3 * N - L + 1 => part = 1 /\ 3 * f = 3 * N - L + 3
<1>1. PICK q \in Int : L = 3 * q
  OBVIOUS
<1>2. PICK r \in Int : n = 3 * r
  OBVIOUS
<1>3. L - n = 3 * (q - r) /\ q - r \in Int
  BY <1>1, <1>2
<1>4. (L - n) % 3 = 0
  BY <1>3
<1>5. ASSUME NEW f \in Int, NEW part \in 1..3, 3 * (f - 1) + part = 3 * N - L + 1
      PROVE  part = 1 /\ 3 * f = 3 * N - L + 3
  <2>1. 3 * (f - 1 - N + q) = 1 - part
    BY <1>1, <1>5
  <2> QED
    BY <1>1, <1>5, <2>1
<1> QED
  BY <1>4, <1>5

LEMMA ReceiveInitInv == ReceiveInit => ReceiveInv
<1> SUFFICES ASSUME ReceiveInit PROVE ReceiveInv
  OBVIOUS
<1>1. /\ sent = <<>> /\ stream = <<>> /\ handled = <<>> /\ replies = 0 /\ alive = TRUE
      /\ network \in Networks
  BY DEF ReceiveInit
<1>2. /\ <<>> \in Seq(Kinds) /\ <<>> \in Seq(Cell) /\ <<>> \in Seq(0..MaxFrames)
      /\ Len(<<>>) = 0 /\ DOMAIN <<>> = {}
  OBVIOUS
<1> QED
  BY <1>1, <1>2, ReceiveAssumption DEF ReceiveInv, StreamInv, WholeInv

LEMMA ClientSendsInv == ASSUME ReceiveInv, ClientSends PROVE ReceiveInv'
<1> DEFINE new == [part \in 1..3 |-> <<Len(sent'), part>>]
           N == Len(sent)
           L == Len(stream)
<1>1. PICK k \in Kinds : sent' = Append(sent, k)
  BY DEF ClientSends
<1>2. /\ N \in Nat /\ N < MaxFrames /\ MaxFrames \in Nat /\ L \in Nat
      /\ sent \in Seq(Kinds) /\ stream \in Seq(Cell)
      /\ UNCHANGED <<network, handled, replies, alive>> /\ stream' = stream \o new
  BY ReceiveAssumption DEF ClientSends, ReceiveInv, StreamInv
<1>3. /\ sent' \in Seq(Kinds) /\ Len(sent') = N + 1
      /\ \A j \in 1..N : sent'[j] = sent[j]
  BY <1>1, <1>2
<1>4. /\ new \in Seq(Cell) /\ Len(new) = 3
      /\ \A part \in 1..3 : new[part] = <<N + 1, part>>
  <2>1. new = [part \in 1..3 |-> <<N + 1, part>>]
    BY <1>3
  <2>2. \A part \in 1..3 : <<N + 1, part>> \in Cell
    BY <1>2 DEF Cell, Frames
  <2> HIDE DEF new
  <2>3. new \in [1..3 -> Cell] /\ DOMAIN new = 1..3
    BY <2>1, <2>2
  <2> QED
    BY <2>1, <2>3
<1> HIDE DEF new
<1>5. /\ stream' \in Seq(Cell) /\ Len(stream') = L + 3
      /\ \A j \in 1..(L + 3) : stream'[j] = IF j <= L THEN stream[j] ELSE new[j - L]
  <2>1. /\ stream \o new \in Seq(Cell) /\ Len(stream \o new) = Len(stream) + Len(new)
        /\ \A j \in 1..(Len(stream) + Len(new)) : (stream \o new)[j] =
             IF j <= Len(stream) THEN stream[j] ELSE new[j - Len(stream)]
    <3>1. stream \in Seq(Cell) /\ new \in Seq(Cell)
      BY <1>2, <1>4
    <3> QED
      BY ONLY <3>1, ConcatProperties
  <2> QED
    BY <1>2, <1>4, <2>1
<1>6. StreamInv'
  <2>1. ASSUME NEW j \in 1..(L + 3)
        PROVE  3 * (stream'[j][1] - 1) + stream'[j][2] = 3 * (N + 1) - (L + 3) + j
    <3>1. CASE j <= L
      <4>1. j \in DOMAIN stream
        BY <1>2, <2>1, <3>1
      <4>2. stream[j] \in Cell
        BY <1>2, <4>1
      <4>3. stream[j][1] \in Int /\ stream[j][2] \in Int
        BY <4>2, <1>2 DEF Cell, Frames
      <4> QED
        BY <1>2, <1>5, <3>1, <4>1, <4>3 DEF ReceiveInv, StreamInv
    <3>2. CASE j > L
      <4>1. j - L \in 1..3
        BY <1>2, <3>2
      <4>2. stream'[j] = <<N + 1, j - L>>
        BY <1>2, <1>4, <1>5, <3>2, <4>1
      <4>3. stream'[j][1] = N + 1 /\ stream'[j][2] = j - L
        BY <4>2
      <4> QED
        BY <1>2, <4>3
    <3>3. j \in Int /\ L \in Nat
      BY <1>2
    <3> QED
      BY <3>1, <3>2, <3>3
  <2>2. DOMAIN stream' = 1..(L + 3)
    BY <1>5
  <2>3. L + 3 <= 3 * (N + 1) /\ N + 1 <= MaxFrames
    BY <1>2 DEF ReceiveInv, StreamInv
  <2> QED
    BY <1>3, <1>5, <2>1, <2>2, <2>3 DEF StreamInv
<1>7. WholeInv'
  <2> SUFFICES ASSUME network # "any"
      PROVE  /\ Len(stream') % 3 = 0
             /\ \A j \in DOMAIN handled :
                  /\ handled[j] \in 1..Len(sent') /\ sent'[handled[j]] = "text"
                  /\ 3 * handled[j] <= 3 * Len(sent') - Len(stream')
                  /\ \A l \in 1..(j - 1) : handled[l] < handled[j]
             /\ ~alive => \E m \in DOMAIN sent' : sent'[m] \in Refused
    BY <1>2 DEF WholeInv
  <2>1. L % 3 = 0
    BY DEF ReceiveInv, WholeInv
  <2>2. Len(stream') % 3 = 0
    BY <1>2, <1>5, <2>1
  <2>3. 3 * Len(sent') - Len(stream') = 3 * N - L
    BY <1>2, <1>3, <1>5
  <2>4. DOMAIN sent' = 1..(N + 1) /\ DOMAIN sent = 1..N
    BY <1>2, <1>3
  <2>5. ASSUME NEW j \in DOMAIN handled
        PROVE  /\ handled[j] \in 1..(N + 1) /\ sent'[handled[j]] = "text"
               /\ 3 * handled[j] <= 3 * N - L
               /\ \A l \in 1..(j - 1) : handled[l] < handled[j]
    <3>1. /\ handled[j] \in 1..N /\ sent[handled[j]] = "text"
          /\ 3 * handled[j] <= 3 * N - L
          /\ \A l \in 1..(j - 1) : handled[l] < handled[j]
      BY DEF ReceiveInv, WholeInv
    <3> QED
      BY <3>1, <1>2, <1>3
  <2>6. ~alive => \E m \in DOMAIN sent' : sent'[m] \in Refused
    BY <1>2, <1>3, <2>4 DEF ReceiveInv, WholeInv
  <2> QED
    BY <1>3, <2>2, <2>3, <2>5, <2>6
<1>8. replies + Len(stream') <= 3 * Len(sent')
  BY <1>2, <1>3, <1>5 DEF ReceiveInv
<1> QED
  BY <1>2, <1>6, <1>7, <1>8 DEF ReceiveInv

\* What processBuffer makes of a segment that begins with this cell.
LEMMA OutcomesAre ==
  ASSUME NEW cell \in Cell, NEW n \in Nat, cell[1] <= Len(sent), sent \in Seq(Kinds),
         NEW o \in Outcomes(cell, n)
  PROVE  /\ o.msg \in {<<>>, <<0>>, <<cell[1]>>} /\ o.reply \in {0, 1} /\ o.close \in BOOLEAN
         /\ cell[2] = 1 /\ n >= 3 =>
              /\ o.msg # <<>> => o.msg = <<cell[1]>> /\ sent[cell[1]] = "text"
              /\ o.close => sent[cell[1]] \in Refused
<1>0. /\ Nothing.msg = <<>> /\ Nothing.reply = 0 /\ Nothing.close = FALSE
      /\ \A k : Message(k).msg = <<k>> /\ Message(k).reply = 0 /\ Message(k).close = FALSE
      /\ Reply.msg = <<>> /\ Reply.reply = 1 /\ Reply.close = FALSE
      /\ Close.msg = <<>> /\ Close.reply = 0 /\ Close.close = TRUE
  BY DEF Nothing, Message, Reply, Close
<1>1. CASE cell[2] # 1
  <2>1. o \in {Nothing, Message(0), Reply, Close}
    BY <1>1 DEF Outcomes
  <2> QED
    BY <1>0, <1>1, <2>1
<1>2. CASE cell[2] = 1 /\ n < 2
  <2>1. o = Nothing
    BY <1>2 DEF Outcomes
  <2> QED
    BY <1>0, <1>2, <2>1
<1>3. CASE cell[2] = 1 /\ n >= 2
  <2> DEFINE k == cell[1]
             whole == n >= 3
  <2>1. o \in Framed(k, whole)
    BY <1>3 DEF Outcomes
  <2>2. k \in 1..Len(sent) /\ sent[k] \in Kinds
    BY DEF Cell, Frames
  <2>3. sent[k] \in {"text", "closing"} \cup Ignored \cup Refused
    BY <2>2, ReceiveAssumption
  <2> HIDE DEF k
  <2>4. CASE sent[k] = "text"
    <3>1. o = Message(0) \/ o = Nothing \/ (whole /\ o = Message(k))
      BY <2>1, <2>4 DEF Framed, Ignored, Refused
    <3>2. whole => o = Message(k)
      BY <2>1, <2>4 DEF Framed, Ignored, Refused
    <3> QED
      BY <1>0, <3>1, <3>2, <2>4, <1>3 DEF k
  <2>5. CASE sent[k] \in Ignored
    <3>1. o = Nothing
      BY <2>1, <2>5 DEF Framed, Ignored, Refused
    <3> QED
      BY <1>0, <3>1
  <2>6. CASE sent[k] \in Refused
    <3>1. o = Close
      BY <2>1, <2>6 DEF Framed, Ignored, Refused
    <3> QED
      BY <1>0, <3>1, <2>6 DEF k
  <2>7. CASE sent[k] = "closing"
    <3>1. o = Reply
      BY <2>1, <2>7 DEF Framed, Ignored, Refused
    <3> QED
      BY <1>0, <3>1
  <2> QED
    BY <2>3, <2>4, <2>5, <2>6, <2>7
<1> QED
  BY <1>1, <1>2, <1>3

\* A segment is taken from the stream.
LEMMA ProcessBufferInv == ASSUME ReceiveInv, ProcessBuffer PROVE ReceiveInv'
<1> DEFINE N == Len(sent)
           L == Len(stream)
           cell == Head(stream)
<1>0. PICK n \in Returned :
        /\ stream' = SubSeq(stream, n + 1, L)
        /\ \E o \in Outcomes(cell, n) :
             /\ handled' = handled \o o.msg /\ replies' = replies + o.reply
             /\ alive' = ~o.close
  BY DEF ProcessBuffer
<1>1. PICK o \in Outcomes(cell, n) :
        /\ handled' = handled \o o.msg /\ replies' = replies + o.reply
        /\ alive' = ~o.close
  BY <1>0
<1>2. /\ UNCHANGED <<network, sent>> /\ alive = TRUE
      /\ N \in Nat /\ N <= MaxFrames /\ MaxFrames \in Nat
      /\ sent \in Seq(Kinds) /\ stream \in Seq(Cell) /\ handled \in Seq(0..MaxFrames)
      /\ L \in Nat /\ L > 0 /\ L <= 3 * N /\ network \in {"one", "whole", "any"}
  BY ReceiveAssumption, SMTT(30) DEF ProcessBuffer, ReceiveInv, StreamInv
<1>3. n \in 1..L /\ (network # "any" => n % 3 = 0 /\ n >= 3)
  <2>1. CASE network = "one"
    <3>1. n = 3
      BY <2>1 DEF Returned
    <3>2. L % 3 = 0
      BY <2>1 DEF ReceiveInv, WholeInv
    <3> QED
      BY <3>1, <3>2, <1>2
  <2>2. CASE network = "whole"
    <3>1. n \in 1..L /\ n % 3 = 0
      BY <2>2 DEF Returned
    <3> QED
      BY <3>1, <1>2, SMTT(30)
  <2>3. CASE network = "any"
    BY <1>2, <2>3 DEF Returned
  <2> QED
    BY <1>2, <2>1, <2>2, <2>3
<1>4. /\ cell \in Cell /\ cell[1] \in 1..MaxFrames /\ cell[2] \in 1..3
      /\ 3 * (cell[1] - 1) + cell[2] = 3 * N - L + 1
  <2>1. 1 \in DOMAIN stream /\ cell = stream[1]
    BY <1>2
  <2>2. cell \in Cell
    BY <1>2, <2>1
  <2>3. cell[1] \in 1..MaxFrames /\ cell[2] \in 1..3
    BY <2>2, CellNumbers
  <2> QED
    BY <1>2, <2>1, <2>2, <2>3 DEF ReceiveInv, StreamInv
<1>5. cell[1] <= N
  BY <1>2, <1>4, SMTT(30)
<1> HIDE DEF cell
<1>6. /\ o.msg \in {<<>>, <<0>>, <<cell[1]>>} /\ o.reply \in {0, 1} /\ o.close \in BOOLEAN
      /\ cell[2] = 1 /\ n >= 3 =>
           /\ o.msg # <<>> => o.msg = <<cell[1]>> /\ sent[cell[1]] = "text"
           /\ o.close => sent[cell[1]] \in Refused
  BY <1>1, <1>2, <1>3, <1>4, <1>5, OutcomesAre
<1>7. /\ stream' \in Seq(Cell) /\ Len(stream') = L - n
      /\ \A j \in 1..(L - n) : stream'[j] = stream[n + j]
  <2>1. \A j \in (n + 1)..L : stream[j] \in Cell
    BY <1>2, <1>3
  <2> QED
    BY <1>0, <1>2, <1>3, <2>1, SubSeqProperties
<1>11. /\ N \in Nat /\ L \in Nat /\ L <= 3 * N /\ MaxFrames \in Nat
       /\ n \in 1..L /\ n \in 0..L /\ Len(stream') = L - n
  BY <1>2, <1>3, <1>7
<1>8. StreamInv'
  <2>1. ASSUME NEW j \in 1..(L - n)
        PROVE  3 * (stream'[j][1] - 1) + stream'[j][2] = 3 * N - (L - n) + j
    <3>1. n + j \in DOMAIN stream /\ stream'[j] = stream[n + j]
      BY <1>2, <1>3, <1>7
    <3>2. stream[n + j] \in Cell
      BY <1>2, <3>1
    <3>3. stream[n + j][1] \in Int /\ stream[n + j][2] \in Int
      BY <3>2, CellNumbers
    <3>4. 3 * (stream[n + j][1] - 1) + stream[n + j][2] = 3 * N - L + (n + j)
      BY <3>1 DEF ReceiveInv, StreamInv
    <3> QED
      BY <1>2, <1>3, <3>1, <3>3, <3>4
  <2>2. DOMAIN stream' = 1..(L - n)
    BY <1>7
  <2>3. Len(stream') <= 3 * N /\ 3 * N - Len(stream') = 3 * N - (L - n)
    BY <1>11
  <2>4. sent' = sent /\ sent \in Seq(Kinds) /\ Len(sent) <= MaxFrames /\ stream' \in Seq(Cell)
    BY <1>2, <1>7
  <2> QED
    BY <2>1, <2>2, <2>3, <2>4 DEF StreamInv
<1>9. handled' \in Seq(0..MaxFrames) /\ replies' \in Nat /\ replies' + Len(stream') <= 3 * N
  <2>1. o.msg \in Seq(0..MaxFrames)
    <3>1. cell[1] \in 0..MaxFrames /\ 0 \in 0..MaxFrames
      BY <1>2, <1>4
    <3>2. CASE o.msg = <<>>
      BY <3>2
    <3>3. CASE o.msg = <<0>>
      BY <3>1, <3>3
    <3>4. CASE o.msg = <<cell[1]>>
      BY <3>1, <3>4
    <3> QED
      BY <1>6, <3>2, <3>3, <3>4
  <2>2. handled' \in Seq(0..MaxFrames)
    BY <1>1, <1>2, <2>1, ConcatProperties
  <2>3. replies \in Nat /\ replies + L <= 3 * N
    BY DEF ReceiveInv
  <2>4. replies' = replies + o.reply /\ o.reply \in {0, 1}
    BY <1>1, <1>6
  <2> QED
    BY <1>11, <2>2, <2>3, <2>4, SMTT(30)
<1>10. WholeInv'
  <2> SUFFICES ASSUME network # "any"
      PROVE  /\ Len(stream') % 3 = 0
             /\ \A j \in DOMAIN handled' :
                  /\ handled'[j] \in 1..N /\ sent[handled'[j]] = "text"
                  /\ 3 * handled'[j] <= 3 * N - Len(stream')
                  /\ \A l \in 1..(j - 1) : handled'[l] < handled'[j]
             /\ ~alive' => \E m \in DOMAIN sent : sent[m] \in Refused
    BY <1>2 DEF WholeInv
  <2>1. L % 3 = 0 /\ n % 3 = 0 /\ n >= 3
    BY <1>3 DEF ReceiveInv, WholeInv
  <2>2. Len(stream') % 3 = 0
    BY <1>11, <2>1, Thirds
  <2>3. cell[2] = 1 /\ 3 * cell[1] = 3 * N - L + 3 /\ cell[1] \in 1..N
    <3>1. cell[2] = 1 /\ 3 * cell[1] = 3 * N - L + 3
      <4>1. cell[1] \in Int /\ cell[2] \in 1..3 /\ 3 * (cell[1] - 1) + cell[2] = 3 * N - L + 1
        BY <1>4, <1>11
      <4> QED
        BY <1>11, <2>1, <4>1, Thirds
    <3> QED
      BY <1>4, <1>5, <3>1
  <2>4. ~alive' => \E m \in DOMAIN sent : sent[m] \in Refused
    <3>1. cell[1] \in DOMAIN sent
      BY <1>2, <2>3
    <3> QED
      BY <1>1, <1>6, <2>1, <2>3, <3>1
  <2>5. \A j \in DOMAIN handled :
          /\ handled[j] \in 1..N /\ sent[handled[j]] = "text" /\ 3 * handled[j] <= 3 * N - L
          /\ \A l \in 1..(j - 1) : handled[l] < handled[j]
    BY DEF ReceiveInv, WholeInv
  <2>6. CASE o.msg = <<>>
    <3>1. handled' = handled
      BY <1>1, <1>2, <2>6, ConcatEmptySeq
    <3> QED
      BY <1>2, <1>3, <1>7, <2>2, <2>4, <2>5, <3>1, SMTT(30)
  <2>7. CASE o.msg # <<>>
    <3> DEFINE f == cell[1]
               H == Len(handled)
    <3>1. f \in 1..N /\ sent[f] = "text" /\ o.msg = <<f>> /\ f \in 0..MaxFrames
      BY <1>2, <1>6, <2>1, <2>3, <2>7
    <3> HIDE DEF f
    <3>2. handled' = Append(handled, f)
      BY <1>1, <1>2, <3>1, AppendIsConcat
    <3>3. /\ DOMAIN handled' = 1..(H + 1) /\ DOMAIN handled = 1..H /\ H \in Nat
          /\ handled'[H + 1] = f /\ \A j \in 1..H : handled'[j] = handled[j]
      BY <1>2, <3>1, <3>2
    <3>4. \A j \in 1..H : 3 * handled[j] <= 3 * N - L /\ handled[j] \in 1..N
      BY <2>5, <3>3
    <3>5. 3 * f = 3 * N - L + 3
      BY <2>3 DEF f
    <3>6. 3 * N - L + 3 <= 3 * N - Len(stream')
      BY <1>2, <1>3, <1>7, <2>1
    <3>7. ASSUME NEW j \in 1..(H + 1)
          PROVE  /\ handled'[j] \in 1..N /\ sent[handled'[j]] = "text"
                 /\ 3 * handled'[j] <= 3 * N - Len(stream')
                 /\ \A l \in 1..(j - 1) : handled'[l] < handled'[j]
      <4>1. CASE j = H + 1
        <5>1. \A l \in 1..H : handled[l] < f
          <6>1. ASSUME NEW l \in 1..H PROVE handled[l] < f
            <7>1. handled[l] \in Int /\ 3 * handled[l] <= 3 * N - L
              BY <3>4
            <7>2. f \in Int /\ 3 * N - L \in Int
              BY <1>2, <3>1
            <7> QED
              BY <3>5, <7>1, <7>2
          <6> QED
            BY <6>1
        <5> QED
          BY <1>2, <1>7, <1>3, <3>1, <3>3, <3>5, <3>6, <4>1, <5>1, SMTT(30)
      <4>2. CASE j \in 1..H
        <5>1. /\ handled'[j] = handled[j] /\ j \in DOMAIN handled
              /\ \A l \in 1..(j - 1) : handled'[l] = handled[l]
          BY <3>3, <4>2
        <5> QED
          <6>1. /\ handled[j] \in 1..N /\ sent[handled[j]] = "text" /\ 3 * handled[j] <= 3 * N - L
                /\ \A l \in 1..(j - 1) : handled[l] < handled[j]
            BY <2>5, <5>1
          <6>2. 3 * handled[j] <= 3 * N - Len(stream')
            BY <1>11, <6>1, SMTT(30)
          <6> QED
            BY <5>1, <6>1, <6>2
      <4> QED
        BY <3>3, <4>1, <4>2
    <3> QED
      BY <2>2, <2>4, <3>3, <3>7
  <2> QED
    BY <2>6, <2>7
<1> QED
  BY <1>1, <1>2, <1>6, <1>8, <1>9, <1>10 DEF ReceiveInv

LEMMA ReceiveIsInOrder == ReceiveInv => HandledInOrder
<1> SUFFICES ASSUME ReceiveInv PROVE HandledInOrder
  OBVIOUS
<1> DEFINE N == Len(sent)
<1>1. /\ sent \in Seq(Kinds) /\ N \in Nat /\ N <= MaxFrames /\ MaxFrames \in Nat
      /\ stream \in Seq(Frames \X (1..3)) /\ handled \in Seq(0..MaxFrames)
      /\ replies \in Nat /\ alive \in BOOLEAN
  BY ReceiveAssumption DEF ReceiveInv, StreamInv, Cell
<1>2. sent \in UNION {[1..n -> Kinds] : n \in 0..MaxFrames}
  <2>1. N \in 0..MaxFrames /\ sent \in [1..N -> Kinds]
    BY <1>1
  <2> QED
    BY <2>1
<1>3. replies \in 0..(3 * MaxFrames)
  <2>1. replies + Len(stream) <= 3 * N /\ Len(stream) \in Nat
    BY <1>1 DEF ReceiveInv
  <2> QED
    BY <1>1, <2>1
<1>4. network # "any" =>
        /\ \A j \in DOMAIN handled :
             /\ IsText(handled[j])
             /\ \A l \in 1..(j - 1) : handled[l] < handled[j]
        /\ ~alive => \E k \in DOMAIN sent : sent[k] \in Refused
  BY DEF ReceiveInv, WholeInv, IsText
<1> QED
  BY <1>1, <1>2, <1>3, <1>4 DEF HandledInOrder

LEMMA ChannelReceives ==
  /\ ChannelInit => ReceiveInv
  /\ ReceiveInv /\ [ChannelNext]_channelVars => ReceiveInv'
<1>1. ChannelInit => ReceiveInv
  BY ReceiveInitInv DEF ChannelInit
<1>2. ASSUME ReceiveInv, [ChannelNext]_channelVars PROVE ReceiveInv'
  <2>1. CASE UNCHANGED receiveVars
    BY <1>2, <2>1 DEF receiveVars, ReceiveInv, StreamInv, WholeInv
  <2>2. CASE Client
    BY <1>2, <2>2, ClientSendsInv DEF Client
  <2>3. CASE Serve
    BY <1>2, <2>3, ProcessBufferInv DEF Serve
  <2> QED
    BY <1>2, <2>1, <2>2, <2>3 DEF ChannelNext, Serial, channelVars
<1> QED
  BY <1>1, <1>2

\* Whatever frames the client sends, and however many come together, the texts
\* are handled in order and once each as long as no frame is cut; a connection
\* is closed for a refused frame only.
THEOREM FramesAreHandledInOrder == ChannelSpec => []HandledInOrder
BY ChannelReceives, ReceiveIsInOrder, PTL DEF ChannelSpec
-----------------------------------------------------------------------------
(* The frames that the server builds.                                      *)

FrameType == [code : 0..Short, ext : Nat, cell : [Offset -> Nat]]

\* A frame of n characters with the short header: they follow each other.
Flat(f, n) ==
  /\ n < Short /\ f.code = n
  /\ f.cell = [o \in Offset |-> IF o \in 2..(n + 1) THEN o - 1 ELSE 0]

\* A frame of n characters with the long header, unless it exceeds the buffer:
\* nothing follows the end that it announces, and it holds them in order.
Long(f, n) ==
  /\ f.code = Short /\ f.ext >= First + 4 /\ (f.ext - First) % 6 = 4
  /\ f.ext + 4 <= Size =>
       /\ n >= Short
       /\ \A o \in Offset : o >= f.ext + 4 => f.cell[o] = 0
       /\ \A o \in Offset : o >= 4 => f.cell[o] <= n
       /\ \A k \in 1..n : \E o \in 4..(f.ext + 3) : f.cell[o] = k
       /\ \A o, q \in Offset :
            4 <= o /\ o < q /\ f.cell[o] # 0 /\ f.cell[q] # 0 => f.cell[o] < f.cell[q]

FrameInv ==
  /\ sbuflen \in 0..SbufSize /\ i \in 0..SbufSize
  /\ stage \in {"read", "append", "ready", "over"}
  /\ stage \in {"read", "ready"} => sbuflen < SbufSize
  /\ stage = "append" => i <= sbuflen
  /\ text \in Nat /\ frame \in FrameType
  /\ stage = "append" => Long(frame, text) \/ (Flat(frame, text) /\ text % 2 = 1)
  /\ stage = "ready" => Long(frame, text) \/ Flat(frame, text)

LEMMA Sizes ==
  /\ Short \in Nat /\ Short > 0 /\ Size \in Nat /\ Size > Short + 8 /\ SbufSize \in Nat
  /\ SbufSize > 0 /\ First \in {Short, Short + 1} /\ First % 2 = 1 /\ First \in Nat
<1>1. Short \in Nat /\ Short > 0 /\ Size \in Nat /\ Size > Short + 8 /\ SbufSize \in Nat /\ SbufSize > 0
  BY FrameAssumption
<1>2. (Short % 2 = 1) \/ (Short % 2 # 1 /\ (Short + 1) % 2 = 1)
  BY <1>1
<1> QED
  BY <1>1, <1>2 DEF First

LEMMA NewIsFlat == New \in FrameType /\ Flat(New, 0)
<1>1. 0 \in 0..Short /\ 0 < Short
  BY Sizes
<1>2. New.cell = [o \in Offset |-> IF o \in 2..(0 + 1) THEN o - 1 ELSE 0]
  BY DEF New
<1> QED
  BY <1>1, <1>2 DEF New, FrameType, Flat

\* What vsnprintf leaves in the buffer after the characters of a short frame.
LEMMA FlatPrinted ==
  ASSUME NEW f \in FrameType, NEW n \in Nat, Flat(f, n), NEW len \in Nat, n + len <= Short + 1
  PROVE  /\ Printed(f, len, n) = [o \in Offset |-> IF o \in 2..(n + len + 1) THEN o - 1 ELSE 0]
         /\ ~TooLong(f, len)
<1>1. Flen(f) = n + 2
  BY Sizes DEF Flen, Header, DataLen, Flat
<1>2. ~TooLong(f, len)
  BY <1>1, Sizes DEF TooLong
<1>3. ASSUME NEW o \in Offset
      PROVE  (IF o \in (n + 2)..(n + 2 + len - 1) /\ o # Size - 1 THEN n + o - (n + 2) + 1 ELSE f.cell[o])
             = IF o \in 2..(n + len + 1) THEN o - 1 ELSE 0
  <2>1. f.cell[o] = IF o \in 2..(n + 1) THEN o - 1 ELSE 0
    BY DEF Flat
  <2>2. o \in Nat
    BY Sizes DEF Offset
  <2> QED
    BY <2>1, <2>2, Sizes
<1> QED
  BY <1>1, <1>2, <1>3 DEF Printed

\* A piece printed in a short frame makes a short frame, or the first long one.
LEMMA FlatGrows ==
  ASSUME NEW f \in FrameType, NEW n \in Nat, Flat(f, n), NEW len \in Nat \ {0},
         n + len < Short \/ n + len = First
  PROVE  /\ VPrintf(f, len, n) \in FrameType
         /\ n + len < Short => Flat(VPrintf(f, len, n), n + len)
         /\ n + len >= Short => Long(VPrintf(f, len, n), n + len)
<1> DEFINE m == n + len
           cell == [o \in Offset |-> IF o \in 2..(m + 1) THEN o - 1 ELSE 0]
           g == VPrintf(f, len, n)
<1>1. m \in Nat /\ m <= Short + 1 /\ m + 9 <= Size + 1 /\ f.code = n /\ n < Short
  BY Sizes DEF Flat
<1>2. Printed(f, len, n) = cell /\ ~TooLong(f, len)
  BY <1>1, FlatPrinted
<1>3. cell \in [Offset -> Nat]
  <2>1. \A o \in Offset : (IF o \in 2..(m + 1) THEN o - 1 ELSE 0) \in Nat
    BY Sizes DEF Offset
  <2> QED
    BY <2>1
<1>6. f.code + len = m /\ ~(f.code >= Short) /\ Short \in Nat
  BY <1>1, Sizes
<1> HIDE DEF m
<1>4. CASE m < Short
  <2>1. g = [f EXCEPT !.cell = cell, !.code = m]
    <3>1. g = [f EXCEPT !.cell = Printed(f, len, n), !.code = f.code + len]
      BY <1>2, <1>4, <1>6 DEF VPrintf
    <3> QED
      BY <3>1, <1>2, <1>6
  <2> HIDE DEF g, cell
  <2>2. g = [code |-> m, ext |-> f.ext, cell |-> cell] /\ m \in 0..Short /\ f.ext \in Nat
    <3>1. f = [code |-> f.code, ext |-> f.ext, cell |-> f.cell] /\ f.ext \in Nat
      BY DEF FrameType
    <3>2. m \in 0..Short
      BY <1>1, <1>4, <1>6
    <3> QED
      BY <2>1, <3>1, <3>2
  <2>3. g \in FrameType
    BY <2>2, <1>3 DEF FrameType, cell
  <2>4. Flat(g, m)
    BY <2>2, <1>4 DEF Flat, cell
  <2>5. g \in FrameType /\ (m < Short => Flat(g, m)) /\ (m >= Short => Long(g, m))
    BY <2>3, <2>4, <1>4, <1>1, <1>6
  <2> QED
    BY <2>5 DEF m, g
<1>5. CASE m >= Short
  <2>1. g = [code |-> Short, ext |-> m + 4, cell |-> Moved(cell, m)] /\ m = First
    <3>1. ~(m < Short)
      BY <1>1, <1>5, <1>6
    <3>2. g = [code |-> Short, ext |-> f.code + len + 4, cell |-> Moved(Printed(f, len, n), f.code + len)]
      BY <3>1, <1>2, <1>6 DEF VPrintf
    <3>3. m = First
      BY <3>1 DEF m
    <3> QED
      BY <3>2, <3>3, <1>2, <1>6
  <2> DEFINE moved == Moved(cell, m)
  <2>2. ASSUME NEW o \in Offset
        PROVE  moved[o] = IF o \in 4..(m + 3) THEN o - 3 ELSE IF o \in 2..(m + 1) THEN o - 1 ELSE 0
    <3>1. moved[o] = IF o \in 4..(m + 3) THEN cell[o - 2] ELSE cell[o]
      BY DEF Moved
    <3>2. o \in Nat /\ (o >= 4 => o - 2 \in Offset)
      BY Sizes DEF Offset
    <3>3. CASE o \in 4..(m + 3)
      <4>1. moved[o] = IF o - 2 \in 2..(m + 1) THEN o - 2 - 1 ELSE 0
        BY <3>1, <3>2, <3>3, <1>1
      <4> QED
        BY <4>1, <3>2, <3>3, <1>1
    <3>4. CASE o \notin 4..(m + 3)
      BY <3>1, <3>4
    <3> QED
      BY <3>3, <3>4
  <2>3. moved \in [Offset -> Nat]
    <3>1. \A o \in Offset : moved[o] \in Nat
      BY <2>2, <1>1, Sizes DEF Offset
    <3>2. moved = [o \in Offset |-> moved[o]]
      BY DEF Moved
    <3> QED
      BY <3>1, <3>2
  <2> HIDE DEF g, moved, cell
  <2>4. g.code = Short /\ g.ext = m + 4 /\ g.cell = moved /\ g \in FrameType
    BY <2>1, <2>3, <1>1, Sizes DEF FrameType, moved
  <2>5. (g.ext - First) % 6 = 4 /\ g.ext >= First + 4
    BY <2>1, <2>4, Sizes
  <2>6. \A o \in Offset : o \in Nat
    BY Sizes DEF Offset
  <2>7. \A o \in Offset : o >= m + 8 => moved[o] = 0
    BY <2>2, <2>6, <1>1
  <2>8. \A o \in Offset : o >= 4 => moved[o] <= m
    BY <2>2, <2>6, <1>1
  <2>9. ASSUME NEW k \in 1..m PROVE \E o \in 4..(m + 7) : moved[o] = k
    <3>1. k + 3 \in Offset /\ k + 3 \in 4..(m + 3) /\ k + 3 \in 4..(m + 7)
      BY <1>1, Sizes DEF Offset
    <3>2. moved[k + 3] = k
      BY <2>2, <3>1, <1>1
    <3> QED
      BY <3>1, <3>2
  <2>10. \A o, q \in Offset :
           4 <= o /\ o < q /\ moved[o] # 0 /\ moved[q] # 0 => moved[o] < moved[q]
    BY <2>2, <2>6, <1>1
  <2>11. g.ext + 4 = m + 8 /\ g.ext + 3 = m + 7
    BY <2>4, <1>1
  <2>12. Long(g, m)
    BY <1>5, <2>4, <2>5, <2>7, <2>8, <2>9, <2>10, <2>11 DEF Long
  <2> QED
    <3>1. g \in FrameType /\ (m < Short => Flat(g, m)) /\ (m >= Short => Long(g, m))
      BY <1>5, <1>1, <1>6, <2>4, <2>12
    <3> QED
      BY <3>1 DEF g, m
<1> QED
  BY <1>1, <1>4, <1>5, <1>6

\* The length of a long frame, and the room that it leaves.
LEMMA LongLength ==
  ASSUME NEW f \in FrameType, NEW n \in Nat, Long(f, n)
  PROVE  /\ DataLen(f) = f.ext /\ Header(f) = 4 /\ Flen(f) = f.ext + 4
         /\ f.ext \in Nat /\ f.ext >= Short + 4 /\ Size - Flen(f) \notin {0, 1}
<1>1. f.ext \in Nat /\ f.code = Short /\ f.ext >= First + 4 /\ (f.ext - First) % 6 = 4
  BY DEF FrameType, Long
<1>2. f.ext >= Short + 4
  BY <1>1, Sizes
<1>3. DataLen(f) = f.ext
  BY <1>1, Sizes DEF DataLen
<1>4. Header(f) = 4 /\ Flen(f) = f.ext + 4
  BY <1>1, <1>2, <1>3, Sizes DEF Header, Flen
<1>5. Size - (f.ext + 4) \notin {0, 1}
  <2>1. PICK q \in Int : f.ext - First = 6 * q + 4
    BY <1>1, Sizes
  <2>2. Size - (f.ext + 4) = (Size - First) - 6 * q - 8
    BY <2>1, <1>1, Sizes
  <2>3. (Size - First) % 6 \notin {2, 3}
    BY SizeAssumption
  <2>4. Size - First \in Int
    BY Sizes
  <2> QED
    BY <2>2, <2>3, <2>4
<1> QED
  BY <1>1, <1>2, <1>3, <1>4, <1>5

\* Two characters printed in a long frame.
LEMMA LongGrows ==
  ASSUME NEW f \in FrameType, NEW n \in Nat, Long(f, n)
  PROVE  VPrintf(f, 2, n) \in FrameType /\ Long(VPrintf(f, 2, n), n + 2)
<1> DEFINE at == f.ext + 4
           cell == Printed(f, 2, n)
           g == VPrintf(f, 2, n)
<1>1. /\ Flen(f) = at /\ at \in Nat /\ at >= Short + 8 /\ Size - at \notin {0, 1}
      /\ f.code = Short /\ f.ext \in Nat /\ f.cell \in [Offset -> Nat] /\ Size \in Nat
      /\ Short \in Nat /\ Short > 0
  BY LongLength, Sizes DEF FrameType, Long
<1>2. ~TooLong(f, 2)
  BY <1>1 DEF TooLong
<1>3. g = [code |-> Short, ext |-> f.ext + 6, cell |-> cell]
  <2>1. g = [f EXCEPT !.cell = cell, !.ext = Flen(f) + 2]
    BY <1>1, <1>2 DEF VPrintf
  <2>2. f = [code |-> f.code, ext |-> f.ext, cell |-> f.cell]
    BY DEF FrameType
  <2>3. Flen(f) + 2 = f.ext + 6
    BY <1>1
  <2> HIDE DEF g, cell
  <2> QED
    BY <2>1, <2>2, <2>3, <1>1
<1>4. \A o \in Offset : o \in Nat /\ o <= Size - 1
  BY <1>1 DEF Offset
<1>5. ASSUME NEW o \in Offset
      PROVE  cell[o] = IF (o = at \/ o = at + 1) /\ o # Size - 1 THEN n + (o - at) + 1 ELSE f.cell[o]
  <2>1. cell[o] = IF o \in at..(at + 2 - 1) /\ o # Size - 1 THEN n + o - at + 1 ELSE f.cell[o]
    BY <1>1 DEF Printed
  <2>2. (o \in at..(at + 2 - 1) <=> (o = at \/ o = at + 1)) /\ n + o - at + 1 = n + (o - at) + 1
    BY <1>1, <1>4
  <2> QED
    BY <2>1, <2>2
<1>6. cell \in [Offset -> Nat]
  <2>1. \A o \in Offset : cell[o] \in Nat
    BY <1>1, <1>4, <1>5
  <2>2. cell = [o \in Offset |-> cell[o]]
    BY DEF Printed
  <2> QED
    BY <2>1, <2>2
<1> HIDE DEF cell, g
<1>7. g.code = Short /\ g.ext = f.ext + 6 /\ g.cell = cell /\ g \in FrameType
  <2>1. Short \in 0..Short /\ f.ext + 6 \in Nat
    BY <1>1
  <2> QED
    BY <1>3, <1>6, <2>1 DEF FrameType
<1>8. g.ext >= First + 4 /\ (g.ext - First) % 6 = 4
  <2>1. f.ext >= First + 4 /\ (f.ext - First) % 6 = 4
    BY DEF Long
  <2> QED
    BY <1>1, <1>7, <2>1, Sizes
<1>9. ASSUME g.ext + 4 <= Size
      PROVE  /\ n + 2 >= Short
             /\ \A o \in Offset : o >= g.ext + 4 => cell[o] = 0
             /\ \A o \in Offset : o >= 4 => cell[o] <= n + 2
             /\ \A k \in 1..(n + 2) : \E o \in 4..(g.ext + 3) : cell[o] = k
             /\ \A o, q \in Offset :
                  4 <= o /\ o < q /\ cell[o] # 0 /\ cell[q] # 0 => cell[o] < cell[q]
  <2>1. at + 6 <= Size /\ f.ext + 4 <= Size /\ g.ext + 4 = at + 6 /\ g.ext + 3 = at + 5
    BY <1>1, <1>7, <1>9
  <2>2. /\ n >= Short
        /\ \A o \in Offset : o >= at => f.cell[o] = 0
        /\ \A o \in Offset : o >= 4 => f.cell[o] <= n
        /\ \A k \in 1..n : \E o \in 4..(f.ext + 3) : f.cell[o] = k
        /\ \A o, q \in Offset :
             4 <= o /\ o < q /\ f.cell[o] # 0 /\ f.cell[q] # 0 => f.cell[o] < f.cell[q]
    BY <2>1 DEF Long
  <2>3. at \in Offset /\ at + 1 \in Offset /\ cell[at] = n + 1 /\ cell[at + 1] = n + 2
    <3>0. at \in Nat /\ Size \in Nat /\ at + 6 <= Size
      BY <1>1, <2>1
    <3>1. at \in Offset /\ at + 1 \in Offset /\ at # Size - 1 /\ at + 1 # Size - 1
      <4> HIDE DEF at
      <4> QED
        BY <3>0 DEF Offset
    <3> QED
      BY <1>1, <1>5, <3>1
  <2>4. \A o \in Offset : o # at /\ o # at + 1 => cell[o] = f.cell[o]
    BY <1>5
  <2>5. \A o \in Offset : cell[o] \in Nat /\ f.cell[o] \in Nat
    BY <1>1, <1>6
  <2>6. n + 2 >= Short
    BY <1>1, <2>2
  <2>7. ASSUME NEW o \in Offset, o >= g.ext + 4 PROVE cell[o] = 0
    BY <1>1, <1>4, <2>1, <2>2, <2>4, <2>7
  <2>8. ASSUME NEW o \in Offset, o >= 4 PROVE cell[o] <= n + 2
    BY <1>1, <1>4, <2>2, <2>3, <2>4, <2>5, <2>8
  <2>9. ASSUME NEW k \in 1..(n + 2) PROVE \E o \in 4..(g.ext + 3) : cell[o] = k
    <3>1. CASE k \in 1..n
      <4>1. PICK o \in 4..(f.ext + 3) : f.cell[o] = k
        BY <2>2, <3>1
      <4>2. o \in 4..(at - 1)
        BY <1>1, <4>1
      <4>3. o \in Offset /\ o # at /\ o # at + 1 /\ o \in 4..(g.ext + 3)
        <5>1. at \in Nat /\ Size \in Nat /\ at + 6 <= Size /\ g.ext + 3 = at + 5
          BY <1>1, <2>1
        <5> HIDE DEF at
        <5> QED
          BY <4>2, <5>1 DEF Offset
      <4> QED
        BY <2>4, <4>1, <4>3
    <3>2. CASE k = n + 1
      BY <1>1, <2>1, <2>3, <3>2
    <3>3. CASE k = n + 2
      BY <1>1, <2>1, <2>3, <3>3
    <3> QED
      BY <3>1, <3>2, <3>3
  <2>10. ASSUME NEW o \in Offset, NEW q \in Offset, 4 <= o, o < q, cell[o] # 0, cell[q] # 0
         PROVE  cell[o] < cell[q]
    <3>1. o \in Nat /\ q \in Nat
      BY <1>4
    <3>2. CASE q > at + 1
      <4>1. cell[q] = f.cell[q] /\ f.cell[q] = 0
        BY <1>1, <2>2, <2>4, <3>1, <3>2
      <4> QED
        BY <4>1, <2>10
    <3>3. CASE q = at + 1
      <4>1. cell[q] = n + 2 /\ (o = at => cell[o] = n + 1)
        BY <2>3, <3>3
      <4>2. o # at => cell[o] <= n
        BY <1>1, <2>2, <2>4, <2>10, <3>1, <3>3
      <4> QED
        BY <4>1, <4>2, <2>5
    <3>4. CASE q = at
      <4>1. cell[q] = n + 1
        BY <2>3, <3>4
      <4>2. cell[o] <= n
        BY <1>1, <2>2, <2>4, <2>10, <3>1, <3>4
      <4> QED
        BY <4>1, <4>2, <2>5
    <3>5. CASE q < at
      <4>1. cell[q] = f.cell[q] /\ cell[o] = f.cell[o]
        BY <1>1, <2>4, <2>10, <3>1, <3>5
      <4> QED
        BY <4>1, <2>2, <2>10
    <3> QED
      BY <1>1, <3>1, <3>2, <3>3, <3>4, <3>5
  <2> QED
    BY <2>6, <2>7, <2>8, <2>9, <2>10
<1>10. Long(g, n + 2)
  BY <1>7, <1>8, <1>9 DEF Long
<1> QED
  BY <1>7, <1>10 DEF g

\* A piece appended to a frame by frameVPrintf, in the loop of the serial port.
LEMMA PieceAppended ==
  ASSUME NEW f \in FrameType, NEW n \in Nat, Long(f, n) \/ (Flat(f, n) /\ n % 2 = 1)
  PROVE  /\ VPrintf(f, 2, n) \in FrameType
         /\ \/ Long(VPrintf(f, 2, n), n + 2)
            \/ Flat(VPrintf(f, 2, n), n + 2) /\ (n + 2) % 2 = 1
<1>1. CASE Long(f, n)
  BY <1>1, LongGrows
<1>2. CASE Flat(f, n) /\ n % 2 = 1
  <2>1. n < Short /\ (n + 2) % 2 = 1
    BY <1>2 DEF Flat
  <2>2. n + 2 < Short \/ (n + 2 >= Short /\ n + 2 = First)
    BY <1>2, <2>1, Sizes
  <2>3. 2 \in Nat \ {0}
    OBVIOUS
  <2> QED
    BY <1>2, <2>1, <2>2, <2>3, FlatGrows
<1> QED
  BY <1>1, <1>2

\* The first piece of a frame.
LEMMA PieceBegins ==
  ASSUME NEW len \in Nat \ {0}, len < Short \/ len = First
  PROVE  /\ VPrintf(New, len, 0) \in FrameType
         /\ Long(VPrintf(New, len, 0), len) \/ (Flat(VPrintf(New, len, 0), len) /\ len < Short)
<1>1. 0 + len = len /\ 0 \in Nat
  OBVIOUS
<1>2. len < Short \/ len >= Short
  BY Sizes
<1> QED
  BY <1>1, <1>2, NewIsFlat, FlatGrows

LEMMA FrameInitInv == FrameInit => FrameInv
BY NewIsFlat, Sizes DEF FrameInit, FrameInv

LEMMA ReadByteInv == ASSUME FrameInv, ReadByte PROVE FrameInv'
<1> DEFINE g == VPrintf(New, 1, 0)
<1>1. PICK last \in BOOLEAN :
        IF last \/ sbuflen' >= SbufSize
        THEN /\ frame' = g /\ text' = 1 /\ i' = 0 /\ stage' = "append"
        ELSE UNCHANGED <<frame, text, i, stage>>
  BY DEF ReadByte
<1>2. g \in FrameType /\ (Long(g, 1) \/ Flat(g, 1))
  <2>1. 1 < Short \/ 1 = First
    BY Sizes
  <2> QED
    BY <2>1, PieceBegins
<1>3. sbuflen' \in 0..SbufSize /\ sbuflen' > 0 /\ SbufSize \in Nat /\ stage = "read"
  BY Sizes DEF FrameInv, ReadByte
<1> HIDE DEF g
<1>4. CASE last \/ sbuflen' >= SbufSize
  <2>1. frame' = g /\ text' = 1 /\ i' = 0 /\ stage' = "append"
    BY <1>1, <1>4
  <2>2. i' \in 0..SbufSize /\ i' <= sbuflen' /\ 1 % 2 = 1
    BY <1>3, <2>1
  <2> QED
    BY <1>2, <1>3, <2>1, <2>2 DEF FrameInv
<1>5. CASE ~(last \/ sbuflen' >= SbufSize)
  <2>1. UNCHANGED <<frame, text, i, stage>> /\ sbuflen' < SbufSize
    BY <1>1, <1>3, <1>5
  <2> QED
    BY <1>3, <2>1 DEF FrameInv
<1> QED
  BY <1>4, <1>5

LEMMA AppendByteInv == ASSUME FrameInv, AppendByte PROVE FrameInv'
<1> DEFINE g == VPrintf(frame, 2, text)
<1>1. /\ stage = "append" /\ SbufSize \in Nat /\ SbufSize > 0 /\ i <= sbuflen
      /\ sbuflen \in 0..SbufSize /\ i \in 0..SbufSize /\ text \in Nat /\ frame \in FrameType
      /\ Long(frame, text) \/ (Flat(frame, text) /\ text % 2 = 1)
  BY Sizes DEF FrameInv, AppendByte
<1>2. g \in FrameType /\ (Long(g, text + 2) \/ (Flat(g, text + 2) /\ (text + 2) % 2 = 1))
  BY <1>1, PieceAppended
<1> HIDE DEF g
<1>3. CASE i = sbuflen
  <2>1. sbuflen' = 0 /\ stage' = "ready" /\ UNCHANGED <<frame, text, i>>
    BY <1>3 DEF AppendByte
  <2>2. 0 \in 0..SbufSize /\ 0 < SbufSize
    BY <1>1
  <2> QED
    BY <1>1, <2>1, <2>2 DEF FrameInv
<1>4. CASE i # sbuflen
  <2>1. /\ stage' \in {"over", "append"} /\ frame' = g /\ text' = text + 2 /\ i' = i + 1
        /\ UNCHANGED sbuflen
    BY <1>1, <1>4 DEF AppendByte, g
  <2>2. i' \in 0..SbufSize /\ i' <= sbuflen' /\ text' \in Nat
    BY <1>1, <1>4, <2>1
  <2> QED
    BY <1>1, <1>2, <2>1, <2>2 DEF FrameInv
<1> QED
  BY <1>3, <1>4

LEMMA SendTextInv == ASSUME FrameInv, SendText PROVE FrameInv'
<1>1. PICK n \in Texts : frame' = VPrintf(New, n, 0) /\ text' = n
  BY DEF SendText
<1>2. n \in Nat \ {0} /\ n < Short
  BY FrameAssumption
<1>3. frame' \in FrameType /\ (Long(frame', n) \/ Flat(frame', n))
  BY <1>1, <1>2, PieceBegins
<1>4. i' \in 0..SbufSize /\ i' = 0 /\ stage' = "ready" /\ sbuflen' = sbuflen /\ stage = "read"
  BY Sizes DEF SendText
<1> QED
  BY <1>1, <1>2, <1>3, <1>4 DEF FrameInv

LEMMA SendFrameInv == ASSUME FrameInv, SendFrame PROVE FrameInv'
<1>1. /\ stage = "ready" /\ stage' = "read" /\ frame' = New /\ text' = 0 /\ i' = 0
      /\ sbuflen' = sbuflen /\ i' \in 0..SbufSize
  BY Sizes DEF SendFrame
<1> QED
  BY <1>1, NewIsFlat DEF FrameInv

\* What a frame that may be sent holds.
LEMMA FrameIsInOrder == FrameInv => TextInOrder
<1> SUFFICES ASSUME FrameInv PROVE TextInOrder
  OBVIOUS
<1> DEFINE n == text
           held == {o \in Payload(frame) : frame.cell[o] # 0}
<1>1. /\ sbuflen \in 0..SbufSize /\ i \in 0..SbufSize
      /\ stage \in {"read", "append", "ready", "over"} /\ (stage = "read" => sbuflen < SbufSize)
      /\ frame \in FrameType /\ text \in Nat
  BY DEF FrameInv
<1>2. frame.code \in 0..Short /\ frame.ext \in Nat /\ frame.cell \in [Offset -> Nat]
  BY <1>1 DEF FrameType
<1>3. \A o \in Offset : o \in Nat /\ o < Size
  BY Sizes DEF Offset
<1>4. ASSUME stage = "ready", Flen(frame) <= Size
      PROVE  /\ {frame.cell[o] : o \in held} = 1..text
             /\ \A o, q \in held : o < q => frame.cell[o] < frame.cell[q]
             /\ text < Short => DataLen(frame) = text /\ \A k \in 1..text : frame.cell[k + 1] = k
  <2>1. Long(frame, text) \/ Flat(frame, text)
    BY <1>4 DEF FrameInv
  <2>2. CASE Flat(frame, text)
    <3>1. /\ text < Short /\ frame.code = text
          /\ \A o \in Offset : frame.cell[o] = IF o \in 2..(text + 1) THEN o - 1 ELSE 0
      BY <2>2 DEF Flat
    <3>2. DataLen(frame) = text /\ Header(frame) = 2 /\ Flen(frame) = text + 2
      BY <1>1, <3>1, Sizes DEF DataLen, Header, Flen
    <3>3. \A o \in Offset : o \in held <=> o \in 2..(text + 1)
      BY <1>1, <1>3, <3>1, <3>2 DEF Payload
    <3>4. \A o \in held : o \in Offset /\ o \in 2..(text + 1) /\ frame.cell[o] = o - 1
      BY <3>1, <3>3 DEF Payload
    <3>5. \A k \in 1..text : k + 1 \in held /\ frame.cell[k + 1] = k
      <4>1. \A k \in 1..text : k + 1 \in Offset /\ k + 1 \in 2..(text + 1)
        BY <1>1, <3>1, Sizes DEF Offset
      <4> QED
        BY <3>1, <3>3, <4>1
    <3> HIDE DEF held
    <3>6. {frame.cell[o] : o \in held} = 1..text
      BY <1>1, <3>4, <3>5
    <3> QED
      BY <1>1, <3>2, <3>4, <3>5, <3>6
  <2>3. CASE Long(frame, text)
    <3>1. Header(frame) = 4 /\ Flen(frame) = frame.ext + 4 /\ frame.ext \in Nat
      BY <1>1, <2>3, LongLength
    <3>2. /\ text >= Short
          /\ \A o \in Offset : o >= 4 => frame.cell[o] <= text
          /\ \A k \in 1..text : \E o \in 4..(frame.ext + 3) : frame.cell[o] = k
          /\ \A o, q \in Offset : 4 <= o /\ o < q /\ frame.cell[o] # 0 /\ frame.cell[q] # 0
                                  => frame.cell[o] < frame.cell[q]
      BY <1>4, <2>3, <3>1 DEF Long
    <3>3. \A o \in Offset : o \in held <=>
            o >= 4 /\ o < frame.ext + 4 /\ frame.cell[o] # 0
      BY <3>1 DEF Payload
    <3>4. \A o \in held : o \in Offset /\ o >= 4 /\ frame.cell[o] # 0 /\ frame.cell[o] \in 1..text
      BY <1>1, <1>2, <3>2, <3>3 DEF Payload
    <3>5. ASSUME NEW k \in 1..text PROVE \E o \in held : frame.cell[o] = k
      <4>1. PICK o \in 4..(frame.ext + 3) : frame.cell[o] = k
        BY <3>2
      <4>2. o \in Offset /\ o >= 4 /\ o < frame.ext + 4
        BY <1>4, <3>1, <4>1, Sizes DEF Offset
      <4> QED
        BY <1>1, <3>3, <4>1, <4>2
    <3>6. \A o, q \in held : o < q => frame.cell[o] < frame.cell[q]
      BY <3>2, <3>4
    <3> HIDE DEF held
    <3>7. {frame.cell[o] : o \in held} = 1..text
      BY <3>4, <3>5
    <3>8. ~(text < Short)
      BY <1>1, <3>2, Sizes
    <3> QED
      BY <3>6, <3>7, <3>8
  <2> QED
    BY <2>1, <2>2, <2>3
<1> QED
  BY <1>1, <1>2, <1>4 DEF TextInOrder

LEMMA ChannelBuilds ==
  /\ ChannelInit => FrameInv
  /\ FrameInv /\ [ChannelNext]_channelVars => FrameInv'
<1>1. ChannelInit => FrameInv
  BY FrameInitInv DEF ChannelInit
<1>2. ASSUME FrameInv, [ChannelNext]_channelVars PROVE FrameInv'
  <2>1. CASE UNCHANGED frameVars
    BY <1>2, <2>1 DEF frameVars, FrameInv
  <2>2. CASE ReadByte
    BY <1>2, <2>2, ReadByteInv
  <2>3. CASE AppendByte
    BY <1>2, <2>3, AppendByteInv
  <2>4. CASE SendText
    BY <1>2, <2>4, SendTextInv
  <2>5. CASE SendFrame
    BY <1>2, <2>5, SendFrameInv
  <2> QED
    BY <1>2, <2>1, <2>2, <2>3, <2>4, <2>5
    DEF ChannelNext, Client, Serve, Serial, Advance, channelVars
<1> QED
  BY <1>1, <1>2

\* A frame that fits in the buffer is sent with every character printed in it,
\* once each and in order, whatever comes from the serial port.
THEOREM TextsAreInOrder == ChannelSpec => []TextInOrder
BY ChannelBuilds, FrameIsInOrder, PTL DEF ChannelSpec

-----------------------------------------------------------------------------
(***************************************************************************)
(* For any set of signals, either wiring and any number of bytes that the  *)
(* module sends of itself: the module is out of reset when it is spoken    *)
(* to, and the echo is not taken for its answer.                           *)
(***************************************************************************)

Bytes == {"?", "A", "m", "n"}
Lines == [brk : BOOLEAN, dtr : BOOLEAN, rts : BOOLEAN]

TypeOK ==
  /\ pc \in {"start"} \cup Awaits \cup Ended
  /\ keepLow \in BOOLEAN /\ looped \in BOOLEAN
  /\ options \in Lines /\ lines \in Lines
  /\ wires \in 0..2 /\ attempt \in 0..Attempts /\ mismatch \in BOOLEAN
  /\ report \in {"none", "OK", "failed"} /\ noise \in 0..Noise
  /\ answered \in BOOLEAN /\ late \in BOOLEAN
  /\ out \in Seq(Bytes) /\ Len(out) <= 1
  /\ in \in Seq(Bytes) /\ rxq \in Seq(Bytes)

\* Where the fiber is before it first speaks to the module.
Resetting == {"start", "listing", "choosing", "opening", "resetOn", "resetHeld", "resetOff",
              "txdLow", "breakOff"}
Detecting == {"detectDrain", "detectFlush", "detectSleep"}
Syncing == {"syncDrain", "syncFlush", "txDrain", "txSleep", "syncSleep"}

\* The options still to be cleared at each stage of the reset.
StageInv ==
  /\ pc \in Resetting \ {"start"} => signal \in {"DTR", "RTS"}
  /\ pc \in {"resetOff", "txdLow"} => options = [brk |-> keepLow, dtr |-> FALSE, rts |-> FALSE]
  /\ pc \in {"resetOn", "resetHeld"} =>
       options = [brk |-> keepLow, dtr |-> signal = "DTR", rts |-> signal # "DTR"]
  /\ pc = "breakOff" => options = Off
  /\ pc \in Detecting \cup Syncing => options = Off /\ lines = Off
  /\ attempt > 0 => options = Off /\ lines = Off

\* The wires are told apart once, before the first attempt.
WiresInv ==
  /\ pc \in Resetting \cup Detecting => wires = 0 /\ attempt = 0
  /\ pc \in Syncing => wires # 0 /\ attempt > 0
  /\ pc \in {"txDrain", "txSleep"} => wires = 1
  /\ report = "OK" => pc = "exited"

\* If no echo escaped the last flush and no answer either, there is no more,
\* before the module answers, than the echo of the byte sent since: nothing but that byte if the port does not hear it, and
\* nothing at all once tx has found it.
EchoInv ==
  noise = 0 /\ ~answered /\ ~late /\ (wires = 1) = looped =>
    /\ pc = "txDrain" => Len(rxq) + Len(in) + Len(out) <= 1
    /\ pc = "txSleep" => out = <<>> /\ Len(rxq) + Len(in) <= 1
    /\ pc = "syncSleep" /\ ~looped => rxq = <<>> /\ in = <<>>
    /\ pc = "syncSleep" /\ looped /\ ~mismatch => rxq = <<>> /\ in = <<>> /\ out = <<>>

LinkInv == TypeOK /\ StageInv /\ WiresInv /\ EchoInv /\ OkIsAnswer

-----------------------------------------------------------------------------
USE DEF Awaits, Ended, Attempts

LEMMA InitInv == Init => LinkInv
<1> SUFFICES ASSUME Init PROVE LinkInv OBVIOUS
<1>1. TypeOK
  <2>1. Off \in Lines
    BY DEF Off, Lines
  <2>2. <<>> \in Seq(Bytes) /\ Len(<<>>) = 0
    OBVIOUS
  <2>3. options \in Lines /\ lines \in Lines /\ out = <<>> /\ in = <<>> /\ rxq = <<>>
    BY <2>1 DEF Init
  <2>4. looped \in BOOLEAN /\ keepLow \in BOOLEAN /\ mismatch \in BOOLEAN /\ answered \in BOOLEAN
        /\ late \in BOOLEAN
    BY LinkAssumption DEF Init
  <2>5. /\ pc \in {"start"} \cup Awaits \cup Ended /\ report \in {"none", "OK", "failed"}
        /\ wires \in 0..2 /\ attempt \in 0..Attempts /\ noise \in 0..Noise
    BY LinkAssumption DEF Init
  <2> QED
    BY <2>2, <2>3, <2>4, <2>5 DEF TypeOK
<1>2. StageInv BY DEF Init, StageInv, Resetting, Detecting, Syncing
<1>3. WiresInv BY DEF Init, WiresInv, Resetting, Detecting, Syncing
<1>4. EchoInv BY DEF Init, EchoInv
<1>5. OkIsAnswer BY DEF Init, OkIsAnswer
<1> QED BY <1>1, <1>2, <1>3, <1>4, <1>5 DEF LinkInv

\* The fiber, up to the detection of the wires.
LEMMA ResetInv ==
  ASSUME LinkInv, Main \/ Listed \/ Opened \/ LinesSet \/ ResetSlept
  PROVE  LinkInv'
<1> USE DEF LinkInv
<1>1. /\ UNCHANGED <<signal, keepLow, port, wires, rxq, attempt, mismatch, report, out, in,
                     answered, late, looped, noise>>
      /\ pc \in Resetting
  BY DEF Main, Listed, Opened, LinesSet, ResetSlept, arguments, history, wiring, Resetting
<1>2. pc' \in {"thrown", "listed", "listing", "choosing", "opening", "resetOn", "resetHeld",
               "resetOff", "txdLow", "breakOff", "detectDrain"}
  BY DEF Main, Listed, Opened, LinesSet, ResetSlept
<1>3. attempt = 0 /\ wires = 0 /\ report # "OK"
  BY <1>1 DEF WiresInv, Resetting
<1>4. options' \in Lines /\ lines' \in Lines
  <2>1. CASE Main \/ Listed \/ LinesSet
    BY <2>1 DEF Main, Listed, LinesSet, TypeOK
  <2>2. CASE Opened
    BY <2>2 DEF Opened, TypeOK, Lines
  <2>3. CASE ResetSlept
    BY <2>3 DEF ResetSlept, TypeOK, Lines
  <2> QED
    BY <2>1, <2>2, <2>3
<1>5. TypeOK' BY <1>1, <1>2, <1>4 DEF TypeOK
<1>6. StageInv'
  <2>1. CASE Main \/ Listed
    BY <2>1, <1>1, <1>3 DEF Main, Listed, StageInv, Resetting, Detecting, Syncing
  <2>2. CASE Opened
    BY <2>2, <1>1, <1>3 DEF Opened, StageInv, Resetting, Detecting, Syncing
  <2>3. CASE LinesSet /\ pc # "resetOff"
    BY <2>3, <1>1, <1>3 DEF LinesSet, StageInv, Resetting, Detecting, Syncing
  <2>4. CASE LinesSet /\ pc = "resetOff"
    <3>1. options' = options /\ lines' = options
      BY <2>4 DEF LinesSet
    <3>2. CASE keepLow
      BY <2>4, <3>1, <3>2, <1>1, <1>3 DEF LinesSet, StageInv, Resetting, Detecting, Syncing
    <3>3. CASE ~keepLow
      <4>1. keepLow = FALSE
        BY <3>3 DEF TypeOK
      <4>2. options = Off
        BY <4>1, <2>4 DEF StageInv, Off
      <4> QED
        BY <2>4, <3>1, <3>3, <4>2, <1>1, <1>3 DEF LinesSet, StageInv, Resetting, Detecting, Syncing
    <3> QED
      BY <3>2, <3>3
  <2>5. CASE ResetSlept /\ pc = "resetHeld"
    <3>1. signal \in {"DTR", "RTS"}
          /\ options = [brk |-> keepLow, dtr |-> signal = "DTR", rts |-> signal # "DTR"]
      BY <2>5 DEF StageInv, Resetting
    <3>2. options' = [brk |-> keepLow, dtr |-> FALSE, rts |-> FALSE]
      <4>1. CASE signal = "DTR"
        BY <2>5, <3>1, <4>1 DEF ResetSlept
      <4>2. CASE signal = "RTS"
        BY <2>5, <3>1, <4>2 DEF ResetSlept
      <4> QED
        BY <3>1, <4>1, <4>2
    <3> QED
      BY <2>5, <3>1, <3>2, <1>1, <1>3 DEF ResetSlept, StageInv, Resetting, Detecting, Syncing
  <2>6. CASE ResetSlept /\ pc = "txdLow"
    <3>1. options' = Off
      BY <2>6 DEF ResetSlept, StageInv, Off
    <3> QED
      BY <2>6, <3>1, <1>1, <1>3 DEF ResetSlept, StageInv, Resetting, Detecting, Syncing
  <2> QED
    BY <2>1, <2>2, <2>3, <2>4, <2>5, <2>6 DEF ResetSlept
<1>7. WiresInv' BY <1>1, <1>2, <1>3 DEF WiresInv, Resetting, Detecting, Syncing
<1>8. EchoInv' BY <1>2 DEF EchoInv
<1>9. OkIsAnswer' BY <1>1, <1>3 DEF OkIsAnswer
<1> QED BY <1>5, <1>6, <1>7, <1>8, <1>9

-----------------------------------------------------------------------------
(* The fiber, from the detection of the wires on.                          *)

LEMMA DrainedInv == LinkInv /\ Drained => LinkInv'
<1> SUFFICES ASSUME LinkInv, Drained PROVE LinkInv'
  OBVIOUS
<1> USE DEF LinkInv
<1>1. /\ UNCHANGED <<signal, keepLow, port, options, lines, wires, attempt, mismatch, report, out,
                     in, answered, late, looped, noise>>
      /\ rxq' = <<>> /\ out = <<>>
      /\ \/ pc = "detectDrain" /\ pc' = "detectFlush"
         \/ pc = "syncDrain" /\ pc' = "syncFlush"
         \/ pc = "txDrain" /\ pc' = "txSleep"
  BY DEF Drained, arguments, history, wiring
<1>2. TypeOK'
  BY <1>1 DEF TypeOK
<1>3. StageInv' /\ WiresInv' /\ OkIsAnswer'
  BY <1>1 DEF StageInv, WiresInv, OkIsAnswer, Resetting, Detecting, Syncing
<1>4. EchoInv'
  <2>1. Len(rxq') = 0 /\ Len(rxq) >= 0 /\ Len(out) = 0 /\ Len(in) \in Nat
    BY <1>1 DEF TypeOK
  <2> QED
    BY <1>1, <2>1 DEF EchoInv
<1> QED
  BY <1>2, <1>3, <1>4

\* What a flush does not reach are bytes that were on their way.
LEMMA UnreachedAreBytes ==
  ASSUME NEW s \in Seq(Bytes), NEW t \in Unreached(s)
  PROVE  t \in Seq(Bytes)
<1> DEFINE kept(u) == {SubSeq(s, 1, u) \o SubSeq(s, v, Len(s)) : v \in (u + 1)..(Len(s) + 1)}
<1>1. t \in UNION {kept(u) : u \in 0..Len(s)}
  BY DEF Unreached
<1>2. PICK u \in 0..Len(s) : t \in kept(u)
  <2> HIDE DEF kept
  <2> QED
    BY <1>1
<1>3. PICK v \in (u + 1)..(Len(s) + 1) : t = SubSeq(s, 1, u) \o SubSeq(s, v, Len(s))
  BY <1>2
<1>4. Len(s) \in Nat
  OBVIOUS
<1>5. SubSeq(s, 1, u) \in Seq(Bytes)
  <2>1. \A k \in 1..u : s[k] \in Bytes
    BY <1>4
  <2> QED
    BY <1>4, <2>1
<1>6. SubSeq(s, v, Len(s)) \in Seq(Bytes)
  <2>1. \A k \in v..Len(s) : s[k] \in Bytes
    BY <1>4
  <2> QED
    BY <1>4, <2>1
<1> QED
  BY <1>3, <1>5, <1>6

LEMMA FlushedInv == LinkInv /\ Flushed => LinkInv'
<1> SUFFICES ASSUME LinkInv, Flushed PROVE LinkInv'
  OBVIOUS
<1> USE DEF LinkInv
<1>1. /\ UNCHANGED <<signal, keepLow, port, options, lines, wires, attempt, mismatch, report,
                     looped, noise>>
      /\ rxq' = <<>>
      /\ \E b \in Bytes : out' = <<b>>
  BY DEF Flushed, arguments, wiring, Bytes
<1>2. \/ pc = "detectFlush" /\ pc' = "detectSleep"
      \/ pc = "syncFlush" /\ pc' = "txDrain" /\ wires = 1
      \/ pc = "syncFlush" /\ pc' = "syncSleep" /\ wires # 1
  BY DEF Flushed, WiresInv, Detecting, Resetting
<1>3. Len(out') = 1 /\ out' \in Seq(Bytes) /\ Len(rxq') = 0
  BY <1>1
<1>4. in' \in Seq(Bytes)
  BY UnreachedAreBytes DEF Flushed, TypeOK
<1>5. answered' = Holds(in', {"m"}) /\ late' = Holds(in', {"?", "A", "n"})
  BY DEF Flushed
<1>6. answered' \in BOOLEAN /\ late' \in BOOLEAN
  BY <1>5 DEF Holds
<1>7. ~answered' /\ ~late' => in' = <<>> /\ Len(in') = 0
  <2>1. \A k \in DOMAIN in' : in'[k] \in {"?", "A", "m", "n"}
    BY <1>4 DEF Bytes
  <2>2. ~answered' /\ ~late' => DOMAIN in' = {}
    BY <1>5, <2>1 DEF Holds
  <2> QED
    BY <1>4, <2>2
<1>8. TypeOK'
  <2>1. Len(out') <= 1
    BY <1>3
  <2>2. rxq' \in Seq(Bytes)
    BY <1>1
  <2> QED
    BY <1>1, <1>2, <1>3, <1>4, <1>6, <2>1, <2>2 DEF TypeOK
<1>9. StageInv' /\ WiresInv' /\ OkIsAnswer'
  BY <1>1, <1>2 DEF StageInv, WiresInv, OkIsAnswer, Resetting, Detecting, Syncing
<1>10. EchoInv'
  <2>1. ~answered' /\ ~late' => Len(rxq') + Len(in') + Len(out') = 1
    BY <1>3, <1>7
  <2>2. CASE pc' = "syncSleep"
    <3>1. ~looped' \/ (wires' = 1) # looped'
      BY <1>1, <1>2, <2>2
    <3> QED
      BY <1>1, <1>7, <2>2, <3>1 DEF EchoInv
  <2>3. CASE pc' # "syncSleep"
    BY <1>2, <2>1, <2>3 DEF EchoInv
  <2> QED
    BY <2>2, <2>3
<1> QED
  BY <1>8, <1>9, <1>10

LEMMA SleptInv == LinkInv /\ (Detected \/ EchoSlept \/ SyncSlept) => LinkInv'
<1> SUFFICES ASSUME LinkInv, Detected \/ EchoSlept \/ SyncSlept PROVE LinkInv'
  OBVIOUS
<1> USE DEF LinkInv
<1>1. CASE Detected
  <2>1. /\ UNCHANGED <<signal, keepLow, port, options, lines, rxq, mismatch, report, out, in,
                       answered, late, looped, noise>>
        /\ pc = "detectSleep" /\ pc' = "syncDrain" /\ attempt' = 1 /\ wires' \in {1, 2}
    BY <1>1 DEF Detected, arguments, history, wiring
  <2>2. TypeOK'
    BY <2>1 DEF TypeOK
  <2>3. StageInv' /\ WiresInv' /\ EchoInv' /\ OkIsAnswer'
    BY <2>1 DEF StageInv, WiresInv, EchoInv, OkIsAnswer, Resetting, Detecting, Syncing
  <2> QED
    BY <2>2, <2>3
<1>2. CASE EchoSlept
  <2>1. /\ UNCHANGED <<signal, keepLow, port, options, lines, wires, attempt, report, out, in,
                       answered, late, looped, noise>>
        /\ pc = "txSleep" /\ pc' = "syncSleep" /\ mismatch' \in BOOLEAN
    BY <1>2 DEF EchoSlept, arguments, history, wiring
  <2>2. rxq' \in Seq(Bytes) /\ (~mismatch' => rxq # <<>> /\ rxq' = Tail(rxq))
    <3>1. CASE mismatch'
      BY <1>2, <3>1 DEF EchoSlept, TypeOK
    <3>2. CASE ~mismatch'
      <4>1. rxq # <<>> /\ rxq' = Tail(rxq) /\ rxq \in Seq(Bytes)
        BY <1>2, <3>2 DEF EchoSlept, TypeOK
      <4> QED
        BY <3>2, <4>1
    <3> QED
      BY <3>1, <3>2
  <2>3. TypeOK'
    BY <2>1, <2>2 DEF TypeOK
  <2>4. StageInv' /\ WiresInv' /\ OkIsAnswer'
    BY <2>1 DEF StageInv, WiresInv, OkIsAnswer, Resetting, Detecting, Syncing
  <2>5. wires = 1
    BY <2>1 DEF WiresInv
  <2>6. ASSUME ~mismatch', noise = 0, ~answered, ~late, looped
        PROVE  rxq' = <<>> /\ in = <<>> /\ out = <<>>
    <3>1. out = <<>> /\ Len(rxq) + Len(in) <= 1
      BY <2>1, <2>5, <2>6 DEF EchoInv
    <3>2. Len(rxq) >= 1 /\ Len(in) >= 0 /\ Len(rxq') = Len(rxq) - 1
      BY <2>2, <2>6 DEF TypeOK
    <3>3. Len(rxq') = 0 /\ Len(in) = 0
      BY <3>1, <3>2 DEF TypeOK
    <3> QED
      BY <3>1, <3>3, <2>2 DEF TypeOK
  <2>7. EchoInv'
    BY <2>1, <2>5, <2>6 DEF EchoInv
  <2> QED
    BY <2>3, <2>4, <2>7
<1>3. CASE SyncSlept
  <2>1. /\ UNCHANGED <<signal, keepLow, port, options, lines, wires, rxq, mismatch, out, in,
                       answered, late, looped, noise>>
        /\ pc = "syncSleep" /\ pc' \in {"exited", "syncDrain"}
        /\ attempt' \in {attempt, attempt + 1} /\ attempt' <= Attempts
        /\ report' \in {report, "OK", "failed"}
        /\ pc' = "syncDrain" => report' = report
        /\ report' = "OK" /\ report # "OK" => rxq # <<>>
    BY <1>3 DEF SyncSlept, arguments, history, wiring, TypeOK
  <2>2. TypeOK'
    BY <2>1 DEF TypeOK
  <2>3. StageInv' /\ WiresInv' /\ EchoInv'
    BY <2>1 DEF StageInv, WiresInv, EchoInv, Resetting, Detecting, Syncing, TypeOK
  <2>4. OkIsAnswer'
    BY <2>1 DEF OkIsAnswer, EchoInv, WiresInv, TypeOK
  <2> QED
    BY <2>2, <2>3, <2>4
<1> QED
  BY <1>1, <1>2, <1>3

-----------------------------------------------------------------------------
(* The port and the module.                                                *)

LEMMA OnDataInv == LinkInv /\ OnData => LinkInv'
<1> SUFFICES ASSUME LinkInv, OnData PROVE LinkInv'
  OBVIOUS
<1> USE DEF LinkInv
<1>1. /\ UNCHANGED <<signal, keepLow, port, pc, options, lines, wires, attempt, mismatch, report,
                     out, answered, late, looped, noise>>
      /\ in # <<>> /\ in' = Tail(in) /\ rxq' = Append(rxq, Head(in))
  BY DEF OnData, arguments, history, wiring
<1>2. /\ in' \in Seq(Bytes) /\ rxq' \in Seq(Bytes)
      /\ Len(rxq') + Len(in') = Len(rxq) + Len(in)
      /\ Len(out) \in Nat /\ Len(rxq') \in Nat /\ Len(in') \in Nat
      /\ Len(rxq) \in Nat /\ Len(in) \in Nat
  BY <1>1 DEF TypeOK
<1>3. TypeOK'
  BY <1>1, <1>2 DEF TypeOK
<1>4. StageInv' /\ WiresInv' /\ OkIsAnswer'
  BY <1>1 DEF StageInv, WiresInv, OkIsAnswer, Resetting, Detecting, Syncing
<1>5. EchoInv'
  BY <1>1, <1>2 DEF EchoInv
<1> QED
  BY <1>3, <1>4, <1>5

LEMMA OnDisconnectInv == LinkInv /\ OnDisconnect => LinkInv'
<1> SUFFICES ASSUME LinkInv, OnDisconnect PROVE LinkInv'
  OBVIOUS
<1> USE DEF LinkInv
<1>1. /\ UNCHANGED <<signal, keepLow, port, options, lines, wires, rxq, attempt, mismatch, report,
                     out, in, answered, late, looped, noise>>
      /\ pc' = "exited"
  BY DEF OnDisconnect, arguments, history, wiring
<1> QED
  BY <1>1 DEF TypeOK, StageInv, WiresInv, EchoInv, OkIsAnswer, Resetting, Detecting, Syncing

LEMMA OneByte ==
  ASSUME NEW S, NEW s \in Seq(S), s # <<>>, Len(s) <= 1
  PROVE  Len(s) = 1
<1>1. Len(s) \in Nat /\ Len(s) # 0
  OBVIOUS
<1> QED
  BY <1>1

LEMMA TransmitInv == LinkInv /\ Transmit => LinkInv'
<1> SUFFICES ASSUME LinkInv, Transmit PROVE LinkInv'
  OBVIOUS
<1> USE DEF LinkInv
<1>1. /\ UNCHANGED <<signal, keepLow, port, pc, options, lines, wires, rxq, attempt, mismatch,
                     report, late, looped, noise>>
      /\ out # <<>> /\ out' = Tail(out) /\ pc \notin Ended
  BY DEF Transmit, PortOpen, arguments, wiring
<1>2. Len(out) = 1 /\ out' \in Seq(Bytes) /\ Len(out') = 0 /\ Head(out) \in Bytes
  <2>1. out \in Seq(Bytes) /\ Len(out) = 1
    <3>1. out \in Seq(Bytes) /\ Len(out) <= 1 /\ out # <<>>
      BY <1>1 DEF TypeOK
    <3> QED
      BY <3>1, OneByte
  <2>2. Head(out) \in Bytes /\ Tail(out) \in Seq(Bytes) /\ Len(Tail(out)) = 0
    BY <2>1
  <2> QED
    BY <1>1, <2>1, <2>2
<1>3. CASE /\ UNCHANGED answered
           /\ in' = IF looped THEN Append(in, Head(out)) ELSE in
  <2>1. in' \in Seq(Bytes) /\ Len(in') = IF looped THEN Len(in) + 1 ELSE Len(in)
    BY <1>2, <1>3 DEF TypeOK
  <2>2. TypeOK'
    BY <1>1, <1>2, <1>3, <2>1 DEF TypeOK
  <2>3. StageInv' /\ WiresInv' /\ OkIsAnswer'
    BY <1>1, <1>3 DEF StageInv, WiresInv, OkIsAnswer, Resetting, Detecting, Syncing
  <2>4. EchoInv'
    BY <1>1, <1>2, <1>3, <2>1 DEF EchoInv, TypeOK
  <2> QED
    BY <2>2, <2>3, <2>4
<1>4. CASE answered' = TRUE /\ in' \in Seq(Bytes)
  <2>1. TypeOK'
    BY <1>1, <1>2, <1>4 DEF TypeOK
  <2>2. StageInv' /\ WiresInv' /\ EchoInv' /\ OkIsAnswer'
    BY <1>1, <1>4 DEF StageInv, WiresInv, EchoInv, OkIsAnswer, Resetting, Detecting, Syncing
  <2> QED
    BY <2>1, <2>2
<1>5. DEFINE echo == IF looped THEN <<Head(out)>> ELSE <<>>
<1>6. \/ in' = in \o echo /\ UNCHANGED answered
      \/ in' = in \o echo \o <<"m">> /\ answered' = TRUE
  BY DEF Transmit
<1>7. in \o echo = IF looped THEN Append(in, Head(out)) ELSE in
  BY <1>2 DEF TypeOK
<1>8. echo \in Seq(Bytes) /\ <<"m">> \in Seq(Bytes)
  <2>1. <<"m">> \in Seq(Bytes)
    BY DEF Bytes
  <2>2. <<Head(out)>> \in Seq(Bytes) /\ <<>> \in Seq(Bytes)
    BY <1>2
  <2> QED
    BY <2>1, <2>2
<1>9. in \o echo \o <<"m">> \in Seq(Bytes)
  BY <1>8 DEF TypeOK
<1> QED
  BY <1>3, <1>4, <1>6, <1>7, <1>9

LEMMA ModuleSendsInv == LinkInv /\ ModuleSends => LinkInv'
<1> SUFFICES ASSUME LinkInv, ModuleSends PROVE LinkInv'
  OBVIOUS
<1> USE DEF LinkInv
<1>1. /\ UNCHANGED <<signal, keepLow, port, pc, options, lines, wires, rxq, attempt, mismatch,
                     report, out, answered, late, looped>>
      /\ noise < Noise /\ noise' = noise + 1 /\ in' = Append(in, "n")
  BY DEF ModuleSends, arguments, history
<1>2. noise' \in 0..Noise /\ noise' # 0
  BY <1>1, LinkAssumption DEF TypeOK
<1>3. in' \in Seq(Bytes)
  BY <1>1 DEF TypeOK, Bytes
<1> QED
  BY <1>1, <1>2, <1>3
  DEF TypeOK, StageInv, WiresInv, EchoInv, OkIsAnswer, Resetting, Detecting, Syncing

-----------------------------------------------------------------------------
LEMMA StepInv == LinkInv /\ [Next]_vars => LinkInv'
<1>1. CASE UNCHANGED vars
  BY <1>1 DEF vars, arguments, history, wiring, LinkInv, TypeOK, StageInv, WiresInv, EchoInv, OkIsAnswer
<1>2. CASE Finished
  BY <1>1, <1>2 DEF Finished
<1> QED
  BY <1>1, <1>2, ResetInv, DrainedInv, FlushedInv, SleptInv, OnDataInv, OnDisconnectInv,
     TransmitInv, ModuleSendsInv DEF Next, Fiber

\* The stages of the reset, the detection of the wires and the bytes on their way
\* fit together (resetDevice, detectWires, sync_5_1 and tx of js/link.js).
THEOREM LinkInvariant == FairSpec => []LinkInv
  BY InitInv, StepInv, PTL DEF FairSpec

LEMMA InvIsReset == LinkInv => ResetIsOver
<1> SUFFICES ASSUME LinkInv PROVE ResetIsOver
  OBVIOUS
<1>1. options \in [{"brk", "dtr", "rts"} -> BOOLEAN] /\ lines \in [{"brk", "dtr", "rts"} -> BOOLEAN]
  BY DEF LinkInv, TypeOK, Lines
<1> QED
  BY <1>1 DEF LinkInv, TypeOK, StageInv, ResetIsOver

\* sync_5_1 never speaks to a module that resetDevice holds in reset.
THEOREM ResetEnds == FairSpec => []ResetIsOver
  BY LinkInvariant, InvIsReset, PTL

\* sync_5_1 does not take what the attempt sent for an answer of the module, if
\* no echo of an earlier byte escaped the flush of that attempt.
THEOREM EchoIsNoAnswer == FairSpec => []OkIsAnswer
<1>1. LinkInv => OkIsAnswer
  BY DEF LinkInv
<1> QED
  BY <1>1, LinkInvariant, PTL
=============================================================================
