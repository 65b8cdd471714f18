------------------------------ MODULE Counter ------------------------------
(***************************************************************************)
(* The extended counter of the test module (hw/testmod/counter.sx): an     *)
(* 8-bit hardware counter extended to 24 bits by its overflow interrupt,   *)
(* and the two functions that read it without masking interrupts.          *)
(*                                                                         *)
(* One action per instruction that reads or writes what the two sides      *)
(* share.  Bytes are digits 0 .. B-1.  The hardware counter may count at   *)
(* any time.  Its overflow raises the interrupt, which preempts the        *)
(* reader, but Slack of its instructions may be executed before.           *)
(*                                                                         *)
(* Named assumptions on the timing, which the clock of the counter (the    *)
(* system clock divided by 8, so 2048 cycles between overflows) justifies: *)
(*   - the interrupt is served and over before the next overflow;          *)
(*   - fewer than B interrupts separate the first and the last load of one *)
(*     attempt of the reader.                                              *)
(***************************************************************************)
EXTENDS Naturals

CONSTANTS
  B,       \* number of values of a byte: 256
  Slack    \* instructions of the reader executed with the interrupt raised

ASSUME BaseAssumption == B \in Nat /\ B >= 2

ASSUME SlackAssumption == Slack \in {0, 1}

Byte == 0 .. B - 1

VARIABLES
  count,   \* hardware: register COUNT
  raised,  \* hardware: the overflow flag is set, its interrupt is not started
  slack,   \* instructions of the reader executed since the flag was set
  lo, hi,  \* memory: countx+0 and countx+1
  isr,     \* next instruction of the interrupt routine, or "idle"
  il, ih,  \* its registers r24 and r25
  pc,      \* next instruction of the reader, or "idle"
  wide,    \* the reader is get_count32, else get_countx
  rl, rh,  \* its copies of countx+0 and countx+1
  rc,      \* its copy of COUNT
  again,   \* its second copy of countx+0
  tl, th,  \* auxiliary: how many times the counter overflowed, as two bytes
  served,  \* auxiliary: interrupts over since the attempt began
  seen     \* auxiliary: the true count when the reader sampled it

hwVars == <<count, raised, tl, th>>
memVars == <<lo, hi>>
isrVars == <<isr, il, ih>>
readerVars == <<pc, wide, rl, rh, rc, again, seen>>
vars == <<hwVars, slack, memVars, isrVars, readerVars, served>>

\* Value of one more than a byte, as the processor computes it.
IncByte(b) == IF b = B - 1 THEN 0 ELSE b + 1

\* adiw r24,1 on the pair h:l.
IncHigh(l, h) == IF l = B - 1 THEN IncByte(h) ELSE h

\* The count that a reader should get.
TrueCount == [c |-> count, l |-> tl, h |-> th]

\* Instructions between the first and the last load of an attempt.
Attempt == {"high", "count", "again"}

Init ==
  /\ count = 0 /\ raised = FALSE /\ slack = 0
  /\ lo = 0 /\ hi = 0 /\ tl = 0 /\ th = 0
  /\ isr = "idle" /\ il = 0 /\ ih = 0
  /\ pc = "idle" /\ wide = TRUE
  /\ rl = 0 /\ rh = 0 /\ rc = 0 /\ again = 0
  /\ served = 0 /\ seen = TrueCount

-----------------------------------------------------------------------------
(* The hardware.                                                           *)

Count ==
  /\ count < B - 1
  /\ count' = count + 1
  /\ UNCHANGED <<raised, tl, th, slack, memVars, isrVars, readerVars, served>>

\* The first timing assumption is the guard on "raised" and "isr", the second
\* one is the guard on "served".
Overflow ==
  /\ count = B - 1
  /\ ~raised /\ isr = "idle"
  /\ pc \in Attempt => served < B - 1
  /\ count' = 0 /\ raised' = TRUE /\ slack' = 0
  /\ tl' = IncByte(tl) /\ th' = IncHigh(tl, th)
  /\ UNCHANGED <<memVars, isrVars, readerVars, served>>

-----------------------------------------------------------------------------
(* The interrupt routine.  It is cut into its accesses to countx, which is *)
(* not updated atomically.                                                 *)

Interrupt ==
  /\ raised /\ isr = "idle"
  /\ raised' = FALSE /\ isr' = "load0"
  /\ UNCHANGED <<count, tl, th, slack, memVars, il, ih, readerVars, served>>

Load0 ==
  /\ isr = "load0"
  /\ il' = lo /\ isr' = "load1"
  /\ UNCHANGED <<hwVars, slack, memVars, ih, readerVars, served>>

Load1 ==
  /\ isr = "load1"
  /\ ih' = hi /\ isr' = "add"
  /\ UNCHANGED <<hwVars, slack, memVars, il, readerVars, served>>

\* Mutant: inc r24 instead of adiw r24,1, the carry is lost.
AddLow ==
  /\ isr = "add"
  /\ il' = IncByte(il) /\ isr' = "store0"
  /\ UNCHANGED <<hwVars, slack, memVars, ih, readerVars, served>>

Add ==
  /\ isr = "add"
  /\ il' = IncByte(il) /\ ih' = IncHigh(il, ih) /\ isr' = "store0"
  /\ UNCHANGED <<hwVars, slack, memVars, readerVars, served>>

Store0 ==
  /\ isr = "store0"
  /\ lo' = il /\ isr' = "store1"
  /\ UNCHANGED <<hwVars, slack, hi, il, ih, readerVars, served>>

Store1 ==
  /\ isr = "store1"
  /\ hi' = ih /\ isr' = "reti"
  /\ UNCHANGED <<hwVars, slack, lo, il, ih, readerVars, served>>

Return ==
  /\ isr = "reti"
  /\ isr' = "idle"
  /\ served' = IF pc \in Attempt THEN served + 1 ELSE served
  /\ UNCHANGED <<hwVars, slack, memVars, il, ih, readerVars>>

Isr == Interrupt \/ Load0 \/ Load1 \/ Add \/ Store0 \/ Store1 \/ Return

-----------------------------------------------------------------------------
(* The readers, get_count32 and get_countx.                                *)

\* The reader executes an instruction: not within the interrupt routine, and
\* not once the interrupt must be served.
Reads(label) ==
  /\ pc = label /\ isr = "idle"
  /\ raised => slack < Slack
  /\ slack' = IF raised THEN slack + 1 ELSE slack
  /\ UNCHANGED <<hwVars, memVars, isrVars>>

Call(w) ==
  /\ Reads("idle")
  /\ pc' = "low" /\ wide' = w
  /\ served' = 0
  /\ UNCHANGED <<rl, rh, rc, again, seen>>

\* lds countx+0: an attempt begins.
ReadLow ==
  /\ Reads("low")
  /\ rl' = lo /\ served' = 0
  /\ pc' = "high"
  /\ UNCHANGED <<wide, rh, rc, again, seen>>

\* lds countx+1: what get_countx returns is sampled.
ReadHigh ==
  /\ Reads("high")
  /\ rh' = hi
  /\ pc' = IF wide THEN "count" ELSE "again"
  /\ seen' = IF wide THEN seen ELSE TrueCount
  /\ UNCHANGED <<wide, rl, rc, again, served>>

\* XLD COUNT: what get_count32 returns is sampled.
ReadCount ==
  /\ Reads("count")
  /\ rc' = count /\ seen' = TrueCount
  /\ pc' = "again"
  /\ UNCHANGED <<wide, rl, rh, again, served>>

\* lds countx+0 again.
ReadAgain ==
  /\ Reads("again")
  /\ again' = lo
  /\ pc' = "compare"
  /\ UNCHANGED <<wide, rl, rh, rc, seen, served>>

\* Mutants: no brne, or breq instead of brne.
CompareNothing ==
  /\ Reads("compare")
  /\ pc' = "ret"
  /\ UNCHANGED <<wide, rl, rh, rc, again, seen, served>>

CompareInverted ==
  /\ Reads("compare")
  /\ pc' = IF rl = again THEN "low" ELSE "ret"
  /\ UNCHANGED <<wide, rl, rh, rc, again, seen, served>>

\* cp, brne.
Compare ==
  /\ Reads("compare")
  /\ pc' = IF rl = again THEN "ret" ELSE "low"
  /\ UNCHANGED <<wide, rl, rh, rc, again, seen, served>>

Ret ==
  /\ Reads("ret")
  /\ pc' = "idle"
  /\ UNCHANGED <<wide, rl, rh, rc, again, seen, served>>

Proceed == ReadLow \/ ReadHigh \/ ReadCount \/ ReadAgain \/ Compare \/ Ret

Reader == Proceed \/ \E w \in BOOLEAN : Call(w)

Next == Count \/ Overflow \/ Isr \/ Reader

Spec == Init /\ [][Next]_vars

\* The processor goes on executing instructions; nobody has to call the reader.
FairSpec == Spec /\ WF_vars(Isr) /\ WF_vars(Proceed)

-----------------------------------------------------------------------------
(* Correctness.                                                            *)

IsrLabels == {"idle", "load0", "load1", "add", "store0", "store1", "reti"}
ReaderLabels == {"idle", "low", "high", "count", "again", "compare", "ret"}

TypeOK ==
  /\ count \in Byte /\ raised \in BOOLEAN /\ slack \in {0, 1}
  /\ lo \in Byte /\ hi \in Byte /\ tl \in Byte /\ th \in Byte
  /\ isr \in IsrLabels /\ il \in Byte /\ ih \in Byte
  /\ pc \in ReaderLabels /\ wide \in BOOLEAN
  /\ rl \in Byte /\ rh \in Byte /\ rc \in Byte /\ again \in Byte
  /\ served \in Byte
  /\ seen \in [c : Byte, l : Byte, h : Byte]

\* Match: the reader holds the count that it sampled.
Match == rl = seen.l /\ rh = seen.h /\ (wide => rc = seen.c)

\* What the reader returns is a value the counter had during the call: not the
\* low byte of one count with the high bytes of another.
ReturnsSample == pc = "ret" => Match

\* countx is the number of overflows whenever no overflow waits to be counted.
CountxIsExact == ~raised /\ isr = "idle" => lo = tl /\ hi = th

\* Once the counter stops overflowing, a call that began returns.
ReaderReturns == []<><<Overflow>>_vars \/ []<>(pc = "idle")

-----------------------------------------------------------------------------
(* The inductive invariant that implies ReturnsSample and CountxIsExact.   *)

\* l:h has one overflow to count before it is the true one.
OneBehind(l, h) == tl = IncByte(l) /\ th = IncHigh(l, h)

\* Where the routine is in the count of an overflow.
MemoryInv ==
  /\ CountxIsExact
  /\ raised => isr = "idle" /\ OneBehind(lo, hi)
  /\ isr \in {"load0", "load1", "add", "store0"} => OneBehind(lo, hi)
  /\ isr \in {"load1", "add"} => il = lo
  /\ isr = "add" => ih = hi
  /\ isr \in {"store0", "store1"} => il = tl /\ ih = th
  /\ isr \in {"store1", "reti"} => lo = tl
  /\ isr = "reti" => hi = th

\* Increments of countx+0 since the attempt began.
Increments == IF isr \in {"store1", "reti"} THEN served + 1 ELSE served

\* countx+0 went at most once around since the attempt began, so that it is equal to
\* the first copy only if it was not incremented.
LowInv ==
  pc \in Attempt =>
    /\ raised \/ isr # "idle" => served <= B - 2
    /\ lo = rl + Increments \/ lo = rl + Increments - B

\* The copy of countx+1 is good as long as no interrupt is over.
HighInv == pc = "count" /\ served = 0 /\ isr # "reti" => rh = hi

\* The sample is good unless an overflow was waiting when it was taken, which
\* the last load of the attempt will notice.
SampleInv ==
  /\ pc = "again" /\ served = 0 /\ isr = "idle" /\ (raised => slack = 0) => Match
  /\ pc = "compare" /\ rl = again => Match

CounterInv == TypeOK /\ MemoryInv /\ LowInv /\ HighInv /\ SampleInv /\ ReturnsSample
=============================================================================
