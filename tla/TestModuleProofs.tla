-------------------------- MODULE TestModuleProofs --------------------------
(***************************************************************************)
(* The test module: the extended counter returns values that it had, and   *)
(* the LED of the main loop, which reads it, is off at most for a blink.   *)
(***************************************************************************)
EXTENDS Counter, Blink, TLAPS

-----------------------------------------------------------------------------
(***************************************************************************)
(* The extended counter returns values that it had, for every base B and   *)
(* with at most one instruction of slack.                                  *)
(*                                                                         *)
(* CounterInv is inductive.  One lemma per conjunct shows that every       *)
(* action keeps it: the types, where the interrupt routine is in the count *)
(* of an overflow (MemoryInv), that an incremented countx+0 differs from   *)
(* its first copy (LowInv), and what the reader holds (HighInv, SampleInv, *)
(* ReturnsSample).                                                         *)
(***************************************************************************)

\* IncByte and IncHigh return bytes.
LEMMA IncBytes ==
  ASSUME NEW l \in Byte, NEW h \in Byte
  PROVE  IncByte(l) \in Byte /\ IncHigh(l, h) \in Byte
BY BaseAssumption DEF Byte, IncByte, IncHigh

\* The invariant holds initially.
LEMMA InitInv == Init => CounterInv
<1> SUFFICES ASSUME Init PROVE CounterInv
  OBVIOUS
<1>1. TypeOK
  <2>1. 0 \in Byte
    BY BaseAssumption DEF Byte
  <2>2. seen \in [c : Byte, l : Byte, h : Byte]
    BY <2>1 DEF Init, TrueCount
  <2> QED
    BY <2>1, <2>2 DEF Init, TypeOK, IsrLabels, ReaderLabels
<1>2. MemoryInv /\ LowInv /\ HighInv /\ SampleInv /\ ReturnsSample
  BY DEF Init, MemoryInv, LowInv, HighInv, SampleInv, ReturnsSample, CountxIsExact, Attempt
<1> QED
  BY <1>1, <1>2 DEF CounterInv

\* Every action keeps the types.
LEMMA TypeStep == CounterInv /\ [Next]_vars => TypeOK'
<1> SUFFICES ASSUME CounterInv, [Next]_vars PROVE TypeOK'
  OBVIOUS
<1> USE BaseAssumption, SlackAssumption DEF CounterInv, TypeOK, Byte, IsrLabels, ReaderLabels, hwVars, memVars, isrVars, readerVars
<1>1. CASE Count
  BY <1>1 DEF Count
<1>2. CASE Overflow
  BY <1>2, IncBytes DEF Overflow
<1>3. CASE Interrupt
  BY <1>3 DEF Interrupt
<1>4. CASE Load0
  BY <1>4 DEF Load0
<1>5. CASE Load1
  BY <1>5 DEF Load1
<1>6. CASE Add
  BY <1>6, IncBytes DEF Add
<1>7. CASE Store0
  BY <1>7 DEF Store0
<1>8. CASE Store1
  BY <1>8 DEF Store1
<1>9. CASE Return
  BY <1>9 DEF Return, LowInv, Attempt
<1>10. ASSUME NEW w \in BOOLEAN, Call(w) PROVE TypeOK'
  BY <1>10 DEF Call, Reads
<1>11. CASE ReadLow
  BY <1>11 DEF ReadLow, Reads
<1>12. CASE ReadHigh
  BY <1>12 DEF ReadHigh, Reads, TrueCount
<1>13. CASE ReadCount
  BY <1>13 DEF ReadCount, Reads, TrueCount
<1>14. CASE ReadAgain
  BY <1>14 DEF ReadAgain, Reads
<1>15. CASE Compare
  BY <1>15 DEF Compare, Reads
<1>16. CASE Ret
  BY <1>16 DEF Ret, Reads
<1>17. CASE UNCHANGED vars
  BY <1>17 DEF vars
<1> QED
  BY <1>1, <1>2, <1>3, <1>4, <1>5, <1>6, <1>7, <1>8, <1>9, <1>10, <1>11, <1>12, <1>13, <1>14, <1>15, <1>16, <1>17 DEF Next, Isr, Reader, Proceed

\* Every action keeps the interrupt routine in step with the overflows.
LEMMA MemoryStep == CounterInv /\ [Next]_vars => MemoryInv'
<1> SUFFICES ASSUME CounterInv, [Next]_vars PROVE MemoryInv'
  OBVIOUS
<1> USE BaseAssumption, SlackAssumption DEF CounterInv, TypeOK, MemoryInv, CountxIsExact, OneBehind, hwVars, memVars, isrVars, readerVars
<1>1. CASE Count
  BY <1>1 DEF Count
<1>2. CASE Overflow
  BY <1>2 DEF Overflow
<1>3. CASE Interrupt
  BY <1>3 DEF Interrupt
<1>4. CASE Load0
  BY <1>4 DEF Load0
<1>5. CASE Load1
  BY <1>5 DEF Load1
<1>6. CASE Add
  BY <1>6 DEF Add
<1>7. CASE Store0
  BY <1>7 DEF Store0
<1>8. CASE Store1
  BY <1>8 DEF Store1
<1>9. CASE Return
  BY <1>9 DEF Return
<1>10. ASSUME NEW w \in BOOLEAN, Call(w) PROVE MemoryInv'
  BY <1>10 DEF Call, Reads
<1>11. CASE ReadLow
  BY <1>11 DEF ReadLow, Reads
<1>12. CASE ReadHigh
  BY <1>12 DEF ReadHigh, Reads
<1>13. CASE ReadCount
  BY <1>13 DEF ReadCount, Reads
<1>14. CASE ReadAgain
  BY <1>14 DEF ReadAgain, Reads
<1>15. CASE Compare
  BY <1>15 DEF Compare, Reads
<1>16. CASE Ret
  BY <1>16 DEF Ret, Reads
<1>17. CASE UNCHANGED vars
  BY <1>17 DEF vars
<1> QED
  BY <1>1, <1>2, <1>3, <1>4, <1>5, <1>6, <1>7, <1>8, <1>9, <1>10, <1>11, <1>12, <1>13, <1>14, <1>15, <1>16, <1>17 DEF Next, Isr, Reader, Proceed

\* Every action keeps the relation of countx+0 with its first copy.
LEMMA LowStep == CounterInv /\ [Next]_vars => LowInv'
<1> SUFFICES ASSUME CounterInv, [Next]_vars PROVE LowInv'
  OBVIOUS
<1> USE BaseAssumption, SlackAssumption DEF CounterInv, TypeOK, Byte, LowInv, Increments, Attempt, hwVars, memVars, isrVars, readerVars
<1>1. CASE Count
  BY <1>1 DEF Count
<1>2. CASE Overflow
  BY <1>2 DEF Overflow
<1>3. CASE Interrupt
  BY <1>3 DEF Interrupt
<1>4. CASE Load0
  BY <1>4 DEF Load0
<1>5. CASE Load1
  BY <1>5 DEF Load1
<1>6. CASE Add
  BY <1>6 DEF Add
<1>7. CASE Store0
  BY <1>7 DEF Store0, MemoryInv, OneBehind, IncByte
<1>8. CASE Store1
  BY <1>8 DEF Store1
<1>9. CASE Return
  BY <1>9 DEF Return, MemoryInv
<1>10. ASSUME NEW w \in BOOLEAN, Call(w) PROVE LowInv'
  BY <1>10 DEF Call, Reads
<1>11. CASE ReadLow
  BY <1>11 DEF ReadLow, Reads
<1>12. CASE ReadHigh
  BY <1>12 DEF ReadHigh, Reads
<1>13. CASE ReadCount
  BY <1>13 DEF ReadCount, Reads
<1>14. CASE ReadAgain
  BY <1>14 DEF ReadAgain, Reads
<1>15. CASE Compare
  BY <1>15 DEF Compare, Reads
<1>16. CASE Ret
  BY <1>16 DEF Ret, Reads
<1>17. CASE UNCHANGED vars
  BY <1>17 DEF vars
<1> QED
  BY <1>1, <1>2, <1>3, <1>4, <1>5, <1>6, <1>7, <1>8, <1>9, <1>10, <1>11, <1>12, <1>13, <1>14, <1>15, <1>16, <1>17 DEF Next, Isr, Reader, Proceed

\* Every action keeps the copy of countx+1 good until an interrupt is over.
LEMMA HighStep == CounterInv /\ [Next]_vars => HighInv'
<1> SUFFICES ASSUME CounterInv, [Next]_vars PROVE HighInv'
  OBVIOUS
<1> USE BaseAssumption, SlackAssumption DEF CounterInv, TypeOK, HighInv, Byte, hwVars, memVars, isrVars, readerVars
<1>1. CASE Count
  BY <1>1 DEF Count
<1>2. CASE Overflow
  BY <1>2 DEF Overflow
<1>3. CASE Interrupt
  BY <1>3 DEF Interrupt
<1>4. CASE Load0
  BY <1>4 DEF Load0
<1>5. CASE Load1
  BY <1>5 DEF Load1
<1>6. CASE Add
  BY <1>6 DEF Add
<1>7. CASE Store0
  BY <1>7 DEF Store0
<1>8. CASE Store1
  BY <1>8 DEF Store1
<1>9. CASE Return
  BY <1>9 DEF Return, LowInv, Attempt
<1>10. ASSUME NEW w \in BOOLEAN, Call(w) PROVE HighInv'
  BY <1>10 DEF Call, Reads
<1>11. CASE ReadLow
  BY <1>11 DEF ReadLow, Reads
<1>12. CASE ReadHigh
  BY <1>12 DEF ReadHigh, Reads
<1>13. CASE ReadCount
  BY <1>13 DEF ReadCount, Reads
<1>14. CASE ReadAgain
  BY <1>14 DEF ReadAgain, Reads
<1>15. CASE Compare
  BY <1>15 DEF Compare, Reads
<1>16. CASE Ret
  BY <1>16 DEF Ret, Reads
<1>17. CASE UNCHANGED vars
  BY <1>17 DEF vars
<1> QED
  BY <1>1, <1>2, <1>3, <1>4, <1>5, <1>6, <1>7, <1>8, <1>9, <1>10, <1>11, <1>12, <1>13, <1>14, <1>15, <1>16, <1>17 DEF Next, Isr, Reader, Proceed

\* Every action keeps the sample good until an interrupt is over.
LEMMA SampleStep == CounterInv /\ [Next]_vars => SampleInv'
<1> SUFFICES ASSUME CounterInv, [Next]_vars PROVE SampleInv'
  OBVIOUS
<1> USE BaseAssumption, SlackAssumption DEF CounterInv, TypeOK, SampleInv, Match, hwVars, memVars, isrVars, readerVars
<1>1. CASE Count
  BY <1>1 DEF Count
<1>2. CASE Overflow
  BY <1>2 DEF Overflow
<1>3. CASE Interrupt
  BY <1>3 DEF Interrupt
<1>4. CASE Load0
  BY <1>4 DEF Load0
<1>5. CASE Load1
  BY <1>5 DEF Load1
<1>6. CASE Add
  BY <1>6 DEF Add
<1>7. CASE Store0
  BY <1>7 DEF Store0
<1>8. CASE Store1
  BY <1>8 DEF Store1
<1>9. CASE Return
  BY <1>9 DEF Return, LowInv, Attempt, Byte
<1>10. ASSUME NEW w \in BOOLEAN, Call(w) PROVE SampleInv'
  BY <1>10 DEF Call, Reads
<1>11. CASE ReadLow
  BY <1>11 DEF ReadLow, Reads
<1>12. CASE ReadHigh
  BY <1>12 DEF ReadHigh, Reads, TrueCount, MemoryInv, CountxIsExact, LowInv, Attempt, Increments, Byte
<1>13. CASE ReadCount
  BY <1>13 DEF ReadCount, Reads, TrueCount, MemoryInv, CountxIsExact, LowInv, Attempt, Increments, Byte, HighInv
<1>14. CASE ReadAgain
  BY <1>14 DEF ReadAgain, Reads, LowInv, Attempt, Increments, Byte
<1>15. CASE Compare
  BY <1>15 DEF Compare, Reads
<1>16. CASE Ret
  BY <1>16 DEF Ret, Reads
<1>17. CASE UNCHANGED vars
  BY <1>17 DEF vars
<1> QED
  BY <1>1, <1>2, <1>3, <1>4, <1>5, <1>6, <1>7, <1>8, <1>9, <1>10, <1>11, <1>12, <1>13, <1>14, <1>15, <1>16, <1>17 DEF Next, Isr, Reader, Proceed

\* Every action keeps what the reader is about to return.
LEMMA ReturnStep == CounterInv /\ [Next]_vars => ReturnsSample'
<1> SUFFICES ASSUME CounterInv, [Next]_vars PROVE ReturnsSample'
  OBVIOUS
<1> USE BaseAssumption, SlackAssumption DEF CounterInv, TypeOK, ReturnsSample, Match, hwVars, memVars, isrVars, readerVars
<1>1. CASE Count
  BY <1>1 DEF Count
<1>2. CASE Overflow
  BY <1>2 DEF Overflow
<1>3. CASE Interrupt
  BY <1>3 DEF Interrupt
<1>4. CASE Load0
  BY <1>4 DEF Load0
<1>5. CASE Load1
  BY <1>5 DEF Load1
<1>6. CASE Add
  BY <1>6 DEF Add
<1>7. CASE Store0
  BY <1>7 DEF Store0
<1>8. CASE Store1
  BY <1>8 DEF Store1
<1>9. CASE Return
  BY <1>9 DEF Return
<1>10. ASSUME NEW w \in BOOLEAN, Call(w) PROVE ReturnsSample'
  BY <1>10 DEF Call, Reads
<1>11. CASE ReadLow
  BY <1>11 DEF ReadLow, Reads
<1>12. CASE ReadHigh
  BY <1>12 DEF ReadHigh, Reads
<1>13. CASE ReadCount
  BY <1>13 DEF ReadCount, Reads
<1>14. CASE ReadAgain
  BY <1>14 DEF ReadAgain, Reads
<1>15. CASE Compare
  BY <1>15 DEF Compare, Reads, SampleInv
<1>16. CASE Ret
  BY <1>16 DEF Ret, Reads
<1>17. CASE UNCHANGED vars
  BY <1>17 DEF vars
<1> QED
  BY <1>1, <1>2, <1>3, <1>4, <1>5, <1>6, <1>7, <1>8, <1>9, <1>10, <1>11, <1>12, <1>13, <1>14, <1>15, <1>16, <1>17 DEF Next, Isr, Reader, Proceed

\* The inductive invariant of the counter.
THEOREM CounterInvariant == Spec => []CounterInv
<1>1. CounterInv /\ [Next]_vars => CounterInv'
  BY TypeStep, MemoryStep, LowStep, HighStep, SampleStep, ReturnStep DEF CounterInv
<1> QED
  BY InitInv, <1>1, PTL DEF Spec

\* Every variable of the counter keeps its type.
THEOREM CounterTypes == Spec => []TypeOK
<1>1. CounterInv => TypeOK
  BY DEF CounterInv
<1> QED
  BY CounterInvariant, <1>1, PTL

\* get_count32 and get_countx return a value that the counter had during the
\* call, whatever interrupts come between their instructions.
THEOREM ReadersReturnSamples == Spec => []ReturnsSample
<1>1. CounterInv => ReturnsSample
  BY DEF CounterInv
<1> QED
  BY CounterInvariant, <1>1, PTL

\* countx is the number of overflows whenever none waits to be counted.
THEOREM OverflowsAreCounted == Spec => []CountxIsExact
<1>1. CounterInv => CountxIsExact
  BY DEF CounterInv, MemoryInv
<1> QED
  BY CounterInvariant, <1>1, PTL

-----------------------------------------------------------------------------
(***************************************************************************)
(* The LED, for any width of the counts and any duration of a blink.       *)
(*                                                                         *)
(* BlinkInv is inductive: it knows the count at which the LED went off     *)
(* (Start), though the program keeps only the sum where the LED goes on.   *)
(***************************************************************************)

\* A count and the duration of a blink, added on the width of the counts.
LEMMA SumWraps ==
  ASSUME NEW x \in 0..(Wide - 1)
  PROVE  Sum(x) = IF x + BLINK < Wide THEN x + BLINK ELSE x + BLINK - Wide
<1>1. Wide \in Nat /\ BLINK \in Nat /\ Wide > 2 * BLINK /\ Wide > 0
  BY BlinkAssumption
<1> DEFINE y == x + BLINK
<1>2. y \in Int /\ y >= 0 /\ y < 2 * Wide
  BY <1>1
<1> HIDE DEF y
<1>3. CASE y < Wide
  <2>1. y % Wide = y
    BY <1>1, <1>2, <1>3
  <2> QED
    BY <2>1, <1>3 DEF y, Sum
<1>4. CASE y >= Wide
  <2>1. y % Wide = y - Wide
    BY <1>1, <1>2, <1>4
  <2> QED
    BY <2>1, <1>4, <1>1, <1>2 DEF y, Sum
<1> QED
  BY <1>1, <1>2, <1>3, <1>4

\* The count that follows.
LEMMA NextCount ==
  ASSUME NEW x \in 0..(Wide - 1)
  PROVE  (x + 1) % Wide = IF x = Wide - 1 THEN 0 ELSE x + 1
<1>1. Wide \in Nat /\ Wide > 1
  BY BlinkAssumption
<1>2. CASE x = Wide - 1
  <2>1. Wide % Wide = 0
    BY <1>1
  <2> QED
    BY <1>1, <1>2, <2>1
<1>3. CASE x # Wide - 1
  <2>1. x + 1 \in 0..(Wide - 1)
    BY <1>1, <1>3
  <2> QED
    BY <1>1, <1>3, <2>1
<1> QED
  BY <1>2, <1>3

\* The count at which the LED went off.
Start == IF countx >= off THEN countx - off ELSE countx - off + Wide

\* While the LED is off, blink is the count where it went off plus BLINK; the
\* count wraps only when that sum does; and an iteration that ended since the
\* last overflow, and after the first, has not found the count passed.
OffInv ==
  step # "sync" /\ ~led =>
    /\ blink = Sum(Start)
    /\ countx < off => Start + BLINK >= Wide
    /\ off >= 1 /\ done >= 1 => countx < blink

BlinkInv == OffIsShort /\ OffInv /\ (step = "sync" => off = 0)

USE DEF BlinkInv, OffIsShort, BlinkTypeOK

LEMMA BlinkInitInv == BlinkInit => BlinkInv
<1> SUFFICES ASSUME BlinkInit PROVE BlinkInv
  OBVIOUS
<1>1. Wide \in Nat /\ Wide > 1 /\ BLINK \in Nat /\ Loops \in Nat
  BY BlinkAssumption
<1>2. bus \in BOOLEAN /\ blinking \in BOOLEAN /\ led \in BOOLEAN
  BY DEF BlinkInit
<1>3. step = "sync" /\ blink = 0 /\ done = 0 /\ off = 0 /\ countx \in 0..(Wide - 1)
  BY DEF BlinkInit
<1>4. OffInv
  BY <1>3 DEF OffInv
<1>5. OffIsShort
  BY <1>1, <1>2, <1>3
<1> QED
  BY <1>3, <1>4, <1>5

\* An overflow while the LED is off: the loop has compared the count before it.
LEMMA TickInv == ASSUME BlinkInv, Tick PROVE BlinkInv'
<1>1. Wide \in Nat /\ BLINK \in Nat \ {0} /\ Wide > 2 * BLINK /\ Loops \in Nat \ {0}
  BY BlinkAssumption
<1>2. countx' = (IF countx = Wide - 1 THEN 0 ELSE countx + 1) /\ done' = 0
  BY NextCount DEF Tick
<1>3. UNCHANGED <<bus, blinking, blink, led, step>>
  BY DEF Tick
<1>4. CASE led \/ step = "sync"
  <2>1. off' = 0
    BY <1>4 DEF Tick
  <2> QED
    BY <1>1, <1>2, <1>3, <1>4, <2>1 DEF OffInv, Start
<1>5. CASE ~led /\ step # "sync"
  <2>1. off' = off + 1 /\ done >= 1
    BY <1>1, <1>5 DEF Tick
  <2>2. Start \in 0..(Wide - 1)
    BY <1>1 DEF Start
  <2>3. blink = IF Start + BLINK < Wide THEN Start + BLINK ELSE Start + BLINK - Wide
    BY <1>5, <2>2, SumWraps DEF OffInv
  <2>4. /\ countx < off => Start + BLINK >= Wide
        /\ off >= 1 => countx < blink
    BY <1>5, <2>1 DEF OffInv
  <2>5. off' <= BLINK
    BY <1>1, <2>1, <2>2, <2>3, <2>4 DEF Start
  <2>6. Start' = Start /\ (countx' < off' => Start + BLINK >= Wide)
    BY <1>1, <1>2, <2>1, <2>2, <2>3, <2>4 DEF Start
  <2>7. OffInv'
    BY <1>2, <1>3, <1>5, <2>6 DEF OffInv, Sum
  <2> QED
    BY <1>1, <1>2, <1>3, <1>5, <2>1, <2>5, <2>7
<1> QED
  BY <1>4, <1>5

LEMMA TriggerInv == ASSUME BlinkInv, Trigger PROVE BlinkInv'
<1>1. Wide \in Nat /\ BLINK \in Nat \ {0} /\ Wide > 2 * BLINK
  BY BlinkAssumption
<1>2. UNCHANGED <<countx, done>> /\ step = "trigger" /\ step' = "process" /\ bus' = FALSE
  BY DEF Trigger
<1>3. CASE bus /\ ~blinking
  <2>1. blinking' = TRUE /\ blink' = Sum(countx) /\ led' = FALSE /\ off' = 0
    BY <1>3 DEF Trigger
  <2>2. blink' \in 0..(Wide - 1)
    BY <1>1, <2>1, SumWraps
  <2>3. Start' = countx
    BY <1>2, <2>1 DEF Start
  <2>4. OffInv'
    BY <1>1, <1>2, <2>1, <2>3 DEF OffInv
  <2>5. bus' \in BOOLEAN /\ blinking' \in BOOLEAN /\ led' \in BOOLEAN
    BY <1>2, <2>1
  <2>6. OffIsShort'
    BY <1>1, <1>2, <2>1, <2>2, <2>5
  <2> QED
    BY <1>2, <2>4, <2>6
<1>4. CASE ~(bus /\ ~blinking)
  BY <1>2, <1>4 DEF Trigger, OffInv, Start
<1> QED
  BY <1>3, <1>4

LEMMA ProcessInv == ASSUME BlinkInv, Process PROVE BlinkInv'
<1>1. Wide \in Nat /\ BLINK \in Nat \ {0} /\ Wide > 2 * BLINK /\ Loops \in Nat \ {0}
  BY BlinkAssumption
<1>2. /\ UNCHANGED <<countx, bus, off>> /\ step = "process" /\ step' = "event"
      /\ done' \in 0..Loops
  BY <1>1 DEF Process
<1>3. CASE blinking /\ countx >= blink /\ ~led
  <2>1. led' = TRUE /\ blink' = Sum(blink) /\ blinking' = blinking
    BY <1>3 DEF Process
  <2>2. blink' \in 0..(Wide - 1)
    BY <1>1, <2>1, SumWraps
  <2> QED
    BY <1>2, <2>1, <2>2 DEF OffInv
<1>4. CASE blinking /\ countx >= blink /\ led
  BY <1>2, <1>4 DEF Process, OffInv
<1>5. CASE ~(blinking /\ countx >= blink)
  <2>1. UNCHANGED <<blinking, blink, led>>
    BY <1>5 DEF Process
  <2>2. ~led => countx < blink
    BY <1>2, <1>5
  <2>3. Start' = Start
    BY <1>2 DEF Start
  <2>4. OffInv'
    BY <1>2, <2>1, <2>2, <2>3 DEF OffInv, Sum
  <2> QED
    BY <1>2, <2>1, <2>4
<1> QED
  BY <1>3, <1>4, <1>5

LEMMA BlinkNextInv == ASSUME BlinkInv, [BlinkNext]_blinkVars PROVE BlinkInv'
<1>1. CASE Tick
  BY <1>1, TickInv
<1>2. CASE Synchronized
  BY <1>2 DEF Synchronized, OffInv
<1>3. CASE BusEvent
  BY <1>3 DEF BusEvent, OffInv, Start
<1>4. CASE Trigger
  BY <1>4, TriggerInv
<1>5. CASE Process
  BY <1>5, ProcessInv
<1>6. CASE UNCHANGED blinkVars
  BY <1>6 DEF blinkVars, OffInv, Start
<1> QED
  BY <1>1, <1>2, <1>3, <1>4, <1>5, <1>6 DEF BlinkNext, Loop

\* The comparison of the count with the end of a blink is not one of times on a
\* circle, and counts wrap; yet the LED is off for BLINK overflows at most, for
\* any width of the counts, provided the loop runs once between two overflows.
THEOREM BlinkIsShort == BlinkSpec => []OffIsShort
<1>1. BlinkInv => OffIsShort
  OBVIOUS
<1> QED
  BY BlinkInitInv, BlinkNextInv, <1>1, PTL DEF BlinkSpec
=============================================================================
