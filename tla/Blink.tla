------------------------------- MODULE Blink -------------------------------
(***************************************************************************)
(* The main loop of the test module (hw/testmod/main.c): the LED is lit    *)
(* when the UART is synchronized, and blinks when the module is addressed. *)
(* Times are counts of overflows, on 16 bits.                              *)
(***************************************************************************)
EXTENDS Integers

CONSTANTS
  Wide,   \* number of counts: 2^16
  BLINK,  \* duration of a blink
  Loops   \* iterations of the loop that end before the next overflow

ASSUME BlinkAssumption ==
  BLINK \in Nat \ {0} /\ Wide \in Nat /\ Wide > 2 * BLINK /\ Loops \in Nat \ {0}

VARIABLES
  countx,   \* what get_countx returns
  bus,      \* flags.bus
  blinking, \* flags.blink
  blink,    \* count at which the LED changes
  led,
  step,       \* "sync", "event", "trigger" or "process"
  done,     \* iterations since the last overflow
  off       \* auxiliary: overflows since the LED went off

blinkVars == <<countx, bus, blinking, blink, led, step, done, off>>

BlinkInit ==
  /\ countx \in 0..(Wide - 1) /\ bus = FALSE /\ blinking = FALSE /\ blink = 0
  /\ led = FALSE /\ step = "sync" /\ done = 0 /\ off = 0

\* An overflow of the counter, at any point of an iteration.
Tick ==
  /\ step # "sync" => done >= Loops
  /\ countx' = (countx + 1) % Wide /\ done' = 0
  /\ off' = IF led \/ step = "sync" THEN 0 ELSE off + 1
  /\ UNCHANGED <<bus, blinking, blink, led, step>>

\* The UART is synchronized: the LED is lit, and the loop begins.
Synchronized ==
  /\ step = "sync" /\ step' = "event" /\ led' = TRUE
  /\ UNCHANGED <<countx, bus, blinking, blink, done, off>>

\* bus_sm, which may find that the module is addressed.
BusEvent ==
  /\ step = "event" /\ step' = "trigger" /\ bus' \in {bus, TRUE}
  /\ UNCHANGED <<countx, blinking, blink, led, done, off>>

\* The sum is a floating-point number (BLINK is one); it is converted to an
\* integer of 32 bits by the library of the compiler, then cut to 16 bits.
Sum(x) == (x + BLINK) % Wide

\* Mutant: a blink that is asked for begins again.
TriggerAgain ==
  /\ step = "trigger" /\ step' = "process" /\ bus' = FALSE
  /\ IF bus
     THEN blinking' = TRUE /\ blink' = Sum(countx) /\ led' = FALSE
     ELSE UNCHANGED <<blinking, blink, led>>
  /\ UNCHANGED <<countx, done, off>>

\* flags.bus is cleared; a blink begins unless there is one.
Trigger ==
  /\ step = "trigger" /\ step' = "process" /\ bus' = FALSE
  /\ IF bus /\ ~blinking
     THEN blinking' = TRUE /\ blink' = Sum(countx) /\ led' = FALSE /\ off' = 0
     ELSE UNCHANGED <<blinking, blink, led, off>>
  /\ UNCHANGED <<countx, done>>

\* Mutant: flags.blink is not cleared.
ProcessGoesOn ==
  /\ step = "process" /\ step' = "event" /\ done' = IF done < Loops THEN done + 1 ELSE done
  /\ IF blinking /\ countx >= blink /\ ~led
     THEN led' = TRUE /\ blink' = Sum(blink)
     ELSE UNCHANGED <<blink, led>>
  /\ UNCHANGED <<countx, bus, off, blinking>>

\* The LED is lit again at the count, and the blink ends at the next one.
Process ==
  /\ step = "process" /\ step' = "event" /\ done' = IF done < Loops THEN done + 1 ELSE done
  /\ IF blinking /\ countx >= blink
     THEN IF ~led THEN led' = TRUE /\ blink' = Sum(blink) /\ UNCHANGED blinking
          ELSE blinking' = FALSE /\ UNCHANGED <<led, blink>>
     ELSE UNCHANGED <<blinking, blink, led>>
  /\ UNCHANGED <<countx, bus, off>>

Loop == BusEvent \/ Trigger \/ Process

BlinkNext == Tick \/ Synchronized \/ Loop

\* The loop never waits, and the counter runs.
BlinkSpec ==
  BlinkInit /\ [][BlinkNext]_blinkVars /\ WF_blinkVars(Loop) /\ WF_blinkVars(Tick)

-----------------------------------------------------------------------------
BlinkTypeOK ==
  /\ countx \in 0..(Wide - 1) /\ blink \in 0..(Wide - 1) /\ off \in Nat
  /\ bus \in BOOLEAN /\ blinking \in BOOLEAN /\ led \in BOOLEAN
  /\ step \in {"sync", "event", "trigger", "process"} /\ done \in 0..Loops
  /\ step # "sync" /\ ~led => blinking

\* Though counts wrap, the LED is not off for more than a blink: the loop sees
\* each count, those just before the wrap included.  A blink may be shorter than
\* BLINK: a sum that wraps is already passed.  (With the types of the variables.)
OffIsShort == BlinkTypeOK /\ off <= BLINK

\* The LED comes on again, and the blink ends, however often the module is
\* addressed.
BlinkEnds == blinking ~> (led /\ ~blinking)
=============================================================================
