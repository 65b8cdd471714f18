---------------------------- MODULE MCHardware -----------------------------
(***************************************************************************)
(* The targets of hw/ATtinyX4.js, two of which are one object, with two of *)
(* their ten pins, and the drawing of their package, which has 14.         *)
(***************************************************************************)
EXTENDS Hardware, Dil

CONSTANTS tiny44, tiny84

MCKeys == <<"ATtiny44", "ATtiny84", "ATtinyX4">>
MCChips == {tiny44, tiny84}
MCObject == <<tiny44, tiny84, tiny44>>
MCNames == {"PA0", "PB1"}
MCPins == [c \in Chips |-> Names]

DrawnInit == Init /\ DilInit

\* The handlers run once the drawing is complete.  Packages of other sizes are
\* those of no target yet: they are only drawn.
DrawnNext ==
  \/ DilNext /\ UNCHANGED vars
  \/ Len(pins) = npins /\ npins = 14 /\ Next /\ UNCHANGED dilVars

DrawnSpec == DrawnInit /\ [][DrawnNext]_<<vars, dilVars>>
=============================================================================
