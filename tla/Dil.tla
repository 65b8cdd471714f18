-------------------------------- MODULE Dil --------------------------------
(***************************************************************************)
(* The drawing of a dual-in-line package (hw/dil.js): svgDilPackage adds   *)
(* the pins one by one, down the left side and up the right side.  Lengths *)
(* are those of the drawing.  The areas are where the pins are clicked.    *)
(***************************************************************************)
EXTENDS Integers, Sequences

CONSTANT Sizes  \* numbers of pins

ASSUME DilAssumption == Sizes \subseteq Nat /\ \A m \in Sizes : m % 2 = 0

VARIABLES
  npins, \* number of pins
  pins   \* the pins drawn: the area and the pad of each

dilVars == <<npins, pins>>

E0 == 100
B2 == 60
E1(m) == IF m <= 28 THEN 3 * E0 - B2 \div 6 ELSE 6 * E0 - B2 \div 6
D(m) == E0 * (m \div 2 - 1) + 2 * B2

Rect(x, y, w, h) == [x |-> x, y |-> y, w |-> w, h |-> h]
Right(r) == r.x + r.w
Bottom(r) == r.y + r.h

\* Stroke width: 1.
ViewBox(m) == Rect(-(B2 \div 2), -1, E1(m) + B2, D(m) + 2)
Package(m) == Rect(0, 0, E1(m), D(m))

\* The row of pin i, from the top.
Row(m, i) == IF 2 * i < m THEN i ELSE m - i - 1

\* Mutant: the areas of the right side are measured from the left.
AreaNarrow(m, i) ==
  Rect(IF 2 * i < m THEN -(B2 \div 2) ELSE B2 \div 2,
       B2 \div 2 + E0 * Row(m, i) - B2 \div 6, 2 * B2, 8 * (B2 \div 6))

Area(m, i) ==
  Rect(IF 2 * i < m THEN -(B2 \div 2) ELSE E1(m) - 3 * (B2 \div 2),
       B2 \div 2 + E0 * Row(m, i) - B2 \div 6, 2 * B2, 8 * (B2 \div 6))

Pad(m, i) ==
  Rect(IF 2 * i < m THEN -(B2 \div 3) ELSE E1(m),
       B2 \div 2 + E0 * Row(m, i), B2 \div 3, B2)

DilInit == npins \in Sizes /\ pins = <<>>

AddPin ==
  /\ Len(pins) < npins
  /\ pins' = Append(pins, [area |-> Area(npins, Len(pins)), pad |-> Pad(npins, Len(pins))])
  /\ UNCHANGED npins

DilNext == AddPin

DilSpec == DilInit /\ [][DilNext]_dilVars

-----------------------------------------------------------------------------
Apart(r, s) ==
  Right(r) <= s.x \/ Right(s) <= r.x \/ Bottom(r) <= s.y \/ Bottom(s) <= r.y
Inside(r, s) ==
  s.x <= r.x /\ s.y <= r.y /\ Right(r) <= Right(s) /\ Bottom(r) <= Bottom(s)

\* A click is that of one pin: no two areas meet, and no area meets the pad of
\* another pin, for the widths of the two sizes of package.
PinsAreApart ==
  \A j, k \in DOMAIN pins : j # k =>
    /\ Apart(pins[j].area, pins[k].area) /\ Apart(pins[j].pad, pins[k].pad)
    /\ Apart(pins[j].area, pins[k].pad)

\* All that is drawn is seen: the areas and the pads are in the view box, each
\* pad beside the package, between its top and its bottom.
PinsAreSeen ==
  \A j \in DOMAIN pins :
    /\ Inside(pins[j].area, ViewBox(npins)) /\ Inside(pins[j].pad, ViewBox(npins))
    /\ Apart(pins[j].pad, Package(npins))
    /\ 0 <= pins[j].pad.y /\ Bottom(pins[j].pad) <= D(npins)

\* The numbers turn around the package: pins whose numbers sum to npins + 1 face
\* each other on the two sides.
PinsFace ==
  \A j, k \in DOMAIN pins : j + k = npins + 1 =>
    pins[j].pad.y = pins[k].pad.y /\ pins[j].pad.x # pins[k].pad.x
=============================================================================
