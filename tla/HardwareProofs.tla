--------------------------- MODULE HardwareProofs ---------------------------
(***************************************************************************)
(* The hardware window, and the drawing of a package that it shows.        *)
(***************************************************************************)
EXTENDS Hardware, Dil, TLAPS

-----------------------------------------------------------------------------
(***************************************************************************)
(* For any targets and pins, the drawing of the hardware window is that of *)
(* the target, and is a bank of pins.                                      *)
(***************************************************************************)

\* What a new drawing is.
LEMMA LoadedDraws ==
  ASSUME NEW t \in Chips \cup {Undefined}, Loaded(t)
  PROVE  /\ target' = t /\ tips' = "fr" /\ drawing' = drawing
         /\ t = Undefined => classes' \in [{} -> SUBSET {"on", "off"}]
         /\ t # Undefined => classes' = [n \in Pins[t] |-> {}]
<1>1. <<>> \in [{} -> SUBSET {"on", "off"}]
  BY SMT
<1> QED
  BY <1>1 DEF Loaded

LEMMA LoadedInv ==
  ASSUME HardwareInv, NEW t \in Chips \cup {Undefined}, Loaded(t)
  PROVE  /\ target' \in Chips \cup {Undefined} /\ tips' \in Languages
         /\ \E S \in {Pins[c] : c \in Chips} \cup {{}} : classes' \in [S -> SUBSET {"on", "off"}]
         /\ DrawnIsTarget' /\ OneLevel' /\ drawing' = drawing
<1>1. CASE t = Undefined
  BY <1>1, LoadedDraws, HardwareAssumption DEF DrawnIsTarget, OneLevel
<1>2. CASE t # Undefined
  <2>1. t \in Chips /\ classes' = [n \in Pins[t] |-> {}] /\ target' = t
    BY <1>2, LoadedDraws
  <2>2. classes' \in [Pins[t] -> SUBSET {"on", "off"}] /\ DOMAIN classes' = Pins[t]
    BY <2>1
  <2>3. \A n \in Pins[t] : classes'[n] # {"on", "off"}
    BY <2>1
  <2> QED
    BY <1>2, <2>1, <2>2, <2>3, LoadedDraws, HardwareAssumption DEF DrawnIsTarget, OneLevel
<1> QED
  BY <1>1, <1>2

\* Classes changed for one pin, by a click or by the program.
LEMMA ChangedInv ==
  ASSUME HardwareInv, NEW n \in DOMAIN classes, NEW C \in {{"on"}, {"off"}},
         classes' = [classes EXCEPT ![n] = C], target' = target
  PROVE  /\ \E S \in {Pins[c] : c \in Chips} \cup {{}} : classes' \in [S -> SUBSET {"on", "off"}]
         /\ DrawnIsTarget' /\ OneLevel'
<1>1. PICK S \in {Pins[c] : c \in Chips} \cup {{}} : classes \in [S -> SUBSET {"on", "off"}]
  BY DEF HardwareInv, DrawingIsRight, TypeOK
<1>2. C \in SUBSET {"on", "off"} /\ C # {"on", "off"}
  OBVIOUS
<1>3. classes' \in [S -> SUBSET {"on", "off"}] /\ DOMAIN classes' = DOMAIN classes
  BY <1>1, <1>2
<1>4. OneLevel'
  BY <1>1, <1>2, <1>3 DEF HardwareInv, DrawingIsRight, OneLevel
<1> QED
  BY <1>1, <1>3, <1>4 DEF HardwareInv, DrawingIsRight, DrawnIsTarget

\* A pin has one class at most, so that a change leaves it with exactly one.
LEMMA Toggled ==
  ASSUME HardwareInv, NEW n \in DOMAIN classes
  PROVE  /\ (classes[n] \ {"on"}) \cup {"off"} = {"off"}
         /\ (classes[n] \ {"off"}) \cup {"on"} = {"on"}
BY DEF HardwareInv, DrawingIsRight, TypeOK

LEMMA WriteIoChanges ==
  ASSUME HardwareInv, NEW v \in {0, 1, 2}, WriteIo(v)
  PROVE  \/ classes' = classes
         \/ /\ target # Undefined /\ code \in DOMAIN classes
            /\ \E C \in {{"on"}, {"off"}} : classes' = [classes EXCEPT ![code] = C]
<1>1. CASE target = Undefined \/ code \notin DOMAIN classes \/ v \notin {0, 1}
  BY <1>1 DEF WriteIo
<1>2. CASE ~(target = Undefined \/ code \notin DOMAIN classes \/ v \notin {0, 1})
  <2>1. classes' = [classes EXCEPT ![code] =
            IF v = 0 THEN (classes[code] \ {"on"}) \cup {"off"} ELSE (classes[code] \ {"off"}) \cup {"on"}]
    BY <1>2 DEF WriteIo
  <2>2. CASE v = 0
    BY <1>2, <2>1, <2>2, Toggled
  <2>3. CASE v # 0
    BY <1>2, <2>1, <2>3, Toggled
  <2> QED
    BY <2>2, <2>3
<1> QED
  BY <1>1, <1>2

LEMMA PinClickChanges ==
  ASSUME HardwareInv, NEW n \in DOMAIN classes, PinClick(n)
  PROVE  \E C \in {{"on"}, {"off"}} : classes' = [classes EXCEPT ![n] = C]
<1>1. classes' = [classes EXCEPT ![n] =
          IF "on" \in classes[n] THEN (classes[n] \ {"on"}) \cup {"off"} ELSE (classes[n] \ {"off"}) \cup {"on"}]
  BY DEF PinClick
<1>2. CASE "on" \in classes[n]
  BY <1>1, <1>2, Toggled
<1>3. CASE "on" \notin classes[n]
  BY <1>1, <1>3, Toggled
<1> QED
  BY <1>2, <1>3

\* A step that leaves the drawing alone.
LEMMA SameDrawing ==
  ASSUME HardwareInv, UNCHANGED <<target, classes, view>>
  PROVE  /\ target' \in Chips \cup {Undefined}
         /\ \E S \in {Pins[c] : c \in Chips} \cup {{}} : classes' \in [S -> SUBSET {"on", "off"}]
         /\ panel' \in {"", "block", "none"} /\ drawing' \in {"", "block", "none"}
         /\ DrawnIsTarget' /\ OneLevel' /\ OneView'
<1>1. target' = target /\ classes' = classes /\ panel' = panel /\ drawing' = drawing
  BY DEF view
<1>2. DrawnIsTarget' /\ OneLevel' /\ OneView'
  BY <1>1 DEF HardwareInv, DrawingIsRight, DrawnIsTarget, OneLevel, OneView
<1> QED
  BY <1>1, <1>2 DEF HardwareInv, DrawingIsRight, TypeOK

LEMMA FirstTarget == Object[1] \in Chips /\ Object[1] # Undefined /\ 0 \in 0..Len(Keys) - 1
<1>1. Len(Keys) \in Nat /\ Len(Keys) > 0
  BY HardwareAssumption
<1>2. 1 \in 1..Len(Keys) /\ 0 \in 0..Len(Keys) - 1
  BY <1>1
<1> QED
  BY <1>2, HardwareAssumption

\* The pins drawn are pins of a chip.
LEMMA DrawnNames == ASSUME TypeOK PROVE DOMAIN classes \subseteq Names
<1>1. PICK S \in {Pins[c] : c \in Chips} \cup {{}} : classes \in [S -> SUBSET {"on", "off"}]
  BY DEF TypeOK
<1>2. S \subseteq Names
  BY HardwareAssumption
<1> QED
  BY <1>1, <1>2

LEMMA InitInv == Init => HardwareInv
<1> SUFFICES ASSUME Init PROVE HardwareInv
  OBVIOUS
<1> USE DEF Init
<1>1. Object[1] \in Chips /\ Object[1] # Undefined /\ index \in 0..Len(Keys) - 1
  BY FirstTarget
<1>2. classes \in [Pins[Object[1]] -> SUBSET {"on", "off"}]
  OBVIOUS
<1>3. TypeOK
  BY <1>1, <1>2 DEF TypeOK
<1>4. OneLevel /\ OneView /\ DrawnIsTarget
  BY DEF OneLevel, OneView, DrawnIsTarget
<1> QED
  BY <1>3, <1>4 DEF HardwareInv, DrawingIsRight

LEMMA NextInv == ASSUME HardwareInv, [Next]_vars PROVE HardwareInv'
<1> USE DEF HardwareInv, DrawingIsRight, view, program
<1>1. CASE Restore
  <2>1. PICK t \in Chips \cup {Undefined} : Loaded(t)
    BY <1>1 DEF Restore
  <2> QED
    BY <1>1, <2>1, LoadedInv DEF Restore, TypeOK, OneView
<1>2. CASE RestoreThrows
  BY <1>2 DEF RestoreThrows, TypeOK, DrawnIsTarget, OneLevel, OneView
<1>3. ASSUME NEW i \in 0..Len(Keys) - 1, TargetSelected(i) PROVE HardwareInv'
  <2> DEFINE t == IF i = 0 THEN Undefined ELSE Object[i + 1]
  <2>1. t \in Chips \cup {Undefined}
    BY HardwareAssumption
  <2>2. Loaded(t)
    BY <1>3 DEF TargetSelected
  <2> HIDE DEF t
  <2> QED
    BY <1>3, <2>1, <2>2, LoadedInv DEF TargetSelected, TypeOK, OneView
<1>4. CASE ConfigBtn
  BY <1>4 DEF ConfigBtn, TypeOK, DrawnIsTarget, OneLevel, OneView
<1>5. ASSUME NEW n \in DOMAIN classes, PinClick(n) PROVE HardwareInv'
  <2>1. PICK C \in {{"on"}, {"off"}} : classes' = [classes EXCEPT ![n] = C]
    BY <1>5, PinClickChanges
  <2>2. target' = target
    BY <1>5 DEF PinClick
  <2>3. /\ \E S \in {Pins[c] : c \in Chips} \cup {{}} : classes' \in [S -> SUBSET {"on", "off"}]
        /\ DrawnIsTarget' /\ OneLevel'
    BY <2>1, <2>2, ChangedInv
  <2>4. OneView'
    BY <1>5 DEF PinClick, OneView
  <2> QED
    BY <1>5, <2>3, <2>4 DEF PinClick, TypeOK
<1>6. CASE ChangeLanguage
  BY <1>6, SameDrawing DEF ChangeLanguage, TypeOK
<1>7. CASE OpenMenu
  <2>1. DOMAIN classes \subseteq Names
    BY DrawnNames
  <2>2. field' \in Names \cup {"i/o", "?"}
    BY <1>7, <2>1 DEF OpenMenu, TypeOK
  <2> QED
    BY <1>7, <2>2, SameDrawing DEF OpenMenu, TypeOK
<1>8. CASE Reset
  BY <1>8, SameDrawing DEF Reset, TypeOK
<1>9. ASSUME NEW v \in {0, 1, 2}, WriteIo(v) PROVE HardwareInv'
  <2>1. target' = target
    BY <1>9 DEF WriteIo
  <2>2. /\ \E S \in {Pins[c] : c \in Chips} \cup {{}} : classes' \in [S -> SUBSET {"on", "off"}]
        /\ DrawnIsTarget' /\ OneLevel'
    <3>1. CASE classes' = classes
      BY <2>1, <3>1 DEF TypeOK, DrawnIsTarget, OneLevel
    <3>2. ASSUME code \in DOMAIN classes, NEW C \in {{"on"}, {"off"}},
                 classes' = [classes EXCEPT ![code] = C]
          PROVE  /\ \E S \in {Pins[c] : c \in Chips} \cup {{}} : classes' \in [S -> SUBSET {"on", "off"}]
                 /\ DrawnIsTarget' /\ OneLevel'
      BY <2>1, <3>2, ChangedInv
    <3> QED
      BY <1>9, <3>1, <3>2, WriteIoChanges
  <2>3. OneView'
    BY <1>9 DEF WriteIo, OneView
  <2> QED
    BY <1>9, <2>2, <2>3 DEF WriteIo, TypeOK
<1>10. CASE ReadIo
  <2>1. read' \in BOOLEAN /\ dead' \in BOOLEAN
    BY <1>10 DEF ReadIo, TypeOK
  <2> QED
    BY <1>10, <2>1, SameDrawing DEF ReadIo, TypeOK
<1>11. CASE UNCHANGED vars
  BY <1>11, SameDrawing DEF vars, TypeOK
<1> QED
  BY <1>1, <1>2, <1>3, <1>4, <1>5, <1>6, <1>7, <1>8, <1>9, <1>10, <1>11 DEF Next

\* The invariant of the hardware window.
THEOREM HardwareInvariant == Spec => []HardwareInv
BY InitInv, NextInv, PTL DEF Spec

\* Every variable keeps its type.
THEOREM HardwareTypes == Spec => []TypeOK
<1>1. HardwareInv => TypeOK
  BY DEF HardwareInv, DrawingIsRight
<1> QED
  BY HardwareInvariant, <1>1, PTL

\* The target's pins are drawn, each at one level, in one view of the window.
THEOREM DrawingFits == Spec => []DrawingIsRight
<1>1. HardwareInv => DrawingIsRight
  BY DEF HardwareInv, DrawingIsRight
<1> QED
  BY HardwareInvariant, <1>1, PTL

-----------------------------------------------------------------------------

\* Levels of the pins, without and with a target.
LEMMA LevelsAre ==
  /\ target = Undefined => DOMAIN Levels = {}
  /\ target # Undefined => Levels = [n \in DOMAIN classes |-> "on" \in classes[n]]
BY DEF Levels

LEMMA LevelsArePrimed ==
  /\ target' = Undefined => DOMAIN Levels' = {} /\ Levels' = <<>>
  /\ target' # Undefined => Levels' = [n \in DOMAIN classes' |-> "on" \in classes'[n]]
BY DEF Levels

LEMMA LevelsAreBanks == ASSUME HardwareInv PROVE Levels \in Abstract!Banks
<1>1. CASE target = Undefined
  <2>1. Levels \in [{} -> BOOLEAN]
    BY <1>1, SMT DEF Levels
  <2> QED
    BY <2>1 DEF Abstract!Banks
<1>2. CASE target # Undefined
  <2>1. DOMAIN classes = Pins[target] /\ target \in Chips
    BY <1>2 DEF HardwareInv, DrawingIsRight, TypeOK, DrawnIsTarget
  <2>2. DOMAIN classes \in SUBSET Names
    BY <2>1, HardwareAssumption
  <2>3. Levels \in [DOMAIN classes -> BOOLEAN]
    BY <1>2 DEF Levels
  <2> QED
    BY <2>2, <2>3 DEF Abstract!Banks
<1> QED
  BY <1>1, <1>2

LEMMA LevelsAreBanksPrimed == ASSUME HardwareInv' PROVE Levels' \in Abstract!Banks
<1>1. CASE target' = Undefined
  <2>1. Levels' \in [{} -> BOOLEAN]
    BY <1>1, SMT DEF Levels
  <2> QED
    BY <2>1 DEF Abstract!Banks
<1>2. CASE target' # Undefined
  <2>1. DOMAIN classes' = Pins[target'] /\ target' \in Chips
    BY <1>2 DEF HardwareInv, DrawingIsRight, TypeOK, DrawnIsTarget
  <2>2. DOMAIN classes' \in SUBSET Names
    BY <2>1, HardwareAssumption
  <2>3. Levels' \in [DOMAIN classes' -> BOOLEAN]
    BY <1>2 DEF Levels
  <2> QED
    BY <2>2, <2>3 DEF Abstract!Banks
<1> QED
  BY <1>1, <1>2

\* A new drawing is a bank of low pins.
LEMMA NewDrawing ==
  ASSUME HardwareInv', read' = read,
         target' = Undefined \/ \A n \in DOMAIN classes' : "on" \notin classes'[n]
  PROVE  Abstract!NewTarget
<1>1. Levels' \in Abstract!Banks
  BY LevelsAreBanksPrimed
<1>2. \A n \in DOMAIN Levels' : ~Levels'[n]
  BY LevelsArePrimed
<1> QED
  BY <1>1, <1>2 DEF Abstract!NewTarget

\* A pin changed by the program or by a click is set in the bank.
LEMMA ChangedPin ==
  ASSUME target # Undefined, target' = target, read' = read,
         NEW n \in DOMAIN classes, NEW C \in {{"on"}, {"off"}},
         classes' = [classes EXCEPT ![n] = C]
  PROVE  \E k \in DOMAIN Levels, level \in BOOLEAN : Abstract!Set(k, level)
<1>1. DOMAIN Levels = DOMAIN classes /\ DOMAIN classes' = DOMAIN classes
  BY LevelsAre
<1>2. Levels' = [Levels EXCEPT ![n] = "on" \in C]
  BY <1>1, LevelsAre, LevelsArePrimed
<1>3. ("on" \in C) \in BOOLEAN
  OBVIOUS
<1> QED
  BY <1>1, <1>2, <1>3 DEF Abstract!Set

LEMMA StepImplements ==
  ASSUME HardwareInv, HardwareInv', [Next]_vars
  PROVE  [Abstract!Next]_<<Levels, read>>
<1> USE DEF view, program
<1>0. ASSUME target' = target, classes' = classes, read' = read PROVE UNCHANGED <<Levels, read>>
  BY <1>0 DEF Levels
<1>1. CASE Restore
  <2>1. PICK t \in Chips \cup {Undefined} : Loaded(t)
    BY <1>1 DEF Restore
  <2>2. target' = Undefined \/ \A n \in DOMAIN classes' : "on" \notin classes'[n]
    BY <2>1, LoadedDraws
  <2> QED
    BY <1>1, <2>2, NewDrawing DEF Restore, Abstract!Next
<1>2. CASE RestoreThrows
  BY <1>2, NewDrawing DEF RestoreThrows, Abstract!Next
<1>3. ASSUME NEW i \in 0..Len(Keys) - 1, TargetSelected(i) PROVE [Abstract!Next]_<<Levels, read>>
  <2> DEFINE t == IF i = 0 THEN Undefined ELSE Object[i + 1]
  <2>1. t \in Chips \cup {Undefined}
    BY HardwareAssumption
  <2>2. Loaded(t) /\ read' = read
    BY <1>3 DEF TargetSelected
  <2> HIDE DEF t
  <2>3. target' = Undefined \/ \A n \in DOMAIN classes' : "on" \notin classes'[n]
    BY <2>1, <2>2, LoadedDraws
  <2> QED
    BY <2>2, <2>3, NewDrawing DEF Abstract!Next
<1>4. CASE ConfigBtn \/ ChangeLanguage \/ OpenMenu \/ Reset
  BY <1>0, <1>4 DEF ConfigBtn, ChangeLanguage, OpenMenu, Reset
<1>5. ASSUME NEW n \in DOMAIN classes, PinClick(n) PROVE [Abstract!Next]_<<Levels, read>>
  <2>1. PICK C \in {{"on"}, {"off"}} : classes' = [classes EXCEPT ![n] = C]
    BY <1>5, PinClickChanges
  <2>2. target' = target /\ read' = read
    BY <1>5 DEF PinClick
  <2>3. CASE target = Undefined
    BY <2>2, <2>3 DEF Levels
  <2>4. CASE target # Undefined
    BY <2>1, <2>2, <2>4, ChangedPin DEF Abstract!Next
  <2> QED
    BY <2>3, <2>4
<1>6. ASSUME NEW v \in {0, 1, 2}, WriteIo(v) PROVE [Abstract!Next]_<<Levels, read>>
  <2>1. target' = target /\ read' = read
    BY <1>6 DEF WriteIo
  <2>2. CASE classes' = classes
    BY <1>0, <2>1, <2>2
  <2>3. ASSUME target # Undefined, code \in DOMAIN classes, NEW C \in {{"on"}, {"off"}},
               classes' = [classes EXCEPT ![code] = C]
        PROVE  [Abstract!Next]_<<Levels, read>>
    BY <2>1, <2>3, ChangedPin DEF Abstract!Next
  <2> QED
    BY <1>6, <2>2, <2>3, WriteIoChanges
<1>7. CASE ReadIo
  <2>1. Levels' = Levels
    BY <1>7 DEF ReadIo, Levels
  <2>2. CASE target = Undefined
    <3>1. read' = FALSE
      BY <1>7, <2>2 DEF ReadIo
    <3> QED
      BY <2>1, <2>2, <3>1, LevelsAre DEF Abstract!Next, Abstract!Read
  <2>3. CASE target # Undefined /\ code \notin DOMAIN classes
    BY <1>7, <2>1, <2>3 DEF ReadIo
  <2>4. CASE target # Undefined /\ code \in DOMAIN classes
    <3>1. read' = ("on" \in classes[code])
      BY <1>7, <2>4 DEF ReadIo
    <3>2. code \in DOMAIN Levels /\ Levels[code] = ("on" \in classes[code])
      BY <2>4, LevelsAre
    <3> QED
      BY <2>1, <3>1, <3>2 DEF Abstract!Next, Abstract!Read
  <2> QED
    BY <2>2, <2>3, <2>4
<1>8. CASE UNCHANGED vars
  BY <1>0, <1>8 DEF vars
<1> QED
  BY <1>1, <1>2, <1>3, <1>4, <1>5, <1>6, <1>7, <1>8 DEF Next

\* The classes of the drawing implement the bank of pins.
THEOREM DrawingIsPinBank == Spec => ImplementsPins
<1>1. Init => Abstract!Init
  <2> SUFFICES ASSUME Init PROVE Abstract!Init
    OBVIOUS
  <2>1. HardwareInv
    BY InitInv
  <2>2. Levels \in Abstract!Banks
    BY <2>1, LevelsAreBanks
  <2>3. target # Undefined /\ DOMAIN classes = Pins[target] /\ \A n \in DOMAIN classes : classes[n] = {}
    BY FirstTarget DEF Init
  <2>4. Levels = [n \in DOMAIN Levels |-> FALSE]
    <3>1. Levels = [n \in DOMAIN classes |-> "on" \in classes[n]]
      BY <2>3, LevelsAre
    <3>2. \A n \in DOMAIN classes : ("on" \in classes[n]) = FALSE
      BY <2>3
    <3>3. [n \in DOMAIN classes |-> "on" \in classes[n]] = [n \in DOMAIN classes |-> FALSE]
      BY <3>2, Zenon
    <3> QED
      BY <3>1, <3>3, Zenon
  <2> QED
    BY <2>2, <2>4 DEF Init, Abstract!Init
<1>2. HardwareInv /\ HardwareInv' /\ [Next]_vars => [Abstract!Next]_<<Levels, read>>
  BY StepImplements
<1> QED
  BY <1>1, <1>2, HardwareInvariant, PTL DEF Spec, ImplementsPins, Abstract!Spec

-----------------------------------------------------------------------------
(***************************************************************************)
(* For any even number of pins: the pins of the drawing are apart, they    *)
(* are seen, and those whose numbers sum to npins + 1 face each other.     *)
(***************************************************************************)

Drawn(m, i) == [area |-> Area(m, i), pad |-> Pad(m, i)]

RectType == [x : Int, y : Int, w : Int, h : Int]
Pin == [area : RectType, pad : RectType]

\* The inductive invariant: what is drawn is a function of npins and of the rank.
DilInv ==
  /\ npins \in Sizes /\ pins \in Seq(Pin)
  /\ Len(pins) <= npins
  /\ \A j \in 1..Len(pins) : pins[j] = Drawn(npins, j - 1)

\* The dimensions of a package, in numbers.
LEMMA Dimensions ==
  ASSUME NEW m \in Sizes
  PROVE  /\ m \in Nat /\ \E half \in Nat : m = 2 * half
         /\ E1(m) = IF m <= 28 THEN 290 ELSE 590
         /\ D(m) = 50 * m + 20
<1>1. m \in Nat /\ m % 2 = 0
  BY DilAssumption
<1>2. PICK half \in Int : m = 2 * half
  BY <1>1
<1>3. half \in Nat
  BY <1>1, <1>2
<1>4. m \div 2 = half
  BY <1>2, <1>3
<1>5. E1(m) = IF m <= 28 THEN 290 ELSE 590
  BY DEF E1, E0, B2
<1>6. D(m) = 100 * (half - 1) + 120
  BY <1>4 DEF D, E0, B2
<1> QED
  BY <1>1, <1>2, <1>3, <1>5, <1>6

\* The place of the pins of each side, in numbers.
LEMMA Places ==
  ASSUME NEW m \in Sizes, NEW i \in 0..(m - 1)
  PROVE  /\ Area(m, i) = IF 2 * i < m THEN Rect(-30, 20 + 100 * i, 120, 80)
                         ELSE Rect(E1(m) - 90, 20 + 100 * (m - i - 1), 120, 80)
         /\ Pad(m, i) = IF 2 * i < m THEN Rect(-20, 30 + 100 * i, 20, 60)
                        ELSE Rect(E1(m), 30 + 100 * (m - i - 1), 20, 60)
<1>1. m \in Nat
  BY Dimensions
<1>2. CASE 2 * i < m
  BY <1>1, <1>2 DEF Area, Pad, Row, Rect, B2, E0
<1>3. CASE ~(2 * i < m)
  <2>1. E1(m) \in Int
    BY <1>1, Dimensions
  <2> QED
    BY <1>1, <1>3, <2>1 DEF Area, Pad, Row, Rect, B2, E0
<1> QED
  BY <1>2, <1>3

LEMMA DrawnType ==
  ASSUME NEW m \in Sizes, NEW i \in 0..(m - 1)
  PROVE  Drawn(m, i) \in Pin
<1>1. m \in Nat /\ E1(m) \in Int
  BY Dimensions
<1> QED
  BY <1>1, Places DEF Drawn, Rect, Pin, RectType

\* What the invariant says of one pin.
LEMMA Ranks ==
  ASSUME DilInv, NEW j \in DOMAIN pins
  PROVE  /\ npins \in Nat /\ j \in 1..npins /\ j - 1 \in 0..(npins - 1)
         /\ pins[j].area = Area(npins, j - 1) /\ pins[j].pad = Pad(npins, j - 1)
<1>1. npins \in Sizes /\ pins \in Seq(Pin) /\ Len(pins) <= npins
  BY DEF DilInv
<1>2. npins \in Nat
  BY <1>1, Dimensions
<1>3. DOMAIN pins = 1..Len(pins) /\ Len(pins) \in Nat
  BY <1>1
<1>4. j \in 1..Len(pins)
  BY <1>3
<1>5. pins[j] = Drawn(npins, j - 1)
  BY <1>4 DEF DilInv
<1>6. j \in 1..npins /\ j - 1 \in 0..(npins - 1)
  BY <1>1, <1>2, <1>3, <1>4
<1> QED
  BY <1>2, <1>5, <1>6 DEF Drawn

LEMMA DilInitInv == DilInit => DilInv
<1> SUFFICES ASSUME DilInit PROVE DilInv
  OBVIOUS
<1>1. npins \in Sizes /\ pins = <<>>
  BY DEF DilInit
<1>2. npins \in Nat
  BY <1>1, Dimensions
<1>3. pins \in Seq(Pin) /\ Len(pins) = 0
  BY <1>1
<1> QED
  BY <1>1, <1>2, <1>3 DEF DilInv

LEMMA DilNextInv == DilInv /\ [DilNext]_dilVars => DilInv'
<1> SUFFICES ASSUME DilInv, [DilNext]_dilVars PROVE DilInv'
  OBVIOUS
<1>1. CASE AddPin
  <2>0. npins \in Nat
    BY Dimensions DEF DilInv
  <2>1. Len(pins) \in 0..(npins - 1) /\ npins' = npins
    BY <1>1, <2>0 DEF AddPin, DilInv
  <2>2. pins' = Append(pins, Drawn(npins, Len(pins)))
    BY <1>1 DEF AddPin, Drawn
  <2>3. Drawn(npins, Len(pins)) \in Pin /\ pins \in Seq(Pin)
    BY <2>1, DrawnType DEF DilInv
  <2>4. \A j \in 1..Len(pins') : pins'[j] = Drawn(npins, j - 1)
    <3> SUFFICES ASSUME NEW j \in 1..Len(pins') PROVE pins'[j] = Drawn(npins, j - 1)
      OBVIOUS
    <3>1. Len(pins') = Len(pins) + 1 /\ Len(pins) \in Nat
      BY <2>2, <2>3
    <3>2. CASE j = Len(pins) + 1
      <4>1. pins'[j] = Drawn(npins, Len(pins))
        BY <2>2, <2>3, <3>1, <3>2
      <4>2. j - 1 = Len(pins)
        BY <3>1, <3>2
      <4> QED
        BY <4>1, <4>2
    <3>3. CASE j \in 1..Len(pins)
      <4>1. pins'[j] = pins[j]
        BY <2>2, <2>3, <3>3
      <4> QED
        BY <4>1, <3>3 DEF DilInv
    <3> QED
      BY <3>1, <3>2, <3>3
  <2> QED
    BY <2>0, <2>1, <2>2, <2>3, <2>4 DEF DilInv
<1>2. CASE UNCHANGED dilVars
  BY <1>2 DEF dilVars, DilInv
<1> QED
  BY <1>1, <1>2 DEF DilNext

\* Two pins drawn are of one package, and differ by their ranks.
LEMMA InvApart == DilInv => PinsAreApart
<1> SUFFICES ASSUME DilInv, NEW j \in DOMAIN pins, NEW k \in DOMAIN pins, j # k
             PROVE  /\ Apart(pins[j].area, pins[k].area) /\ Apart(pins[j].pad, pins[k].pad)
                    /\ Apart(pins[j].area, pins[k].pad)
  BY DEF PinsAreApart
<1>1. npins \in Sizes /\ npins \in Nat /\ E1(npins) = IF npins <= 28 THEN 290 ELSE 590
  BY Dimensions DEF DilInv
<1>2. j \in 1..npins /\ k \in 1..npins /\ j - 1 \in 0..(npins - 1) /\ k - 1 \in 0..(npins - 1)
  BY Ranks
<1>3. /\ pins[j].area = Area(npins, j - 1) /\ pins[j].pad = Pad(npins, j - 1)
      /\ pins[k].area = Area(npins, k - 1) /\ pins[k].pad = Pad(npins, k - 1)
  BY Ranks
<1>4. CASE 2 * (j - 1) < npins /\ 2 * (k - 1) < npins
  BY <1>1, <1>2, <1>3, <1>4, Places DEF Apart, Right, Bottom, Rect
<1>5. CASE 2 * (j - 1) < npins /\ ~(2 * (k - 1) < npins)
  BY <1>1, <1>2, <1>3, <1>5, Places DEF Apart, Right, Bottom, Rect
<1>6. CASE ~(2 * (j - 1) < npins) /\ 2 * (k - 1) < npins
  BY <1>1, <1>2, <1>3, <1>6, Places DEF Apart, Right, Bottom, Rect
<1>7. CASE ~(2 * (j - 1) < npins) /\ ~(2 * (k - 1) < npins)
  <2>1. /\ pins[j].area = Rect(E1(npins) - 90, 20 + 100 * (npins - j), 120, 80)
        /\ pins[k].area = Rect(E1(npins) - 90, 20 + 100 * (npins - k), 120, 80)
        /\ pins[j].pad = Rect(E1(npins), 30 + 100 * (npins - j), 20, 60)
        /\ pins[k].pad = Rect(E1(npins), 30 + 100 * (npins - k), 20, 60)
    BY <1>1, <1>2, <1>3, <1>7, Places
  <2>2. CASE j < k
    BY <1>1, <1>2, <2>1, <2>2 DEF Apart, Right, Bottom, Rect
  <2>3. CASE k < j
    BY <1>1, <1>2, <2>1, <2>3 DEF Apart, Right, Bottom, Rect
  <2> QED
    BY <1>2, <2>2, <2>3
<1> QED
  BY <1>4, <1>5, <1>6, <1>7

LEMMA InvSeen == DilInv => PinsAreSeen
<1> SUFFICES ASSUME DilInv, NEW j \in DOMAIN pins
             PROVE  /\ Inside(pins[j].area, ViewBox(npins)) /\ Inside(pins[j].pad, ViewBox(npins))
                    /\ Apart(pins[j].pad, Package(npins))
                    /\ 0 <= pins[j].pad.y /\ Bottom(pins[j].pad) <= D(npins)
  BY DEF PinsAreSeen
<1>1. /\ npins \in Sizes /\ npins \in Nat /\ D(npins) = 50 * npins + 20
      /\ E1(npins) = IF npins <= 28 THEN 290 ELSE 590
  BY Dimensions DEF DilInv
<1>2. j \in 1..npins /\ j - 1 \in 0..(npins - 1)
  BY Ranks
<1>3. pins[j].area = Area(npins, j - 1) /\ pins[j].pad = Pad(npins, j - 1)
  BY Ranks
<1>4. /\ ViewBox(npins) = Rect(-30, -1, E1(npins) + 60, D(npins) + 2)
      /\ Package(npins) = Rect(0, 0, E1(npins), D(npins))
  BY DEF ViewBox, Package, B2
<1>5. PICK half \in Nat : npins = 2 * half
  BY <1>1, Dimensions
<1>6. CASE 2 * (j - 1) < npins
  <2>1. j <= half
    BY <1>2, <1>5, <1>6
  <2> QED
    BY <1>1, <1>2, <1>3, <1>4, <1>5, <1>6, <2>1, Places
    DEF Inside, Apart, Right, Bottom, Rect
<1>7. CASE ~(2 * (j - 1) < npins)
  <2>1. j > half
    BY <1>2, <1>5, <1>7
  <2> QED
    BY <1>1, <1>2, <1>3, <1>4, <1>5, <1>7, <2>1, Places
    DEF Inside, Apart, Right, Bottom, Rect
<1> QED
  BY <1>6, <1>7

LEMMA InvFace == DilInv => PinsFace
<1> SUFFICES ASSUME DilInv, NEW j \in DOMAIN pins, NEW k \in DOMAIN pins, j + k = npins + 1
             PROVE  pins[j].pad.y = pins[k].pad.y /\ pins[j].pad.x # pins[k].pad.x
  BY DEF PinsFace
<1>1. npins \in Sizes /\ npins \in Nat /\ E1(npins) = IF npins <= 28 THEN 290 ELSE 590
  BY Dimensions DEF DilInv
<1>2. j \in 1..npins /\ k \in 1..npins /\ j - 1 \in 0..(npins - 1) /\ k - 1 \in 0..(npins - 1)
  BY Ranks
<1>3. pins[j].pad = Pad(npins, j - 1) /\ pins[k].pad = Pad(npins, k - 1)
  BY Ranks
<1>4. PICK half \in Nat : npins = 2 * half
  BY <1>1, Dimensions
<1>5. \/ 2 * (j - 1) < npins /\ ~(2 * (k - 1) < npins)
      \/ ~(2 * (j - 1) < npins) /\ 2 * (k - 1) < npins
  BY <1>2, <1>4
<1> QED
  BY <1>1, <1>2, <1>3, <1>5, Places DEF Rect

LEMMA DilInvariance == DilSpec => []DilInv
BY DilInitInv, DilNextInv, PTL DEF DilSpec

\* A click on the drawing is that of one pin, whatever the number of pins.
THEOREM PinsApart == DilSpec => []PinsAreApart
BY DilInvariance, InvApart, PTL

\* The whole of each pin is in the view box, whatever the number of pins.
THEOREM PinsSeen == DilSpec => []PinsAreSeen
BY DilInvariance, InvSeen, PTL

\* The numbers of the pins turn around the package.
THEOREM PinsTurn == DilSpec => []PinsFace
BY DilInvariance, InvFace, PTL
=============================================================================
