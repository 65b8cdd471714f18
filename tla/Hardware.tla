----------------------------- MODULE Hardware ------------------------------
(***************************************************************************)
(* The hardware window (hw/hw.js): a drawing of the target, whose pins the *)
(* program reads and writes and the user clicks, and a panel to choose the *)
(* target.  With the io field of a block (core/field_io.js, blocks/io.js), *)
(* which names the pin that the program uses.                              *)
(***************************************************************************)
EXTENDS Integers, Sequences

CONSTANTS
  Keys,        \* hw.targets, sorted: the options of the selector
  Chips,       \* the objects in hw.targets
  Object,      \* hw.targets: two keys may denote one object
  Names,       \* names of pins
  Pins,        \* for each chip, the pins of mode "io"
  Languages,   \* of the page
  Undefined

ASSUME HardwareAssumption ==
  /\ Keys \in Seq(STRING) /\ Len(Keys) > 0
  /\ Object \in [1..Len(Keys) -> Chips] /\ Pins \in [Chips -> SUBSET Names]
  /\ Undefined \notin Chips /\ {"i/o", "?"} \cap Names = {} /\ "fr" \in Languages

VARIABLES
  target,     \* hw.target
  index,      \* selectedIndex of the selector, from 0
  classes,    \* for each pin drawn, those of "on" and "off" in its classList
  tips,       \* language of the titles of the pins
  language,   \* App.language
  panel,      \* config.style.display
  drawing,    \* svg.style.display
  field,      \* the pin named by a block of the workspace
  code,       \* the pin named by the program in the interpreter
  dead,       \* the interpreter has thrown
  read,       \* what the program has read last
  restored    \* App.restoreSession has run

view == <<panel, drawing>>
program == <<field, code, dead, read>>
vars == <<target, index, classes, tips, language, view, program, restored>>

\* Mutant: the display of the former drawing is forgotten.
LoadedForgetsView(t) ==
  /\ target' = t
  /\ classes' = IF t = Undefined THEN <<>> ELSE [n \in Pins[t] |-> {}]
  /\ tips' = "fr"
  /\ drawing' = ""

\* targetLoaded, once hw.target is t: a new drawing takes the place of the
\* former one, with its display.  The titles are written in French.
Loaded(t) ==
  /\ target' = t
  /\ classes' = IF t = Undefined THEN <<>> ELSE [n \in Pins[t] |-> {}]
  /\ tips' = "fr"
  /\ UNCHANGED drawing

\* hw.setup, with the first target, then hw.i18n.
Init ==
  /\ target = Object[1] /\ index = 0 /\ classes = [n \in Pins[Object[1]] |-> {}]
  /\ language \in Languages /\ tips = language
  /\ panel = "" /\ drawing = ""
  /\ field = "i/o" /\ code = "i/o" /\ dead = FALSE /\ read = FALSE
  /\ restored = FALSE

\* restoreSession.  The selector keeps its index.
Restore ==
  /\ ~restored /\ restored' = TRUE
  /\ \E t \in Chips \cup {Undefined} : Loaded(t)
  /\ UNCHANGED <<index, language, panel, program>>

\* The key is missing from the storage: dic is undefined and dic.target throws.
RestoreThrows ==
  /\ ~restored /\ restored' = TRUE
  /\ target' = Undefined
  /\ UNCHANGED <<index, classes, tips, language, view, program>>

-----------------------------------------------------------------------------

\* onTargetSelected, on a change of the selection.
TargetSelected(i) ==
  /\ i # index /\ panel = "block"
  /\ index' = i
  /\ Loaded(IF i = 0 THEN Undefined ELSE Object[i + 1])
  /\ UNCHANGED <<language, panel, program, restored>>

\* onConfigBtn.
ConfigBtn ==
  /\ panel' = IF panel # "block" THEN "block" ELSE "none"
  /\ drawing' = IF panel # "block" THEN "none" ELSE "block"
  /\ UNCHANGED <<target, index, classes, tips, language, program, restored>>

\* onPinClick.
PinClick(n) ==
  /\ drawing # "none"
  /\ classes' = [classes EXCEPT ![n] =
                   IF "on" \in @ THEN (@ \ {"on"}) \cup {"off"} ELSE (@ \ {"off"}) \cup {"on"}]
  /\ UNCHANGED <<target, index, tips, language, view, program, restored>>

\* App.i18n calls hw.i18n.
ChangeLanguage ==
  /\ language' \in Languages \ {language} /\ tips' = language'
  /\ UNCHANGED <<target, index, classes, view, program, restored>>

-----------------------------------------------------------------------------

\* dropdownCreate: a pin that the target has not becomes "?", and then the user
\* may choose one of the target's.
OpenMenu ==
  /\ IF target # Undefined
     THEN \/ field' = IF field \in DOMAIN classes THEN field ELSE "?"
          \/ field' \in DOMAIN classes
     ELSE field' \in {field, "?"}
  /\ UNCHANGED <<target, index, classes, tips, language, view, code, dead, read, restored>>

\* cpu.reset: the code is generated from the blocks, for a new interpreter.
Reset ==
  /\ code' = field /\ dead' = FALSE
  /\ UNCHANGED <<target, index, classes, tips, language, view, field, read, restored>>

\* write_io: what is not 0 or 1 is logged, and so is a write without a target.
WriteIo(v) ==
  /\ ~dead
  /\ classes' = IF target = Undefined \/ code \notin DOMAIN classes \/ v \notin {0, 1} THEN classes
                ELSE [classes EXCEPT ![code] =
                        IF v = 0 THEN (@ \ {"on"}) \cup {"off"} ELSE (@ \ {"off"}) \cup {"on"}]
  /\ UNCHANGED <<target, index, tips, language, view, program, restored>>

\* Mutant: a pin that is not off is on.
ReadNotOff ==
  /\ ~dead
  /\ IF target # Undefined /\ code \notin DOMAIN classes
     THEN dead' = TRUE /\ UNCHANGED read
     ELSE read' = (target # Undefined /\ "off" \notin classes[code]) /\ UNCHANGED dead
  /\ UNCHANGED <<target, index, classes, tips, language, view, field, code, restored>>

\* read_io: there is no test for a pin that the target has not.
ReadIo ==
  /\ ~dead
  /\ IF target # Undefined /\ code \notin DOMAIN classes
     THEN dead' = TRUE /\ UNCHANGED read
     ELSE read' = (target # Undefined /\ "on" \in classes[code]) /\ UNCHANGED dead
  /\ UNCHANGED <<target, index, classes, tips, language, view, field, code, restored>>

Next ==
  \/ Restore \/ RestoreThrows
  \/ \E i \in 0..Len(Keys) - 1 : TargetSelected(i)
  \/ ConfigBtn \/ \E n \in DOMAIN classes : PinClick(n)
  \/ ChangeLanguage \/ OpenMenu \/ Reset
  \/ \E v \in {0, 1, 2} : WriteIo(v)
  \/ ReadIo

Spec == Init /\ [][Next]_vars

-----------------------------------------------------------------------------

\* Every variable has its type; the pins drawn are those of one chip, the
\* target if there is one.
TypeOK ==
  /\ target \in Chips \cup {Undefined} /\ index \in 0..Len(Keys) - 1
  /\ \E S \in {Pins[c] : c \in Chips} \cup {{}} : classes \in [S -> SUBSET {"on", "off"}]
  /\ tips \in Languages /\ language \in Languages
  /\ panel \in {"", "block", "none"} /\ drawing \in {"", "block", "none"}
  /\ field \in Names \cup {"i/o", "?"} /\ code \in Names \cup {"i/o", "?"}
  /\ dead \in BOOLEAN /\ read \in BOOLEAN /\ restored \in BOOLEAN

\* The program uses the pins of its target: each is drawn.
DrawnIsTarget == target # Undefined => DOMAIN classes = Pins[target]

\* No pin is drawn both on and off.
OneLevel == \A n \in DOMAIN classes : classes[n] # {"on", "off"}

\* The window shows either the panel or the drawing, whatever target is chosen
\* in the panel: the drawing replaced while it is hidden stays hidden.
OneView == (panel = "block") <=> (drawing = "none")

\* The drawing that the program and the user share: of the target, each pin at
\* one level, hidden exactly when the panel is shown.
DrawingIsRight == DrawnIsTarget /\ OneLevel /\ OneView

HardwareInv == TypeOK /\ DrawingIsRight

\* The classes of the drawing are a bank of pins: a pin keeps the level that
\* the program or the user gave it last.
Levels == IF target = Undefined THEN <<>> ELSE [n \in DOMAIN classes |-> "on" \in classes[n]]

Abstract == INSTANCE PinBank WITH bank <- Levels

ImplementsPins == Abstract!Spec
=============================================================================
