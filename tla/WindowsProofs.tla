--------------------------- MODULE WindowsProofs ---------------------------
(***************************************************************************)
(* For any windows, sizes of the page and places of the mouse, even        *)
(* outside of the page: a window that is moved keeps its bar in the page,  *)
(* the document never calls a handler that is null, and the backups do not *)
(* forget the place where a window ends up.                                *)
(***************************************************************************)
EXTENDS Windows, TLAPS

\* The arithmetic of windowOnBarMouseDown: a window put at Clamp(width, p) has
\* at least Margin pixels of its bar in the page.
LEMMA ClampShows ==
  ASSUME body \in Bodies, NEW width \in Nat, NEW p \in Point, NEW c, c = Clamp(width, p)
  PROVE  /\ c \in Point
         /\ c.x + width >= Margin /\ c.x <= body.x - Margin
         /\ c.y >= 0 /\ c.y <= body.y - BarHeight
<1> USE WindowsAssumption DEF Point, Margin
<1>1. /\ body.x \in Nat /\ body.y \in Nat /\ BarHeight \in Nat
      /\ body.x >= 40 /\ body.y >= BarHeight
  OBVIOUS
<1>2. p.x \in Int /\ p.y \in Int
  OBVIOUS
<1>3. /\ c.x = IF p.x + width < 20 THEN 20 - width
               ELSE IF p.x > body.x - 20 THEN body.x - 20 ELSE p.x
      /\ c.y = IF p.y < 0 THEN 0
               ELSE IF p.y > body.y - BarHeight THEN body.y - BarHeight ELSE p.y
  BY DEF Clamp
<1>4. c.x \in Int /\ c.x + width >= 20 /\ c.x <= body.x - 20
  BY ONLY <1>1, <1>2, <1>3, width \in Nat
<1>5. c.y \in Int /\ c.y >= 0 /\ c.y <= body.y - BarHeight
  BY ONLY <1>1, <1>2, <1>3
<1>6. c \in [x : Int, y : Int]
  BY <1>4, <1>5 DEF Clamp
<1> QED
  BY <1>4, <1>5, <1>6

LEMMA DraggedIsPoint ==
  ASSUME NEW g \in Grip, NEW p \in Point
  PROVE  Dragged(g, p) \in Point
BY DEF Grip, Point, Dragged

Size == [x : Nat, y : Nat]

Inv == TypeOK /\ CaptureHasHandler

LEMMA Handles ==
  /\ \A w \in Wins : Bar(w) \in Handle /\ Resizer(w) \in Handle
  /\ \A h \in Handle : h.win \in Wins /\ h.kind \in {"bar", "resizer"}
BY DEF Handle, Bar, Resizer

LEMMA NilIsNoGrip == ASSUME NEW h \in Handle, TypeOK, grip[h] # Nil PROVE grip[h] \in Grip
BY DEF TypeOK

\* The initial states satisfy the invariant.
LEMMA InitInv == Init => Inv
<1> SUFFICES ASSUME Init PROVE TypeOK /\ CaptureHasHandler
  BY DEF Inv
<1> USE WindowsAssumption DEF Init
<1>1. place \in [Wins -> Point] /\ size \in [Wins -> [x : Nat, y : Nat]]
  OBVIOUS
<1>2. saved \in [Wins -> Point] \X [Wins -> [x : Nat, y : Nat]]
  BY <1>1 DEF geometry
<1> QED
  BY <1>1, <1>2 DEF TypeOK, CaptureHasHandler

\* A move of the mouse gives each window a size and a point.
LEMMA MouseMoveSizes ==
  ASSUME TypeOK, MouseMove
  PROVE  size' \in [Wins -> Size] /\ mouse' \in Points
<1>1. PICK p \in Points, over \in Overs :
        /\ mouse' = p
        /\ size' = [w \in Wins |->
             IF Resizer(w) \in Moving(over)
             THEN LET d == Dragged(grip[Resizer(w)], p)
                  IN [x |-> Resized(size[w].x, d.x), y |-> Resized(size[w].y, d.y)]
             ELSE size[w]]
  BY DEF MouseMove
<1>2. ASSUME NEW w \in Wins PROVE size'[w] \in Size
  <2>1. size[w] \in Size
    BY DEF TypeOK, Size
  <2>2. CASE Resizer(w) \in Moving(over)
    <3> DEFINE d == Dragged(grip[Resizer(w)], p)
    <3>1. grip[Resizer(w)] \in Grip
      BY <2>2, Handles, NilIsNoGrip DEF Moving
    <3>2. d \in Point
      BY <3>1, DraggedIsPoint, WindowsAssumption
    <3>3. size'[w] = [x |-> Resized(size[w].x, d.x), y |-> Resized(size[w].y, d.y)]
      BY <1>1, <2>2
    <3> HIDE DEF d
    <3> QED
      BY <2>1, <3>2, <3>3 DEF Resized, Size, Point
  <2>3. CASE Resizer(w) \notin Moving(over)
    BY <1>1, <2>1, <2>3
  <2> QED
    BY <2>2, <2>3
<1> QED
  BY <1>1, <1>2

LEMMA MouseMovePlaces ==
  ASSUME TypeOK, MouseMove
  PROVE  /\ place' \in [Wins -> Point]
         /\ \A w \in Wins : place'[w] # place[w] /\ size'[w] = size[w] => BarVisible(w)'
<1>1. PICK p \in Points, over \in Overs :
        place' = [w \in Wins |->
          LET width == IF capture = Bar(w) THEN size'[w].x ELSE size[w].x
          IN IF Bar(w) \in Moving(over) THEN Clamp(width, Dragged(grip[Bar(w)], p)) ELSE place[w]]
  BY DEF MouseMove
<1>2. size' \in [Wins -> Size] /\ body' = body
  BY MouseMoveSizes DEF MouseMove
<1>3. ASSUME NEW w \in Wins
      PROVE  /\ place'[w] \in Point
             /\ place'[w] # place[w] /\ size'[w] = size[w] => BarVisible(w)'
  <2> DEFINE width == IF capture = Bar(w) THEN size'[w].x ELSE size[w].x
  <2>1. CASE Bar(w) \in Moving(over)
    <3> DEFINE q == Dragged(grip[Bar(w)], p)
    <3>1. grip[Bar(w)] \in Grip
      BY <2>1, Handles, NilIsNoGrip DEF Moving
    <3>2. q \in Point
      BY <3>1, DraggedIsPoint, WindowsAssumption
    <3>3. width \in Nat
      BY <1>2 DEF TypeOK, Size
    <3>4. place'[w] = Clamp(width, q)
      BY <1>1, <2>1
    <3>5. size'[w] = size[w] => width = size'[w].x
      OBVIOUS
    <3>6. body \in Bodies
      BY DEF TypeOK
    <3> HIDE DEF width, q
    <3>7. /\ place'[w] \in Point
          /\ place'[w].x + width >= Margin /\ place'[w].x <= body.x - Margin
          /\ place'[w].y >= 0 /\ place'[w].y <= body.y - BarHeight
      BY <3>2, <3>3, <3>4, <3>6, ClampShows
    <3> QED
      BY <1>2, <3>5, <3>7 DEF BarVisible, Margin
  <2>2. CASE Bar(w) \notin Moving(over)
    <3>1. place'[w] = place[w]
      BY <1>1, <2>2
    <3> QED
      BY <3>1 DEF TypeOK
  <2> QED
    BY <2>1, <2>2
<1>4. place' \in [Wins -> Point]
  BY <1>1, <1>3
<1> QED
  BY <1>3, <1>4

\* A press of the button and a release keep the types and the handlers.
LEMMA PressInv == ASSUME Inv, Press PROVE Inv'
<1> USE DEF Inv
<1>1. CASE UNCHANGED <<top, capture, grip, dirty>>
  BY <1>1 DEF Press, TypeOK, CaptureHasHandler, geometry
<1>2. ASSUME NEW w \in Wins, BarDown(w) PROVE Inv'
  <2> DEFINE g == [mouse |-> mouse, was |-> place[w]]
  <2>1. g \in Grip /\ Bar(w) \in Handle
    BY Handles, WindowsAssumption DEF TypeOK, Grip
  <2>2. capture' = Bar(w) /\ grip' = [grip EXCEPT ![Bar(w)] = g] /\ top' = w /\ dirty' = dirty
    BY <1>2 DEF BarDown
  <2>3. g # Nil
    BY <2>1, WindowsAssumption
  <2> HIDE DEF g
  <2>4. grip' \in [Handle -> Grip \cup {Nil}] /\ grip'[capture'] # Nil
    BY <2>1, <2>2, <2>3 DEF TypeOK
  <2> QED
    BY <2>1, <2>2, <2>4 DEF Press, TypeOK, CaptureHasHandler, geometry
<1>3. ASSUME NEW w \in Wins, ResizerDown(w) PROVE Inv'
  <2> DEFINE g == [mouse |-> mouse, was |-> size[w]]
  <2>1. g \in Grip /\ Resizer(w) \in Handle
    <3>1. size[w] \in Point
      BY DEF TypeOK, Point
    <3> QED
      BY <3>1, Handles, WindowsAssumption DEF TypeOK, Grip
  <2>2. capture' = Resizer(w) /\ grip' = [grip EXCEPT ![Resizer(w)] = g] /\ top' = top /\ dirty' = TRUE
    BY <1>3 DEF ResizerDown
  <2>3. g # Nil
    BY <2>1, WindowsAssumption
  <2> HIDE DEF g
  <2>4. grip' \in [Handle -> Grip \cup {Nil}] /\ grip'[capture'] # Nil
    BY <2>1, <2>2, <2>3 DEF TypeOK
  <2> QED
    BY <2>1, <2>2, <2>4 DEF Press, TypeOK, CaptureHasHandler, geometry
<1> QED
  BY <1>1, <1>2, <1>3 DEF Press

LEMMA ReleaseInv == ASSUME Inv, Release PROVE Inv'
<1> USE DEF Inv
<1>1. ASSUME NEW h \in Handle, Up(h) PROVE Inv'
  <2>1. grip' \in [Handle -> Grip \cup {Nil}] /\ capture' = Nil
    BY <1>1 DEF Up, TypeOK
  <2>2. dirty' \in BOOLEAN
    BY <1>1 DEF Up
  <2> QED
    BY <2>1, <2>2 DEF Release, TypeOK, CaptureHasHandler, geometry
<1>2. CASE UNCHANGED <<capture, grip, dirty>>
  BY <1>2 DEF Release, TypeOK, CaptureHasHandler, geometry
<1>3. capture # Nil => capture \in Handle
  BY DEF TypeOK
<1> QED
  BY <1>1, <1>2, <1>3 DEF Release

LEMMA NextInv == ASSUME Inv, [Next]_vars PROVE Inv'
<1>1. CASE MouseMove
  <2>1. /\ size' \in [Wins -> [x : Nat, y : Nat]] /\ mouse' \in Points
        /\ place' \in [Wins -> Point]
    BY <1>1, MouseMoveSizes, MouseMovePlaces DEF Inv, Size
  <2> QED
    BY <1>1, <2>1 DEF MouseMove, Inv, TypeOK, CaptureHasHandler
<1>2. CASE Press
  BY <1>2, PressInv
<1>3. CASE Release
  BY <1>3, ReleaseInv
<1>4. CASE ReleaseUnseen
  BY <1>4 DEF ReleaseUnseen, Inv, TypeOK, CaptureHasHandler, geometry
<1>5. CASE Click
  BY <1>5 DEF Click, Inv, TypeOK, CaptureHasHandler, geometry
<1>6. CASE Save
  BY <1>6 DEF Save, Inv, TypeOK, CaptureHasHandler, geometry
<1>7. CASE Layout
  BY <1>7 DEF Layout, Inv, TypeOK, CaptureHasHandler, geometry
<1>8. CASE UNCHANGED vars
  BY <1>8 DEF vars, Inv, TypeOK, CaptureHasHandler, geometry
<1> QED
  BY <1>1, <1>2, <1>3, <1>4, <1>5, <1>6, <1>7, <1>8 DEF Next

\* Every variable keeps its type.
THEOREM WindowsTypes == Spec => []TypeOK
<1>1. Inv => TypeOK
  BY DEF Inv
<1> QED
  BY InitInv, NextInv, <1>1, PTL DEF Spec

\* App.setupCapture calls the handler of the captured element without a test:
\* that handler is there, even after a release that the document did not see.
THEOREM CapturedIsHandled == Spec => []CaptureHasHandler
<1>1. Inv => CaptureHasHandler
  BY DEF Inv
<1> QED
  BY InitInv, NextInv, <1>1, PTL DEF Spec

\* Only a move of the mouse moves a window, which stays visible, wherever the
\* mouse is and whatever became of the page during the drag.
THEOREM MovedStaysVisible == Spec => MovedIsVisible
<1>1. ASSUME TypeOK, [Next]_vars
      PROVE  [\A w \in Wins : place'[w] # place[w] /\ size'[w] = size[w] => BarVisible(w)']_vars
  <2>1. CASE MouseMove
    BY <1>1, <2>1, MouseMovePlaces
  <2>2. CASE place' = place
    BY <2>2
  <2>3. [Next]_vars => MouseMove \/ place' = place
    BY DEF Next, vars, geometry, Press, Release, ReleaseUnseen, Click, Save, Layout
  <2> QED
    BY <1>1, <2>1, <2>2, <2>3
<1> QED
  BY WindowsTypes, <1>1, PTL DEF Spec, MovedIsVisible
-----------------------------------------------------------------------------
(* The places of the windows and the backups.                              *)

\* The invariant, window by window: as long as its bar does not follow the
\* mouse, the place of a window is saved or the session is dirty.
BackupInv == \A w \in Wins : grip[Bar(w)] = Nil /\ ~dirty => saved[1][w] = place[w]

\* A window whose bar does not follow the mouse stays where it is.
LEMMA StaysWithoutGrip ==
  ASSUME MouseMove, NEW w \in Wins, grip[Bar(w)] = Nil
  PROVE  place'[w] = place[w]
<1>1. PICK p \in Points, over \in Overs :
        place' = [v \in Wins |->
          LET width == IF capture = Bar(v) THEN size'[v].x ELSE size[v].x
          IN IF Bar(v) \in Moving(over) THEN Clamp(width, Dragged(grip[Bar(v)], p)) ELSE place[v]]
  BY DEF MouseMove
<1>2. Bar(w) \notin Moving(over)
  BY DEF Moving
<1> QED
  BY <1>1, <1>2

\* Of the handles, a release takes the handler of one: a bar marks the session.
LEMMA UpBackup ==
  ASSUME TypeOK, BackupInv, NEW h \in Handle, Up(h), UNCHANGED <<place, saved>>
  PROVE  BackupInv'
<1>1. CASE h.kind = "bar"
  <2>1. dirty' = TRUE
    BY <1>1 DEF Up
  <2> QED
    BY <2>1 DEF BackupInv
<1>2. CASE h.kind # "bar"
  <2>1. \A w \in Wins : h # Bar(w) /\ Bar(w) \in Handle
    BY <1>2, Handles DEF Bar
  <2>2. \A w \in Wins : grip'[Bar(w)] = grip[Bar(w)]
    BY <2>1 DEF Up, TypeOK
  <2>3. dirty' = dirty
    BY <1>2 DEF Up, TypeOK
  <2> QED
    BY <2>2, <2>3 DEF BackupInv
<1> QED
  BY <1>1, <1>2

LEMMA PressBackup == ASSUME TypeOK, BackupInv, Press PROVE BackupInv'
<1>1. place' = place /\ saved' = saved
  BY DEF Press, geometry
<1>2. CASE UNCHANGED <<top, capture, grip, dirty>>
  BY <1>1, <1>2 DEF BackupInv
<1>3. ASSUME NEW w \in Wins, BarDown(w) PROVE BackupInv'
  <2> DEFINE g == [mouse |-> mouse, was |-> place[w]]
  <2>1. g \in Grip
    BY WindowsAssumption DEF TypeOK, Grip
  <2>2. g # Nil
    BY <2>1, WindowsAssumption
  <2>3. grip' = [grip EXCEPT ![Bar(w)] = g] /\ dirty' = dirty
    BY <1>3 DEF BarDown
  <2> HIDE DEF g
  <2>4. \A v \in Wins : Bar(v) \in Handle
    BY Handles
  <2>5. \A v \in Wins : grip'[Bar(v)] = IF Bar(v) = Bar(w) THEN g ELSE grip[Bar(v)]
    BY <2>3, <2>4 DEF TypeOK
  <2> QED
    BY <1>1, <2>2, <2>3, <2>5 DEF BackupInv
<1>4. ASSUME NEW w \in Wins, ResizerDown(w) PROVE BackupInv'
  BY <1>4 DEF ResizerDown, BackupInv
<1> QED
  BY <1>2, <1>3, <1>4 DEF Press

LEMMA NextBackup == ASSUME TypeOK, BackupInv, [Next]_vars PROVE BackupInv'
<1>1. CASE MouseMove
  <2>1. grip' = grip /\ dirty' = dirty /\ saved' = saved
    BY <1>1 DEF MouseMove
  <2> QED
    BY <1>1, <2>1, StaysWithoutGrip DEF BackupInv
<1>2. CASE Press
  BY <1>2, PressBackup
<1>3. CASE Release
  <2>1. place' = place /\ saved' = saved
    BY <1>3 DEF Release, geometry
  <2>2. CASE UNCHANGED <<capture, grip, dirty>>
    BY <2>1, <2>2 DEF BackupInv
  <2>3. ASSUME NEW h \in Handle, Up(h) PROVE BackupInv'
    BY <2>1, <2>3, UpBackup
  <2>4. capture # Nil => capture \in Handle
    BY DEF TypeOK
  <2> QED
    BY <1>3, <2>2, <2>3, <2>4 DEF Release
<1>4. CASE Save
  <2>1. saved'[1] = place /\ place' = place
    BY <1>4 DEF Save, geometry
  <2> QED
    BY <2>1 DEF BackupInv
<1>5. CASE ReleaseUnseen \/ Click \/ Layout \/ UNCHANGED vars
  BY <1>5 DEF ReleaseUnseen, Click, Layout, vars, geometry, BackupInv
<1> QED
  BY <1>1, <1>2, <1>3, <1>4, <1>5 DEF Next

LEMMA BackupIsPlace == TypeOK /\ BackupInv => PlaceIsSaved
<1> SUFFICES ASSUME TypeOK, BackupInv, \A h \in Handle : grip[h] = Nil, ~dirty
             PROVE  saved[1] = place
  BY DEF PlaceIsSaved
<1>1. saved[1] \in [Wins -> Point] /\ place \in [Wins -> Point]
  BY DEF TypeOK
<1>2. \A w \in Wins : saved[1][w] = place[w]
  BY Handles DEF BackupInv
<1> QED
  BY <1>1, <1>2

\* The session is marked dirty when a drag begins or ends, and a backup may come
\* between: the place where a window ends up is saved or will be, even when the
\* document did not see some of the releases.
THEOREM PlacesAreSaved == Spec => []PlaceIsSaved
<1>1. Init => BackupInv
  BY DEF Init, BackupInv, geometry
<1> QED
  BY WindowsTypes, <1>1, NextBackup, BackupIsPlace, PTL DEF Spec
=============================================================================
