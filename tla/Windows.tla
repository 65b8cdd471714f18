------------------------------ MODULE Windows ------------------------------
(***************************************************************************)
(* Windows moved and resized with the mouse (window.js), and the capture   *)
(* of the mouse emulated on the document (app.js).  A handler is first     *)
(* that of the element under the pointer, then that of the document, which *)
(* calls the one of the captured element.                                  *)
(***************************************************************************)
EXTENDS Integers

CONSTANTS
  Wins,        \* the windows
  Points,      \* where the mouse may be, in pixels
  Bodies,      \* sizes of the page
  InitPlace, InitSize,
  BarHeight,   \* height of the bar of a window
  MaxSize,     \* bound on the sizes
  Lossy,       \* a release of the button may go unseen
  Nil

Margin == 20

Point == [x : Int, y : Int]

\* What reacts to the button: the bar and the resizer of a window; its plus
\* and minus buttons, in the bar, only stop the event.
Handle == [kind : {"bar", "resizer"}, win : Wins]
Element == [kind : {"bar", "resizer", "button"}, win : Wins]
Bar(w) == [kind |-> "bar", win |-> w]
Resizer(w) == [kind |-> "resizer", win |-> w]

\* What a handler of onmousemove remembers of the time it was installed.
Grip == [mouse : Point, was : Point]

ASSUME WindowsAssumption ==
  /\ Points \subseteq Point /\ InitPlace \in [Wins -> Point]
  /\ InitSize \in [Wins -> [x : Nat, y : Nat]]
  /\ BarHeight \in Nat /\ MaxSize \in Nat /\ Lossy \in BOOLEAN
  /\ Bodies \subseteq [x : Nat, y : Nat]
  /\ \A b \in Bodies : b.x >= 2 * Margin /\ b.y >= BarHeight
  /\ Nil \notin Handle /\ Nil \notin Grip

VARIABLES
  body,      \* size of the page
  place,     \* style.left and style.top of the windows
  size,      \* width and height of their contents
  top,       \* the window that windowPutOnTop has put last
  capture,   \* App.captureTarget
  grip,      \* for each handle, its onmousemove, or Nil
  pressed,   \* the button of the mouse
  mouse,     \* the position of the mouse
  dirty,     \* App.sessionIsDirty
  saved      \* the places and sizes in the local storage

geometry == <<place, size>>
vars == <<body, geometry, top, capture, grip, pressed, mouse, dirty, saved>>

Init ==
  /\ body \in Bodies /\ place = InitPlace /\ size = InitSize
  /\ top \in Wins /\ capture = Nil /\ grip = [h \in Handle |-> Nil]
  /\ pressed = FALSE /\ mouse \in Points
  /\ dirty = FALSE /\ saved = geometry

-----------------------------------------------------------------------------

\* Mutant: a window may leave the page on the left.
NoLeftClamp(width, p) ==
  [ x |-> IF p.x > body.x - Margin THEN body.x - Margin ELSE p.x,
    y |-> IF p.y < 0 THEN 0 ELSE IF p.y > body.y - BarHeight THEN body.y - BarHeight ELSE p.y ]

\* Where a window moved to p goes: its bar is kept visible.
Clamp(width, p) ==
  [ x |-> IF p.x + width < Margin THEN Margin - width
          ELSE IF p.x > body.x - Margin THEN body.x - Margin ELSE p.x,
    y |-> IF p.y < 0 THEN 0
          ELSE IF p.y > body.y - BarHeight THEN body.y - BarHeight ELSE p.y ]

\* A size that CSS accepts: a negative one changes nothing.
Resized(old, new) == IF new >= 0 THEN new ELSE old

\* The point that the grip g gives for the mouse at p.
Dragged(g, p) == [x |-> g.was.x + p.x - g.mouse.x, y |-> g.was.y + p.y - g.mouse.y]

\* The handles whose onmousemove runs, with the mouse over the elements over.
Moving(over) ==
  {h \in Handle : /\ grip[h] # Nil
                  /\ \/ h = capture
                     \/ h \in over
                     \/ h.kind = "bar" /\ [kind |-> "button", win |-> h.win] \in over}

\* While a bar is dragged it follows the mouse, which is over it or over no
\* element that reacts; else the mouse may be over any element.
MayBeOver(over) ==
  pressed /\ capture # Nil /\ capture.kind = "bar" => over \subseteq {capture}

Overs == {{}} \cup {{e} : e \in Element}

\* The handler of the element comes before the one of the captured element.
MouseMove ==
  \E p \in Points, over \in Overs :
    /\ MayBeOver(over)
    /\ mouse' = p
    /\ size' = [w \in Wins |->
         IF Resizer(w) \in Moving(over)
         THEN LET d == Dragged(grip[Resizer(w)], p)
              IN [x |-> Resized(size[w].x, d.x), y |-> Resized(size[w].y, d.y)]
         ELSE size[w]]
    /\ \A w \in Wins : size'[w].x <= MaxSize /\ size'[w].y <= MaxSize
    /\ place' = [w \in Wins |->
         LET width == IF capture = Bar(w) THEN size'[w].x ELSE size[w].x
         IN IF Bar(w) \in Moving(over) THEN Clamp(width, Dragged(grip[Bar(w)], p)) ELSE place[w]]
    /\ UNCHANGED <<body, top, capture, grip, pressed, dirty, saved>>

\* windowOnBarMouseDown.
BarDown(w) ==
  /\ top' = w
  /\ capture' = Bar(w)
  /\ grip' = [grip EXCEPT ![Bar(w)] = [mouse |-> mouse, was |-> place[w]]]
  /\ UNCHANGED dirty

\* windowOnResizerMouseDown.
ResizerDown(w) ==
  /\ capture' = Resizer(w)
  /\ grip' = [grip EXCEPT ![Resizer(w)] = [mouse |-> mouse, was |-> size[w]]]
  /\ dirty' = TRUE
  /\ UNCHANGED top

Press ==
  /\ ~pressed /\ pressed' = TRUE
  /\ \/ \E w \in Wins : BarDown(w) \/ ResizerDown(w)
     \/ UNCHANGED <<top, capture, grip, dirty>>
  /\ UNCHANGED <<body, geometry, mouse, saved>>

UpIsQuiet(h) ==
  /\ grip' = [grip EXCEPT ![h] = Nil]
  /\ capture' = Nil
  /\ UNCHANGED dirty

\* windowOnBarMouseUp and windowOnResizerMouseUp.
Up(h) ==
  /\ grip' = [grip EXCEPT ![h] = Nil]
  /\ capture' = Nil
  /\ dirty' = (dirty \/ h.kind = "bar")

\* The button is released over the elements over.  A handle under the mouse
\* releases the capture, so that the document finds none.
Release ==
  /\ pressed /\ pressed' = FALSE
  /\ \E over \in Overs :
       /\ MayBeOver(over)
       /\ \/ \E h \in over \cap Handle : Up(h)
          \/ over = {} /\ capture # Nil /\ Up(capture)
          \/ over = {} /\ capture = Nil /\ UNCHANGED <<capture, grip, dirty>>
          \/ over \ Handle # {} /\ UNCHANGED <<capture, grip, dirty>>
  /\ UNCHANGED <<body, geometry, top, mouse, saved>>

\* The button is released where the document does not see it.
ReleaseUnseen ==
  /\ Lossy /\ pressed /\ pressed' = FALSE
  /\ UNCHANGED <<body, geometry, top, capture, grip, mouse, dirty, saved>>

\* A click on a window puts it on top.
Click ==
  /\ ~pressed /\ top' \in Wins
  /\ UNCHANGED <<body, geometry, capture, grip, pressed, mouse, dirty, saved>>

\* App.timeout saves a dirty session.
Save ==
  /\ dirty /\ dirty' = FALSE /\ saved' = geometry
  /\ UNCHANGED <<body, geometry, top, capture, grip, pressed, mouse>>

\* The browser's window is resized: App.layout leaves the windows where they are.
Layout ==
  /\ body' \in Bodies
  /\ UNCHANGED <<geometry, top, capture, grip, pressed, mouse, dirty, saved>>

Next == MouseMove \/ Press \/ Release \/ ReleaseUnseen \/ Click \/ Save \/ Layout

Spec == Init /\ [][Next]_vars

-----------------------------------------------------------------------------

\* Every variable has its type.
TypeOK ==
  /\ body \in Bodies /\ top \in Wins /\ mouse \in Points
  /\ place \in [Wins -> Point] /\ size \in [Wins -> [x : Nat, y : Nat]]
  /\ capture \in Handle \cup {Nil} /\ grip \in [Handle -> Grip \cup {Nil}]
  /\ pressed \in BOOLEAN /\ dirty \in BOOLEAN
  /\ saved \in [Wins -> Point] \X [Wins -> [x : Nat, y : Nat]]

\* The document never calls a handler that is null: a captured element has
\* its onmousemove, even after a release that went unseen.
CaptureHasHandler == capture # Nil => grip[capture] # Nil

\* Part of the bar of window w is on the page.
BarVisible(w) ==
  /\ place[w].x + size[w].x >= Margin /\ place[w].x <= body.x - Margin
  /\ place[w].y >= 0 /\ place[w].y <= body.y - BarHeight

\* A window that is moved, and not resized at once, keeps its bar in the page,
\* wherever the mouse goes and even if the page shrank under the drag.
MovedIsVisible ==
  [][\A w \in Wins : place'[w] # place[w] /\ size'[w] = size[w] => BarVisible(w)']_vars

\* A backup during a drag is not the last one: once no handle follows the mouse,
\* however the releases before were seen, the places where windows ended up are
\* saved or the session is dirty.
PlaceIsSaved == (\A h \in Handle : grip[h] = Nil) /\ ~dirty => saved[1] = place
=============================================================================
