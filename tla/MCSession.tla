----------------------------- MODULE MCSession -----------------------------
(***************************************************************************)
(* Small instances of Session: two documents or three, three shapes of one *)
(* window, two speeds, one target or two, and two languages.               *)
(***************************************************************************)
EXTENDS Session

CONSTANTS T44, T84

MCTargets == {T44, T84}

Shut == [place |-> "left", visible |-> FALSE]
Shown == [place |-> "left", visible |-> TRUE]
Moved == [place |-> "right", visible |-> FALSE]

MCPlaces == {"left", "right"}
MCShapes == [w \in Windows |-> IF w = "logger" THEN {Shut, Shown, Moved} ELSE {Shut}]

MCDefaultView ==
  [w \in Windows |->
     [shape |-> Shut, own |-> CASE w = "cpu" -> 8 [] w = "hw" -> T44 [] OTHER -> Nil]]

\* Sessions of another version: complete, with a speed or a target that this
\* version has not, or with another shape of a window.
MCFormerEntries ==
  { [MCDefaultView EXCEPT !["cpu"].own = Foreign],
    [MCDefaultView EXCEPT !["hw"].own = Foreign],
    [MCDefaultView EXCEPT !["logger"].shape = Shown] }
=============================================================================
