----------------------------- MODULE MCWindows -----------------------------
(***************************************************************************)
(* A window of 60 by 30 pixels, one wide and one narrow page, a mouse that *)
(* may leave the page on each side.                                        *)
(***************************************************************************)
EXTENDS Windows

\* A corner of the page and beyond the other one.
FewPoints == {[x |-> 10, y |-> 5], [x |-> 200, y |-> 100]}

MCBodies == {[x |-> 120, y |-> 60], [x |-> 60, y |-> 40]}

MCInitPlace == [w \in Wins |-> [x |-> 0, y |-> 0]]
MCInitSize == [w \in Wins |-> [x |-> 60, y |-> 30]]
=============================================================================
