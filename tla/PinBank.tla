------------------------------ MODULE PinBank ------------------------------
(***************************************************************************)
(* What the hardware window promises to a program: pins that keep the      *)
(* level they were last given, by the program or by the user, until the    *)
(* target changes, when they are all low again.                            *)
(***************************************************************************)
CONSTANT Names

VARIABLES
  bank,   \* the level of each pin of the target; no pin without a target
  read    \* what the program has read last

Banks == UNION {[S -> BOOLEAN] : S \in SUBSET Names}

Init == bank \in Banks /\ bank = [n \in DOMAIN bank |-> FALSE] /\ read = FALSE

Set(n, level) == bank' = [bank EXCEPT ![n] = level] /\ UNCHANGED read

\* A pin that does not exist, for want of a target, reads as low.
Read ==
  /\ \/ \E n \in DOMAIN bank : read' = bank[n]
     \/ DOMAIN bank = {} /\ read' = FALSE
  /\ UNCHANGED bank

NewTarget ==
  /\ bank' \in Banks /\ \A n \in DOMAIN bank' : ~bank'[n]
  /\ UNCHANGED read

Next == (\E n \in DOMAIN bank, level \in BOOLEAN : Set(n, level)) \/ Read \/ NewTarget

Spec == Init /\ [][Next]_<<bank, read>>
=============================================================================
