--------------------------- MODULE DocumentStore ---------------------------
(***************************************************************************)
(* What the session of the IDE promises (app.js): the document at hand is  *)
(* kept from time to time, and a page that opens shows the document that   *)
(* was kept last.                                                          *)
(***************************************************************************)
CONSTANTS Documents, NoDocument, Nothing

VARIABLES
  kept,     \* the document in the durable store, or Nothing
  atHand    \* the document of the page, or Nothing when no page shows one

SInit == kept \in Documents \cup {Nothing} /\ atHand = Nothing

Show ==
  /\ atHand = Nothing
  /\ atHand' = IF kept = Nothing THEN NoDocument ELSE kept
  /\ UNCHANGED kept

Change == atHand # Nothing /\ atHand' \in Documents /\ UNCHANGED kept

Keep == atHand # Nothing /\ kept' = atHand /\ UNCHANGED atHand

Leave == atHand' = Nothing /\ UNCHANGED kept

SNext == Show \/ Change \/ Keep \/ Leave

SSpec == SInit /\ [][SNext]_<<kept, atHand>>
=============================================================================
