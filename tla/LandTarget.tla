------------------------------- MODULE LandTarget -------------------------------
(***************************************************************************)
(* What landing promises of the target branch: it only ever moves forward, *)
(* from one commit on which every gate is green to another.                *)
(***************************************************************************)
CONSTANTS Change, Sound(_)   \* Sound(c): every gate is green on commit c
VARIABLE main                \* the changes in the history of the target branch

Init == main = {}

Advance == \E c \in SUBSET Change : main \subseteq c /\ Sound(c) /\ main' = c

Spec == Init /\ [][Advance]_main
=============================================================================
