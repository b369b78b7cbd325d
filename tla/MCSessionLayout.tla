--------------------------- MODULE MCSessionLayout ---------------------------
(* Small instances of SessionLayout.                                       *)
EXTENDS SessionLayout, TLC

CONSTANTS p1, p2, p3

Panes == Permutations(Pane)
=============================================================================
