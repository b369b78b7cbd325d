------------------------- MODULE MCSessionRegistry -------------------------
(* Small instances of SessionRegistry.                                     *)
EXTENDS SessionRegistry, TLC

CONSTANTS g1, g2, k1, sA, sB

Names == Permutations({sA, sB})
NamesAndGuis == Permutations({sA, sB}) \cup Permutations({g1, g2})
=============================================================================
