---------------------------- MODULE MCScreenSync ----------------------------
(* Small instances of ScreenSync: one pane per session.                    *)
EXTENDS ScreenSync, TLC

CONSTANTS c1, c2, sA, sB, pA, pB, r1, r2

MCSessionOf == (pA :> sA) @@ (pB :> sB)
OneSession  == (pA :> sA)

TwoAndNone == (pA :> 2) @@ (pB :> 1)
ThreeAndNone == (pA :> 3) @@ (pB :> 1)
Three == (pA :> 3)
Two == (pA :> 2)

Clients == Permutations({c1, c2})
=============================================================================
