----------------------------- MODULE MCPtyPump -----------------------------
(* Small instances of PtyPump.                                             *)
EXTENDS PtyPump, TLC

CONSTANTS p1, p2

Panes == Permutations({p1, p2})
=============================================================================
