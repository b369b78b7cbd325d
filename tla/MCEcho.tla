------------------------------- MODULE MCEcho -------------------------------
(* Small instances of Echo.                                                *)
EXTENDS Echo

CONSTANTS x, y
=============================================================================
