---------------------------- MODULE MCLocalServer ----------------------------
(* Small instances of LocalServer.                                         *)
EXTENDS LocalServer

CONSTANTS c1, c2, d1, d2, d3
=============================================================================
