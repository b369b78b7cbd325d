-------------------------- MODULE MCScrollbackSync --------------------------
(* Small instances of ScrollbackSync.                                      *)
EXTENDS ScrollbackSync
=============================================================================
