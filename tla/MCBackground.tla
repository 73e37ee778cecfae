---------------------------- MODULE MCBackground ----------------------------
(* Small instances of the background executor: see the configurations.      *)
EXTENDS Background
=============================================================================
