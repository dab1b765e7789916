-------------------------- MODULE MCRuntimeUpdates --------------------------
(***************************************************************************)
(* Small instances of RuntimeUpdates.                                      *)
(***************************************************************************)
EXTENDS RuntimeUpdates, TLC

CONSTANTS t1, t2, r1
=============================================================================
