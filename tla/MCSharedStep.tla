---------------------------- MODULE MCSharedStep ----------------------------
(* Small instances of SharedStep for TLC.                                   *)
EXTENDS SharedStep, TLC
=============================================================================
