--------------------------- MODULE MCCommandServer ---------------------------
(* Small instances of CommandServer for TLC.                                *)
EXTENDS CommandServer
=============================================================================
