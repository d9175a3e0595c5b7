------------------------------ MODULE MCPresence ------------------------------
(* Small instances of Presence and ConfigStore for TLC.                     *)
EXTENDS Presence

TwoKeys == <<"host", "user">>
=============================================================================
