------------------------- MODULE MCMotorController -------------------------
(* Small instances of MotorController for TLC.                              *)
EXTENDS MotorController, TLC

Symmetric == Permutations(Motors) \cup Permutations(Cmds)
=============================================================================
