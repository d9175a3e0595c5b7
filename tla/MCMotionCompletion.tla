------------------------- MODULE MCMotionCompletion -------------------------
(* Small instances of MotionCompletion for TLC.                             *)
EXTENDS MotionCompletion, TLC

SymmetricCompletion == Permutations(Motors) \cup Permutations(Cmds)
=============================================================================
