------------------------------ MODULE MCBatch ------------------------------
EXTENDS Batch

CONSTANTS m1, m2

One(op, m, est) == [op |-> op, mask |-> {m}, est |-> est]

BothMotors ==
    {One("MOVE", m1, 1), One("MOVE", m2, 2), One("HOME", m1, 2), One("SLEEP", m1, 0),
     One("WAKE", m2, 0), [op |-> "SET", mask |-> {}, est |-> 0],
     [op |-> "STATUS", mask |-> {}, est |-> 0], [op |-> "UNKNOWN", mask |-> {}, est |-> 0]}
=============================================================================
