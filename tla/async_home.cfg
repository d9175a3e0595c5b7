SPECIFICATION Spec
CONSTANTS
  Motors = {m1}
  Cmds = {c1}
  NoCmd = NoCmd
  Kinds = {"HOME"}
  HalfRange = 1
  MoveTargets = {1}
  Overshoot = 1
  Backoff = 1
  Travel = 3
  BudgetMax = 4
  Spend = 2
  Refill = 3
  CoolSecs = 2
  Grace = 0
  MoveSecs = 1
  HomeSecs = 2
  MaxTickSecs = 0
  AsyncCommands = TRUE
INVARIANT HomedZero
