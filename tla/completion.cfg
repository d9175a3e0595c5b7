SPECIFICATION FairCompletionSpec
CONSTANTS
  Motors = {m1, m2}
  Cmds = {c1, c2}
  NoCmd = NoCmd
  Kinds = {"MOVE", "HOME", "SLEEP"}
  HalfRange = 1
  MoveTargets = {1}
  Overshoot = 1
  Backoff = 1
  Travel = 3
  BudgetMax = 4
  Spend = 2
  Refill = 3
  CoolSecs = 2
  Grace = 0
  MoveSecs = 1
  HomeSecs = 2
  MaxTickSecs = 1
  AsyncCommands = FALSE
  WaitForDone = TRUE
INVARIANTS ActualIsOwn MoveArrived NeverCutOff
PROPERTIES  OperationsEnd
