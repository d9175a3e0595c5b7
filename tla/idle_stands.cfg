SPECIFICATION Spec
CONSTANTS
  Motors = {m1, m2}
  Wakable = {m2}
  HalfRange = 1
  Speeds = {4000, 125000}
  Pre = 3
  Post = 3
  MaxBehind = 1
PROPERTY OnlyMovingStep
