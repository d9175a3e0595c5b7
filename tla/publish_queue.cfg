SPECIFICATION FairSpec
CONSTANTS
  Capacity = 2
  MaxStamp = 6
  MaxVersion = 3
  IdleInterval = 2
  MotionInterval = 1
INVARIANTS Bounded
PROPERTIES StatusOrder ResponsesAreLossyFifo Flushed EventuallyCurrent
