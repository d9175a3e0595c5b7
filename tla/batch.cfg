SPECIFICATION Spec
CONSTANTS
  m1 = m1
  m2 = m2
  Motors = {m1, m2}
  Console = loop
  Tasks = {loop, mqtt}
  Commands <- BothMotors
  MaxLength = 3
  MaxLines = 2
INVARIANTS ExceptionIsTheBatchs NoMotorTwice AckIsWhole
  
