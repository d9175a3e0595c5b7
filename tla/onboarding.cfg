SPECIFICATION FairSpec
CONSTANTS
  Tasks = {t1}
  Nets = {n1, n2}
  Ids = {i1}
  None = None
  Timeout = 1
  WaitForDone = TRUE
  Locked = TRUE
   
PROPERTIES AttemptEnds 
