SPECIFICATION FairServerSpec
CONSTANTS
  Commands = {c1, c2}
  Kinds = {"LOCAL", "INSTANT", "LIST", "MOVE", "HOME", "NET"}
  Serial = Serial
  Nobody = Nobody
  CacheSize = 1
  OrphanCap = 2
  MaxRuns = 2
  MaxSerial = 2
INVARIANTS OneAnswer DuplicateAnswered
PROPERTIES OncePerMemory NoEarlyDone EveryAnswered
