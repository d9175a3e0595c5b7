SPECIFICATION FairSpec
CONSTANTS
  Keys <- TwoKeys
  Overrides = {v}
  Default = d
  MaxUpdates = 2
  KeysCanFail = TRUE
  InitialDelay = 1
  MaxDelay = 2
  MarkedInTime = TRUE
INVARIANTS OldOrNew FollowsSettings
PROPERTIES  Announced
