SPECIFICATION FairSpec
CONSTANTS
  Ids <- MCIds
  Crons = {1, 2}
  Kinds = {"check", "backup"}
  TargetedKinds = {"backup"}
  NextFire <- MCNextFire
  None = None
  Builds <- Whole
  Drafts <- WithBadTarget
  Bodies = {}
  Grace = 1
  MaxTime = 2
  MaxEdits = 2
  MaxBoots = 0
PROPERTIES
  OthersGoOn
CHECK_DEADLOCK FALSE
