SPECIFICATION FairSpec
CONSTANTS
  Ids <- MCIds
  Crons = {1, 2}
  Kinds = {"check", "backup"}
  TargetedKinds = {"backup"}
  NextFire <- MCNextFire
  None = None
  Builds <- Upgraded
  Drafts <- TwoDrafts
  Bodies <- AnyBody
  Grace = 1
  MaxTime = 3
  MaxEdits = 2
  MaxBoots = 1
INVARIANTS
  OwedOnce
  CrashesBounded
PROPERTIES
  PassedMeansFired
  OffStaysOff
  EveryDueFires
CHECK_DEADLOCK FALSE
