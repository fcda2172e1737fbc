SPECIFICATION FairSpec
CONSTANTS
  MaxLines = 4
  MaxDrops = 2
  Sizes <- Either
  ClosesOnError = FALSE
INVARIANTS
  Told

  
CHECK_DEADLOCK FALSE
