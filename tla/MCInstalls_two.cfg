SPECIFICATION Spec
CONSTANTS
  i = i
  k = k
  l = l
  Nobody = Nobody
  Operator = Operator
  NoId <- MCNoId
  Installs = {i, k}
  SlugOf <- Slugs
  Pins = {0, 1, 2}
  Ids = {1, 2}
  MaxCuts = 1
  MaxRestarts = 1
  MaxDoubts = 1
  MaxCancels = 1
  MaxAdopts = 1
INVARIANTS
  OneRecord
  RecordsAgree
  Attributed
CHECK_DEADLOCK FALSE
