SPECIFICATION FairSpec
CONSTANTS
  i = i
  k = k
  l = l
  Nobody = Nobody
  Operator = Operator
  NoId <- MCNoId
  Installs = {i}
  SlugOf <- LoneSlug
  Pins = {0}
  Ids = {1, 2}
  MaxCuts = 1
  MaxRestarts = 2
  MaxDoubts = 0
  MaxCancels = 1
  MaxAdopts = 0
PROPERTIES
  UnknownAnswered
CHECK_DEADLOCK FALSE
