SPECIFICATION Spec
CONSTANTS
  p1 = p1
  p2 = p2
  i1 = i1
  r1 = r1
  r2 = r2
  NoJob = NoJob
  Jobs <- PlainJobs
  KindOf <- PlainKind
  Clients = {c1, c2}
  MaxConcurrent = 1
  MaxRestarts = 1
INVARIANTS
  RowsOwned
  NothingLeaks
PROPERTIES
  FinishIsFinal
  RunsOnce
CHECK_DEADLOCK FALSE
