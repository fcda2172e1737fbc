SPECIFICATION FairSpec
CONSTANTS
  p1 = p1
  p2 = p2
  i1 = i1
  r1 = r1
  r2 = r2
  NoJob = NoJob
  Jobs <- InstallJobs
  KindOf <- InstallKind
  Clients = {c1}
  MaxConcurrent = 1
  MaxRestarts = 1
INVARIANTS
  IInv
  DispatchedNeverInterrupted
  UnknownIsAsked
PROPERTIES
  LifecycleFair
CHECK_DEADLOCK FALSE
