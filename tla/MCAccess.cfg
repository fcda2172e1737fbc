SPECIFICATION AccessSpec
CONSTANTS
  q1 = q1  q2 = q2  m1 = m1  m2 = m2
  People = {"ann", "bob"}  Threads = {q1, q2}  MaxDeeds = 3
  Visitors = {q1, q2}  Flows = {m1, m2}  Attempts = 2  MaxClock = 2  MaxActs = 3
  Machines = {m1, m2}  Callers = {q1, q2}  MaxHosts = 3  MaxKeys = 2  MaxSteps = 3
  Tickets = {"t1"}  Sockets = {q1, q2}  TargetIds = {1, 2}  MaxUpsets = 2
  Clerks = {q1, q2}  Beats = {m1, m2}  Grace = 0  MaxOffline = 1  MaxDays = 3  MaxAsks = 3
  MaxTroubles = 1  MaxIssues = 2
INVARIANTS    ConsolesSound LicenceSound
SYMMETRY Sym
\* the requests are all used up
CHECK_DEADLOCK FALSE
