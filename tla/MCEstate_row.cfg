SPECIFICATION EstateSpec
CONSTANTS
  q1 = q1  q2 = q2  m1 = m1  m2 = m2
  Operators = {q1, q2}  Peers = {"h1", "h2"}  Shared = {"cluster"}  Nodes = {"n1", "n2"}
  NodeOf <- McNodeOf  Members = {1}  MaxEdits = 0
  Editors = {q1, q2}  Needed = {"a", "b"}  ByHand = {"h"}  Bridges = {"vmbr1"}  MaxTouches = 0
  Pools = {m1, m2}  Uploads = {q1, q2}  Detachers = {"d1"}  MaxChanges = 0
  Vmids = {100, 101}  Askers = {q1, q2}  MaxGuests = 3  MaxStirs = 4
  MaxRows = 0  MaxAttempts = 0
  Hour = 2  FiveBack = 3  HourBack = 2  RawKeep = 5  FiveKeep = 5  HourKeep = 6  RawSpan = 1  FiveSpan = 3
  Maintainers = {q1, q2}  Horizon = 1  MaxCuts = 1  AnyPace = FALSE
INVARIANT GoesWhereItWasSent
SYMMETRY Sym
\* the requests are all used up
CHECK_DEADLOCK FALSE
