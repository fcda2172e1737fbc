SPECIFICATION OpsSpec
CONSTANTS
  Rules = {r1, r2}  Targets = {t1}  Channels = {c1}  MaxMoves = 3
  m1 = m1  m2 = m2  h1 = h1  h2 = h2
  Migrations = {m1, m2}  HostSet = {h1, h2}  Home = h1
  Sites = {"cluster", "shared", "transfer"}  MaxTrouble = 2
  u1 = u1  u2 = u2  f1 = f1
  Updates = {u1, u2}  Refreshes = {f1}  MaxSha = 3  MaxEdits = 3
  Workers = {j1, j2}  Rotten = {2}  MaxArchives = 2  MaxDeeds = 3
INVARIANTS AlertsHonest ScriptsHonest BackupsHonest
PROPERTIES AlertsSettle MigrationKeeps EditsSurvive BadgeSettles 
CHECK_DEADLOCK FALSE
