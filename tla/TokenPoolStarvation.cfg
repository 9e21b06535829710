\* One token, one client that keeps failing: the debounced refresh never runs.
\* Without a crash the system is at rest once every id has been created and deleted.
SPECIFICATION FairSpec
CONSTANTS
  RealTokens = {t1}
  MaxFailures = 1
  Requests = {r1}
  Admins = {a1}
  Refreshers = {s1}
  NoToken = NoToken
  Debounce = 2
  Faults = {}
PROPERTY
  PoolConverges
CHECK_DEADLOCK FALSE
