\* Two timer callbacks at a time: the older snapshot is installed last.
\* Without a crash the system is at rest once every id has been created and deleted.
SPECIFICATION Spec
CONSTANTS
  RealTokens = {t1}
  MaxFailures = 1
  Requests = {r1}
  Admins = {a1}
  Refreshers = {s1, s2}
  NoToken = NoToken
  Debounce = 2
  Faults = {}
INVARIANT
  RefreshedAfterward
CHECK_DEADLOCK FALSE
