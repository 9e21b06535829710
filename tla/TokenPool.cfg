\* Two tokens, two requests reporting failures at once, one administrator, every
\* fault; callbacks do not overlap.
SPECIFICATION FairSpec
CONSTANTS
  RealTokens = {t1, t2}
  MaxFailures = 2
  Requests = {r1, r2}
  Admins = {a1}
  Refreshers = {s1}
  NoToken = NoToken
  Debounce = 2
  Faults = {"cancel", "refresh", "crash"}
INVARIANTS
  TypeOK
  PoolCoherent
  ThresholdEnforced
PROPERTIES
  PoolSettles
  DeactivationDue
