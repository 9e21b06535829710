\* Two gate tokens with one client each, two real tokens, every fault; the counter
\* turns round after three selections: like 2^64 and a pool of three, 3 is no
\* multiple of the size of the pool.
SPECIFICATION Spec
CONSTANTS
  r1 = r1
  r2 = r2
  g1 = g1
  g2 = g2
  Gates = {g1, g2}
  NumReals = 2
  Requests = {r1, r2}
  GateOf <- OneClientEach
  StickyTTL = 2
  MaxDeletions = 1
  CounterRange = 3
  Faults = {"store", "crash"}
SYMMETRY Exchange
INVARIANTS
  TypeOK
  CacheAgrees
  EvenTurns
PROPERTY
  StickyAffinity
