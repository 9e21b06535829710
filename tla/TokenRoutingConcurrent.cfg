\* Two requests of one gate token at a time, two real tokens, no fault.
SPECIFICATION Spec
CONSTANTS
  r1 = r1
  r2 = r2
  g1 = g1
  g2 = g2
  Gates = {g1}
  NumReals = 2
  Requests = {r1, r2}
  GateOf <- TwoClientsOneGate
  StickyTTL = 2
  MaxDeletions = 0
  CounterRange = 3
  Faults = {}
PROPERTY
  StickyAffinity
