SPECIFICATION FairSpec
CONSTANTS
  GateTokens = {g1, g2}
  Bearers = {b1, b2}
  NoToken = NoToken
  Requests = {r1}
  Faults = {"database", "crash"}
  Admins = {a1}
  Sessions = {s1}
  SessionTTL = 2
INVARIANTS
  TypeOK
  RevocationHolds
  Accounted
  FailuresDeserved
PROPERTIES
  SessionsHonoured
  LeavingEnds
