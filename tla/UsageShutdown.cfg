\* The process is told to stop while entries wait.
SPECIFICATION Spec
CONSTANTS
  Gates = {g1}
  Reals = {r1, r2}
  MaxEntries = 3
  ChannelSize = 2
  BatchSize = 2
  MaxRetries = 1
  Faults = {}
INVARIANT
  ShutdownDrains
\* The process ends.
CHECK_DEADLOCK FALSE
