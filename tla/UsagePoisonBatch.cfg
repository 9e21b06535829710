\* A token is deleted while a request that uses it is running.
SPECIFICATION Spec
CONSTANTS
  Gates = {g1}
  Reals = {r1, r2}
  MaxEntries = 3
  ChannelSize = 2
  BatchSize = 2
  MaxRetries = 1
  Faults = {}
PROPERTY
  NoCollateralLoss
\* The process ends.
CHECK_DEADLOCK FALSE
