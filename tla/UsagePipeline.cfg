\* One gate token, two real tokens; more reports than a batch or the channel holds;
\* every fault.
SPECIFICATION FairSpec
CONSTANTS
  Gates = {g1}
  Reals = {r1, r2}
  MaxEntries = 3
  ChannelSize = 2
  BatchSize = 2
  MaxRetries = 2
  Faults = {"store", "crash"}
INVARIANTS
  TypeOK
  BufferBound
  RecordedInOrder
  TotalsAgree
  TotalsCoverLogs
PROPERTIES
  ImplementsLedger
  EntriesSettle
