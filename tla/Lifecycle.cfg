\* Two processes of releases with one, two or three migrations on one database file.
SPECIFICATION FairSpec
CONSTANTS
  Processes = {p1, p2}
  MaxVersion = 3
  UniqueVersion = 2
  MaxHandlers = 1
INVARIANTS
  TypeOK
  SchemaConsistent
  ServesMigrated
  CloseAfterUsers
PROPERTY
  PhasesEnd
