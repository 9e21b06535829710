\* Every answer of up to three lines, with and without its last line end, cut into
\* chunks in every way.
SPECIFICATION Spec
CONSTANTS
  Counts = {1, 2}
  MaxLines = 3
INVARIANTS
  TypeOK
  ChunksDoNotMatter
  ReportedOnce
\* The stream ends.
CHECK_DEADLOCK FALSE
