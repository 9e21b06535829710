\* An answer whose text contains the name of an event.
SPECIFICATION Spec
CONSTANTS
  Counts = {1, 2}
  MaxLines = 2
INVARIANT
  TextDoesNotMatter
\* The stream ends.
CHECK_DEADLOCK FALSE
