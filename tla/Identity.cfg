SPECIFICATION Spec
CONSTANTS
  MaxLines = 2
  MaxStructs = 2
CHECK_DEADLOCK FALSE
INVARIANT FromReadableLines
