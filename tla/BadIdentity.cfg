SPECIFICATION Spec
CONSTANTS
  MaxLines = 2
  MaxStructs = 1
CHECK_DEADLOCK FALSE
INVARIANT FromItsSources
