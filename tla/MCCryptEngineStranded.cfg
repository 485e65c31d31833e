CONSTANTS
  Mode = "script"
  LineKinds <- AllKinds
  MaxLines = 3
SPECIFICATION Spec
CHECK_DEADLOCK FALSE
PROPERTY
  EveryLineRead
