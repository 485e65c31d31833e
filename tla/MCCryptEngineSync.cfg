CONSTANTS
  Mode = "sync"
  LineKinds <- CommandKinds
  MaxLines = 3
SPECIFICATION Spec
CHECK_DEADLOCK FALSE
PROPERTY
  SyncAnswered
