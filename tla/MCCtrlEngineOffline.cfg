CONSTANTS
  MaxLines = 3
SPECIFICATION Spec
\* The process ends: Close, or util.Fatal.
CHECK_DEADLOCK FALSE
INVARIANT
  OfflineNeverOnline
