CONSTANTS
  Mode = "script"
  LineKinds <- CommandKinds
  MaxLines = 3
SPECIFICATION Spec
CHECK_DEADLOCK FALSE
INVARIANT
  PassphraseReadOnce
