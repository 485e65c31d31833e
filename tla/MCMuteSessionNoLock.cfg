CONSTANTS
  Sender = Sender
  Recipient = Recipient
  KeyInitHash = KeyInitHash
  StaleKeyInitHash = StaleKeyInitHash
  NoEntry = NoEntry
  Threads <- MCThreads
  SessionKeys <- MCSessionKeys
  NumOfFutureKeys = 2
  MaxEnvelopes = 3
  StoreLocking = FALSE

SPECIFICATION Spec

INVARIANT MessageKeyUsedOnce
