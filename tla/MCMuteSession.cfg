CONSTANTS
  Sender = Sender
  Recipient = Recipient
  KeyInitHash = KeyInitHash
  StaleKeyInitHash = StaleKeyInitHash
  NoEntry = NoEntry
  Threads <- MCThreads
  SessionKeys <- MCSessionKeys
  NumOfFutureKeys = 3
  MaxEnvelopes = 4
  StoreLocking = TRUE

SPECIFICATION Spec

INVARIANT TypeOK
INVARIANT DecryptOutcomeContract
INVARIANT ChainUsableToTheEnd

PROPERTY KeyChainRefined
