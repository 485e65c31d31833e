CONSTANTS
  User = User
  OtherUser = OtherUser
  RepoURI = RepoURI
  OtherURI = OtherURI
  MaxNotAfter = 2
  MaxTime = 2
  MaxCount = 1
  BlockSize = 2
  KeyLength = 32
  ByteBits = 1
  Panic = Panic
  RandError = RandError
  EntryAnchor <- MCEntryAnchor
  NoEntryAnchor <- MCNoEntryAnchor
  IVs <- MCIVs
SPECIFICATION Spec
INVARIANTS
  TypeOK
  VerifyAcceptsOnlyAuthentic
  IssuedVerifiesUntilExpiry
