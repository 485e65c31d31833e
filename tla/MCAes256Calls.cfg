CONSTANTS
  BlockSize = 2
  KeyLength = 32
  ByteBits = 1
  KeyIds <- MCKeyIds
  MaxPlaintext = 5
  Panic = Panic
  RandError = RandError
SPECIFICATION Spec
INVARIANT RoundTrip
