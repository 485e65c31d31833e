-------------------------------- MODULE Aes256 --------------------------------
(***************************************************************************)
(* The AES-256 helpers of src/cipher/aes256/aes256.go as operators.       *)
(*                                                                         *)
(* A byte string is a sequence over Bytes (ByteBits bits a byte), a key   *)
(* the record of its length and an identity.  aes.NewCipher's block       *)
(* permutation is abstracted to a keyed permutation of blocks; the modes   *)
(* crypto/cipher builds on it (CBC chaining, CTR with a big-endian         *)
(* counter that wraps) are translated as Go implements them.  A call that  *)
(* panics returns Panic; a rand reader that fails is RandError in place    *)
(* of the IV it would have returned; both are model values.               *)
(***************************************************************************)
EXTENDS Integers, Sequences, SequencesExt, Bitwise

CONSTANTS
  BlockSize,  \* aes.BlockSize (16)
  KeyLength,  \* the key length the package demands (32)
  ByteBits,   \* bits of a byte (8)
  Panic,      \* the result of a call that panics
  RandError   \* a rand reader that fails, in place of the IV it returns

ASSUME BlockSize \in Nat \ {0} /\ KeyLength \in Nat /\ ByteBits \in Nat \ {0}

ByteCount == 2^ByteBits
Bytes == 0 .. ByteCount - 1
Blocks == [1 .. BlockSize -> Bytes]

\* aes.NewCipher(key): a permutation of blocks for every key.  Byte i of
\* the output is byte i+1 of the input (cyclically) plus key and position.
BlockEncrypt(key, b) ==
  [i \in 1 .. BlockSize |-> (b[(i % BlockSize) + 1] + key.id + i) % ByteCount]

BlockDecrypt(key, c) ==
  [j \in 1 .. BlockSize |->
     LET i == IF j = 1 THEN BlockSize ELSE j - 1
     IN  (c[i] - key.id - i) % ByteCount]

XorBytes(a, b) == [i \in 1 .. Len(a) |-> a[i] ^^ b[i]]

\* A byte string of whole blocks, as its sequence of blocks.
Chunks(s) ==
  [j \in 1 .. Len(s) \div BlockSize |-> SubSeq(s, (j - 1) * BlockSize + 1, j * BlockSize)]

\* cipher.NewCBCEncrypter / NewCBCDecrypter and CryptBlocks.
RECURSIVE CBCChain(_, _, _)
CBCChain(key, prev, blocks) ==
  IF blocks = <<>> THEN <<>>
  ELSE LET c == BlockEncrypt(key, XorBytes(Head(blocks), prev))
       IN  c \o CBCChain(key, c, Tail(blocks))

RECURSIVE CBCUnchain(_, _, _)
CBCUnchain(key, prev, blocks) ==
  IF blocks = <<>> THEN <<>>
  ELSE XorBytes(BlockDecrypt(key, Head(blocks)), prev) \o CBCUnchain(key, Head(blocks), Tail(blocks))

\* cipher.NewCTR: the counter is the IV taken as a big-endian number,
\* incremented after every block, wrapping at 2^(8*BlockSize).
RECURSIVE IncrementFrom(_, _)
IncrementFrom(ctr, i) ==
  IF i = 0 THEN ctr
  ELSE IF ctr[i] = ByteCount - 1
       THEN IncrementFrom([ctr EXCEPT ![i] = 0], i - 1)
       ELSE [ctr EXCEPT ![i] = ctr[i] + 1]

RECURSIVE Counter(_, _)
Counter(iv, j) == IF j = 0 THEN iv ELSE IncrementFrom(Counter(iv, j - 1), BlockSize)

KeyStream(key, iv, n) ==
  FlattenSeq([j \in 1 .. (n + BlockSize - 1) \div BlockSize |-> BlockEncrypt(key, Counter(iv, j - 1))])

XORKeyStream(key, iv, src) == XorBytes(src, KeyStream(key, iv, Len(src)))

IV(ciphertext) == SubSeq(ciphertext, 1, BlockSize)
Body(ciphertext) == SubSeq(ciphertext, BlockSize + 1, Len(ciphertext))

(***************************************************************************)
(* The package's functions, each guard a panic in the code's order.       *)
(***************************************************************************)
CBCEncrypt(key, plaintext, rand) ==
  CASE key.len # KeyLength              -> Panic
    [] Len(plaintext) % BlockSize # 0   -> Panic
    [] rand = RandError                 -> Panic
    [] OTHER                            -> rand \o CBCChain(key, rand, Chunks(plaintext))

\* Mutant: ciphertext not resliced past the IV, so the IV is decrypted too.
CBCDecryptNoReslice(key, ciphertext) ==
  CASE key.len # KeyLength                 -> Panic
    [] Len(ciphertext) < BlockSize         -> Panic
    [] Len(ciphertext) % BlockSize # 0     -> Panic
    [] OTHER                               -> CBCUnchain(key, IV(ciphertext), Chunks(ciphertext))

CBCDecrypt(key, ciphertext) ==
  CASE key.len # KeyLength                     -> Panic
    [] Len(ciphertext) < BlockSize             -> Panic
    [] Len(Body(ciphertext)) % BlockSize # 0   -> Panic
    [] OTHER                                   -> CBCUnchain(key, IV(ciphertext), Chunks(Body(ciphertext)))

CTREncrypt(key, plaintext, rand) ==
  CASE key.len # KeyLength  -> Panic
    [] rand = RandError     -> Panic
    [] OTHER                -> rand \o XORKeyStream(key, rand, plaintext)

CTRDecrypt(key, ciphertext) ==
  CASE key.len # KeyLength          -> Panic
    [] Len(ciphertext) < BlockSize  -> Panic
    [] OTHER                        -> XORKeyStream(key, IV(ciphertext), Body(ciphertext))

\* A cipher.Stream is the key and IV its XORKeyStream runs from.
CTRStream(key, iv) ==
  CASE key.len # KeyLength   -> Panic
    [] Len(iv) # BlockSize   -> Panic
    [] OTHER                 -> [key |-> key, iv |-> iv]

==============================================================================
