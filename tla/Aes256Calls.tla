------------------------------ MODULE Aes256Calls -----------------------------
(***************************************************************************)
(* Callers of src/cipher/aes256: each step encrypts a plaintext with one  *)
(* of the package's modes, under any key and any rand reader outcome, and *)
(* decrypts the result with the matching function (for CTRStream, a       *)
(* stream made from the ciphertext's IV, as a reader of a CTR ciphertext  *)
(* in pieces would do).                                                    *)
(***************************************************************************)
EXTENDS Aes256

CONSTANTS
  KeyIds,        \* identities of keys
  MaxPlaintext   \* bound on the plaintext length

Modes == {"CBC", "CTR", "CTRStream"}
Keys == [len : {KeyLength - 1, KeyLength}, id : KeyIds]
Plaintexts == BoundedSeq(Bytes, MaxPlaintext)

VARIABLES mode, key, plaintext, rand, ciphertext, decrypted

vars == <<mode, key, plaintext, rand, ciphertext, decrypted>>

Encrypt(m, k, p, r) == IF m = "CBC" THEN CBCEncrypt(k, p, r) ELSE CTREncrypt(k, p, r)

Decrypt(m, k, c) ==
  CASE m = "CBC" -> CBCDecrypt(k, c)
    [] m = "CTR" -> CTRDecrypt(k, c)
    [] OTHER     -> LET s == CTRStream(k, IV(c))
                    IN  IF s = Panic THEN Panic ELSE XORKeyStream(s.key, s.iv, Body(c))

IdleState ==
  [mode |-> "CBC", key |-> [len |-> KeyLength, id |-> CHOOSE i \in KeyIds : TRUE],
   plaintext |-> <<>>, rand |-> RandError, ciphertext |-> Panic, decrypted |-> Panic]

Init ==
  /\ mode = IdleState.mode /\ key = IdleState.key /\ plaintext = IdleState.plaintext
  /\ rand = RandError /\ ciphertext = Panic /\ decrypted = Panic

Idle == ciphertext = Panic /\ decrypted = Panic /\ rand = RandError /\ mode = IdleState.mode
        /\ key = IdleState.key /\ plaintext = IdleState.plaintext

\* One caller's encrypt and decrypt, from an idle caller.
Call(m, k, p, r) ==
  LET c == Encrypt(m, k, p, r)
  IN  /\ Idle
      /\ mode' = m /\ key' = k /\ plaintext' = p /\ rand' = r
      /\ ciphertext' = c
      /\ decrypted' = IF c = Panic THEN Panic ELSE Decrypt(m, k, c)

\* The caller is done with its result and becomes idle again.
Return ==
  /\ ~Idle
  /\ mode' = IdleState.mode /\ key' = IdleState.key /\ plaintext' = IdleState.plaintext
  /\ rand' = RandError /\ ciphertext' = Panic /\ decrypted' = Panic

Next == Return \/ \E m \in Modes, k \in Keys, p \in Plaintexts, r \in Blocks \cup {RandError} : Call(m, k, p, r)

Spec == Init /\ [][Next]_vars

(* Whatever CBCEncrypt or CTREncrypt returns (without panicking) decrypts, *)
(* with the same key, to the plaintext: the IV prefix written by the      *)
(* encrypt functions is the one the decrypt functions and a CTRStream on   *)
(* it take off and use, for every length, partial CTR blocks included.    *)
RoundTrip == ciphertext # Panic => decrypted = plaintext

==============================================================================
