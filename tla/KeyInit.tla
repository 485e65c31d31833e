------------------------------- MODULE KeyInit -------------------------------
(***************************************************************************)
(* KeyInit messages (src/uid/keyinit.go): one user creates KeyInits with   *)
(* Message.KeyInit as the clock advances, an attacker tampers with the  *)
(* ones on the wire or offers another user's KeyInit in their place, and   *)
(* peers run Verify and Check on whatever they receive.  The attacker is   *)
(* the input domain of Verify (Received), not a process of its own.        *)
(*                                                                         *)
(* Data abstraction: a KeyInit is the record of the fields the checks      *)
(* read.  Hash and signature comparisons become facts about who made the   *)
(* message: "signer" is the owner of the key that signed it (its          *)
(* SIGKEYHASH names that key) and "sigValid" says whether SIGNATURE still  *)
(* matches the contents.  SESSIONANCHOR is a byte string, encrypted and    *)
(* decrypted with the AES-256 CTR of Aes256 under SIGKEY.HASH; the JSON    *)
(* of a session anchor is one of two byte strings (EntryAnchor holds a     *)
(* valid ECDHE25519 KeyEntry, NoEntryAnchor does not) and                  *)
(* SESSIONANCHORHASH is the one its hash was taken of.  FALLBACK and       *)
(* MIXADDRESS are carried but never checked, so they are left out.         *)
(***************************************************************************)
EXTENDS Integers, Sequences, SequencesExt

CONSTANTS
  User,          \* the identity whose KeyInits are modelled
  OtherUser,     \* another identity with its own signing key
  RepoURI,       \* msg.UIDContent.REPOURIS[0], the user's KeyInit repository
  OtherURI,      \* any other repository URI
  MaxNotAfter,   \* uid.MaxNotAfter (90 days), in clock ticks
  MaxTime,       \* bound on the clock
  MaxCount,      \* bound on MSGCOUNT
  BlockSize, KeyLength, ByteBits, Panic, RandError,  \* of Aes256
  EntryAnchor,   \* SessionAnchor.json() of an anchor with an ECDHE25519 entry
  NoEntryAnchor, \* the same of an anchor without a valid one
  IVs            \* the IVs rand may yield at creation

ASSUME MaxNotAfter \in Nat /\ MaxTime \in Nat /\ MaxCount \in Nat

AES == INSTANCE Aes256

ASSUME IVs \subseteq AES!Blocks

\* keyHash[:32]: SIGKEY.HASH of User's UID message, as creation and
\* SessionAnchor (decoding and hashing the SIGKEY) both derive it.
UserKey == [len |-> KeyLength, id |-> 1]
AnchorJSONs == {EntryAnchor, NoEntryAnchor}
AnchorBytes == BoundedSeq(AES!Bytes, BlockSize + Len(EntryAnchor))

\* util.ContainsString.
ContainsString(sa, str) == \E i \in DOMAIN sa : sa[i] = str

\* Times a KeyInit field can hold; creation is also asked for one tick
\* beyond, which its ErrFuture check must refuse.
Times == 0 .. MaxTime + MaxNotAfter
InputTimes == 0 .. MaxTime + MaxNotAfter + 1
KeyInitRec ==
  [count : 0 .. MaxCount, notbefore : Times, notafter : Times, repo : {RepoURI, OtherURI},
   signer : {User, OtherUser}, sigValid : BOOLEAN, anchor : AnchorBytes, anchorHash : AnchorJSONs]

VARIABLES
  now,        \* times.Now()
  issued,     \* KeyInits created by User's Message.KeyInit
  lastCount,  \* highest MSGCOUNT User has used, -1 before the first
  created,    \* result of User's last KeyInit call
  verified    \* the last Verify, as {[ki, now, res]} ({} before the first)

vars == <<now, issued, lastCount, created, verified>>

VerifyResults == {"ok", "ErrRepoURI", "ErrWrongSigKeyHash", "panic", "ErrJSON", "ErrSessionAnchor",
                  "ErrKeyEntryNotFound", "ErrInvalidTimes", "ErrExpired", "ErrInvalidKeyInitSig"}

TypeOK ==
  /\ now \in 0 .. MaxTime
  /\ issued \subseteq KeyInitRec
  /\ lastCount \in -1 .. MaxCount
  /\ created \in {"none", "ok", "ErrInvalidTimes", "ErrExpired", "ErrFuture", "ErrRepoURI",
                  "ErrRand", "panic"}
  /\ verified \subseteq [ki : KeyInitRec, now : 0 .. MaxTime, res : VerifyResults]

Init ==
  /\ now = 0
  /\ issued = {}
  /\ lastCount = -1
  /\ created = "none"
  /\ verified = {}

Tick ==
  /\ now < MaxTime
  /\ now' = now + 1
  /\ UNCHANGED <<issued, lastCount, created, verified>>

(***************************************************************************)
(* Message.KeyInit: the time checks in the code's order, then the       *)
(* REPOURI check, then a new session anchor (msg.sessionAnchor: its JSON  *)
(* encrypted with a fresh IV read from rand) and the self-signature.  The  *)
(* caller picks MSGCOUNT as documented: larger than every earlier one.     *)
(***************************************************************************)
\* Mutant: the ErrFuture check (notafter > now + MaxNotAfter) dropped.
CreateErrorNoFuture(notbefore, notafter, repo) ==
  CASE notbefore >= notafter         -> "ErrInvalidTimes"
    [] notafter < now                -> "ErrExpired"
    [] repo # RepoURI                -> "ErrRepoURI"
    [] OTHER                         -> "ok"

CreateError(notbefore, notafter, repo) ==
  CASE notbefore >= notafter         -> "ErrInvalidTimes"
    [] notafter < now                -> "ErrExpired"
    [] notafter > now + MaxNotAfter  -> "ErrFuture"
    [] repo # RepoURI                -> "ErrRepoURI"
    [] OTHER                         -> "ok"

SessionAnchorEnc(iv) == AES!CTREncrypt(UserKey, EntryAnchor, iv)

\* The two reads from rand after the checks: InitDHKey's key read, whose
\* failure (dh FALSE) is returned as an error, and the IV read inside
\* aes256.CTREncrypt, whose failure (iv = RandError) panics.  A panic ends
\* the caller's process; a restarted caller may create again.
CreateKeyInit(count, notbefore, notafter, repo, dh, iv) ==
  LET res == CASE CreateError(notbefore, notafter, repo) # "ok" -> CreateError(notbefore, notafter, repo)
                [] ~dh                                         -> "ErrRand"
                [] SessionAnchorEnc(iv) = Panic                -> "panic"
                [] OTHER                                       -> "ok"
  IN  /\ count > lastCount
      /\ created' = res
      /\ IF res = "ok"
           THEN LET ki == [count |-> count, notbefore |-> notbefore, notafter |-> notafter,
                           repo |-> repo, signer |-> User, sigValid |-> TRUE,
                           anchor |-> SessionAnchorEnc(iv), anchorHash |-> EntryAnchor]
                IN  /\ issued' = issued \cup {ki}
                    /\ lastCount' = count
           ELSE UNCHANGED <<issued, lastCount>>
      /\ UNCHANGED <<now, verified>>

(***************************************************************************)
(* What a peer may receive as User's KeyInit: an issued one, one with a    *)
(* signed field changed by someone without the signing key, or one         *)
(* OtherUser signed correctly with its own key (and so with its own        *)
(* SIGKEYHASH).  SESSIONANCHOR can be cut short or have a byte changed,    *)
(* or be replaced, with or without its hash, by an anchor without an       *)
(* ECDHE25519 entry: the anchor key is derived from the public SIGKEY, so  *)
(* anyone can encrypt one.                                                 *)
(***************************************************************************)
GarbledAnchors(a) ==
  {SubSeq(a, 1, n) : n \in 0 .. Len(a) - 1}
    \cup {[a EXCEPT ![i] = (a[i] + 1) % AES!ByteCount] : i \in DOMAIN a}

NoEntryAnchorEnc(ki) == AES!CTREncrypt(UserKey, NoEntryAnchor, AES!IV(ki.anchor))

Tampered(ki) ==
  {[ki EXCEPT !.notafter = t, !.sigValid = FALSE] : t \in Times}
    \cup {[ki EXCEPT !.notbefore = t, !.sigValid = FALSE] : t \in Times}
    \cup {[ki EXCEPT !.anchor = a, !.sigValid = FALSE] : a \in GarbledAnchors(ki.anchor)}
    \cup {[ki EXCEPT !.repo = OtherURI, !.sigValid = FALSE],
          [ki EXCEPT !.anchor = NoEntryAnchorEnc(ki), !.sigValid = FALSE],
          [ki EXCEPT !.anchor = NoEntryAnchorEnc(ki), !.anchorHash = NoEntryAnchor,
                     !.sigValid = FALSE],
          [ki EXCEPT !.signer = OtherUser]}

Received == issued \cup UNION {Tampered(ki) : ki \in issued}

(***************************************************************************)
(* KeyInit.Verify against User's repository URIs and signature key: the    *)
(* REPOURI, SessionAnchor (SIGKEYHASH; SESSIONANCHOR decrypted with        *)
(* aes256.CTRDecrypt, which panics on fewer than BlockSize bytes; the      *)
(* JSON parsed; its hash against SESSIONANCHORHASH), the ECDHE25519        *)
(* KeyEntry and its Verify, NOTBEFORE < NOTAFTER, not expired, and last    *)
(* the self-signature.                                                     *)
(***************************************************************************)
RepoURIs == <<RepoURI>>

AnchorText(ki) == AES!CTRDecrypt(UserKey, ki.anchor)

SessionAnchorResult(ki) ==
  CASE ki.signer # User                       -> "ErrWrongSigKeyHash"
    [] AnchorText(ki) = Panic                 -> "panic"
    [] AnchorText(ki) \notin AnchorJSONs      -> "ErrJSON"
    [] AnchorText(ki) # ki.anchorHash         -> "ErrSessionAnchor"
    [] OTHER                                  -> "ok"

\* Mutant: the self-signature check left out.
VerifyResultNoSig(ki) ==
  CASE ~ContainsString(RepoURIs, ki.repo)     -> "ErrRepoURI"
    [] SessionAnchorResult(ki) # "ok"         -> SessionAnchorResult(ki)
    [] AnchorText(ki) # EntryAnchor           -> "ErrKeyEntryNotFound"
    [] ki.notbefore >= ki.notafter            -> "ErrInvalidTimes"
    [] ki.notafter < now                      -> "ErrExpired"
    [] OTHER                                  -> "ok"

\* Mutant: expiry off by one (NOTAFTER <= now counts as expired).
VerifyResultExpiredAtBoundary(ki) ==
  CASE ~ContainsString(RepoURIs, ki.repo)     -> "ErrRepoURI"
    [] SessionAnchorResult(ki) # "ok"         -> SessionAnchorResult(ki)
    [] AnchorText(ki) # EntryAnchor           -> "ErrKeyEntryNotFound"
    [] ki.notbefore >= ki.notafter            -> "ErrInvalidTimes"
    [] ki.notafter <= now                     -> "ErrExpired"
    [] ~ki.sigValid                           -> "ErrInvalidKeyInitSig"
    [] OTHER                                  -> "ok"

VerifyResult(ki) ==
  CASE ~ContainsString(RepoURIs, ki.repo)     -> "ErrRepoURI"
    [] SessionAnchorResult(ki) # "ok"         -> SessionAnchorResult(ki)
    [] AnchorText(ki) # EntryAnchor           -> "ErrKeyEntryNotFound"
    [] ki.notbefore >= ki.notafter            -> "ErrInvalidTimes"
    [] ki.notafter < now                      -> "ErrExpired"
    [] ~ki.sigValid                           -> "ErrInvalidKeyInitSig"
    [] OTHER                                  -> "ok"

Verify(ki) ==
  /\ verified' = {[ki |-> ki, now |-> now, res |-> VerifyResult(ki)]}
  /\ UNCHANGED <<now, issued, lastCount, created>>

\* KeyInit.Check: version "1.0" (the only one KeyInit writes) requires
\* MSGCOUNT = 0.
Check(ki) == IF ki.count # 0 THEN "ErrMsgCount" ELSE "ok"

Next ==
  \/ Tick
  \/ \E c \in 0 .. MaxCount, nb, na \in InputTimes, r \in {RepoURI, OtherURI},
          dh \in BOOLEAN, iv \in IVs \cup {RandError} :
       CreateKeyInit(c, nb, na, r, dh, iv)
  \/ \E ki \in Received : Verify(ki)

Spec == Init /\ [][Next]_vars

-----------------------------------------------------------------------------
(* Verify, which exists to refuse whatever a KeyInit repository or an      *)
(* attacker hands it, returns an error for every received KeyInit: it      *)
(* never panics, whatever bytes SESSIONANCHOR holds.                       *)
VerifyNeverPanics == \A r \in verified : r.res # "panic"

(* Verify accepts only KeyInits that User created, and only while they     *)
(* have not expired: tampering by the attacker, substitution of another    *)
(* user's KeyInit and expiry are each caught by one of Verify's checks.    *)
VerifyAcceptsOnlyAuthentic ==
  \A r \in verified : r.res = "ok" => (r.ki \in issued /\ r.now <= r.ki.notafter)

(* A KeyInit that User's KeyInit call created verifies at every time up to *)
(* and including its NOTAFTER: creation and Verify agree on the time       *)
(* checks at the boundary.                                                 *)
IssuedVerifiesUntilExpiry ==
  \A r \in verified : (r.ki \in issued /\ r.now <= r.ki.notafter) => r.res = "ok"

=============================================================================
