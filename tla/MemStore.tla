------------------------------ MODULE MemStore ------------------------------
(***************************************************************************)
(* The in-memory key store of package memstore (src/unnamed/part_003),     *)
(* which implements the session.Store contract of src/msg/msg.go.          *)
(*                                                                         *)
(* A store is one party's MemStore value.  Every method is an operator     *)
(* from the store (and the method's arguments) to the new store or to the  *)
(* method's result; the modules that compose stores (MuteSession) apply    *)
(* them inside their actions, exactly as the engine calls the methods.     *)
(*                                                                         *)
(* Data abstraction: a message key string is TRUE while it is present and *)
(* FALSE once DelMessageKey has set it to "" (the only distinction the     *)
(* store makes); root key hash and chain key are not represented because  *)
(* no method changes them after StoreSession; identities and key hashes   *)
(* are model values, and the "@"-joined map index is the tuple it joins.   *)
(***************************************************************************)
EXTENDS Naturals

CONSTANTS
  Identities,     \* mapped user identities (identity.IsMapped holds)
  Hashes,         \* key-entry hashes (KeyInit and session public keys)
  NumOfFutureKeys,\* length of the precomputed send and recv chains
  NoEntry         \* absent map entry (Go nil / missing key)

ASSUME NumOfFutureKeys \in Nat \ {0}
ASSUME NoEntry \notin Hashes

\* Valid message indices of a chain: 0 .. len(s.send)-1.
KeyIndex == 0 .. NumOfFutureKeys - 1

(***************************************************************************)
(* session.State (src/msg/msg.go), restricted to the fields the modelled   *)
(* operations read or write.                                               *)
(***************************************************************************)
StateRec ==
  [ senderMessageCount : 0 .. NumOfFutureKeys,
    maxRecipientCount  : 0 .. NumOfFutureKeys,
    recipientTemp      : Hashes,
    senderSessionPub   : Hashes \cup {NoEntry},
    keyInitSession     : BOOLEAN ]

\* memSession: the two chains; TRUE = key present, FALSE = key deleted ("").
Chain == [KeyIndex -> BOOLEAN]
SessionRec == [send : Chain, recv : Chain]

\* The three maps of MemStore and its senderSessionPubHash field.
StoreType ==
  [ privateKeyEntryMap   : SUBSET Hashes,
    publicKeyEntryMap    : [Identities -> Hashes \cup {NoEntry}],
    sessionStates        : [Identities \X Identities -> StateRec \cup {NoEntry}],
    sessions             : [Identities \X Identities \X Hashes -> SessionRec \cup {NoEntry}],
    senderSessionPubHash : Hashes \cup {NoEntry} ]

\* New returns an empty MemStore.
New ==
  [ privateKeyEntryMap   |-> {},
    publicKeyEntryMap    |-> [i \in Identities |-> NoEntry],
    sessionStates        |-> [p \in Identities \X Identities |-> NoEntry],
    sessions             |-> [k \in Identities \X Identities \X Hashes |-> NoEntry],
    senderSessionPubHash |-> NoEntry ]

\* AddPrivateKeyEntry: privateKeyEntryMap[ke.HASH] = ke.
AddPrivateKeyEntry(ms, hash) ==
  [ms EXCEPT !.privateKeyEntryMap = @ \cup {hash}]

\* AddPublicKeyEntry: publicKeyEntryMap[identity] = ke.
AddPublicKeyEntry(ms, identity, hash) ==
  [ms EXCEPT !.publicKeyEntryMap[identity] = hash]

\* GetSessionState: sessionStates[myID@contactID], nil when absent.
GetSessionState(ms, myID, contactID) == ms.sessionStates[<<myID, contactID>>]

\* SetSessionState: sessionStates[myID@contactID] = sessionState.
SetSessionState(ms, myID, contactID, st) ==
  [ms EXCEPT !.sessionStates[<<myID, contactID>>] = st]

(***************************************************************************)
(* StoreSession: the identities are mapped and len(send) = len(recv) (the  *)
(* engine always passes NumOfFutureKeys fresh keys), so it always stores:  *)
(* it overwrites whatever session has the same index, and records the     *)
(* hash as the store-wide most recent senderSessionPubHash.               *)
(***************************************************************************)
\* Mutant: chains generated with one key too many (0 .. NumOfFutureKeys).
FreshSessionOffByOne ==
  [send |-> [i \in 0 .. NumOfFutureKeys |-> TRUE], recv |-> [i \in 0 .. NumOfFutureKeys |-> TRUE]]

FreshSession == [send |-> [i \in KeyIndex |-> TRUE], recv |-> [i \in KeyIndex |-> TRUE]]

StoreSession(ms, myID, contactID, sph) ==
  [ms EXCEPT !.sessions[<<myID, contactID, sph>>] = FreshSession,
             !.senderSessionPubHash = sph]

\* HasSession: the index myID@contactID@senderSessionPubHash is present.
HasSession(ms, myID, contactID, sph) ==
  ms.sessions[<<myID, contactID, sph>>] # NoEntry

\* GetPrivateKeyEntry succeeds iff the hash is in privateKeyEntryMap.
GetPrivateKeyEntry(ms, hash) ==
  IF hash \in ms.privateKeyEntryMap THEN "ok" ELSE "ErrNoKeyEntry"

\* GetPublicKeyEntry: the entry for the identity, or ErrNoKeyInit.
GetPublicKeyEntry(ms, identity) == ms.publicKeyEntryMap[identity]

(***************************************************************************)
(* GetMessageKey, in the code's order: no session, index out of bounds    *)
(* (checked against len(s.send) for both sides), key already used ("").   *)
(* Decoding errors cannot occur for keys StoreSession wrote.               *)
(***************************************************************************)
\* Mutant: bounds check off by one (msgIndex >= len(s.send)-1).
GetMessageKeyOffByOne(ms, myID, contactID, sph, sender, msgIndex) ==
  LET s == ms.sessions[<<myID, contactID, sph>>]
  IN  CASE s = NoEntry                       -> "ErrNoSession"
        [] msgIndex >= NumOfFutureKeys - 1   -> "ErrOutOfBounds"
        [] sender /\ ~s.send[msgIndex]       -> "ErrMessageKeyUsed"
        [] ~sender /\ ~s.recv[msgIndex]      -> "ErrMessageKeyUsed"
        [] OTHER                             -> "ok"

GetMessageKey(ms, myID, contactID, sph, sender, msgIndex) ==
  LET s == ms.sessions[<<myID, contactID, sph>>]
  IN  CASE s = NoEntry                   -> "ErrNoSession"
        [] msgIndex >= NumOfFutureKeys   -> "ErrOutOfBounds"
        [] sender /\ ~s.send[msgIndex]   -> "ErrMessageKeyUsed"
        [] ~sender /\ ~s.recv[msgIndex]  -> "ErrMessageKeyUsed"
        [] OTHER                         -> "ok"

\* DelMessageKey: sets the key of the given side to "" (no used check).
\* Its error returns (no session, out of bounds) leave the store unchanged.
\* Mutant: the sender flag ignored, the send-side key is always deleted.
DelMessageKeySendSideOnly(ms, myID, contactID, sph, sender, msgIndex) ==
  LET idx == <<myID, contactID, sph>>
  IN  IF ms.sessions[idx] = NoEntry \/ msgIndex >= NumOfFutureKeys
        THEN ms
        ELSE [ms EXCEPT !.sessions[idx].send[msgIndex] = FALSE]

DelMessageKey(ms, myID, contactID, sph, sender, msgIndex) ==
  LET idx == <<myID, contactID, sph>>
  IN  IF ms.sessions[idx] = NoEntry \/ msgIndex >= NumOfFutureKeys
        THEN ms
      ELSE IF sender
        THEN [ms EXCEPT !.sessions[idx].send[msgIndex] = FALSE]
        ELSE [ms EXCEPT !.sessions[idx].recv[msgIndex] = FALSE]

=============================================================================
