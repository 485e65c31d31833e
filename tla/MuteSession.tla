----------------------------- MODULE MuteSession -----------------------------
(***************************************************************************)
(* The message engine (encrypt/decrypt of spec.md sections 4.2-4.4 and 5)  *)
(* running on two MemStores: one sender identity encrypting to one         *)
(* recipient identity from several concurrent invocations ("threads"),    *)
(* and the recipient decrypting whatever envelope the transport hands it. *)
(*                                                                         *)
(* The engine's encrypt/decrypt code is not part of src/, so its actions  *)
(* are modelled from spec.md; every key-store call they make is the       *)
(* MemStore operator translated from src/unnamed/part_003.                 *)
(*                                                                         *)
(* The transport is unreliable: an envelope stays in net forever, so it   *)
(* may be delivered never (loss), several times (duplication/replay) and   *)
(* in any order.  Session-key rotation is not modelled yet: a session is   *)
(* established once from the recipient's KeyInit key and lasts until its   *)
(* NumOfFutureKeys keys are spent.                                         *)
(***************************************************************************)
EXTENDS Naturals, FiniteSets

CONSTANTS
  Sender, Recipient, \* the two identities
  KeyInitHash,       \* hash of the recipient's current KeyInit key
  StaleKeyInitHash,  \* a KeyInit key the recipient no longer holds
  SessionKeys,       \* hashes available for fresh sender session keys
  Threads,           \* concurrent encrypt invocations of the sender
  MaxEnvelopes,      \* bound on successfully produced envelopes
  StoreLocking,      \* does the store serialise calls on one session?
  NumOfFutureKeys,
  NoEntry

Identities == {Sender, Recipient}
Hashes == SessionKeys \cup {KeyInitHash, StaleKeyInitHash}

ASSUME Sender # Recipient
ASSUME KeyInitHash \notin SessionKeys /\ StaleKeyInitHash \notin SessionKeys
ASSUME MaxEnvelopes \in Nat /\ StoreLocking \in BOOLEAN

MS == INSTANCE MemStore

VARIABLES
  store,    \* store[i]: the MemStore of identity i
  pc,       \* pc[t]: "idle", or "keyed" between key fetch and envelope output
  local,    \* local[t]: what invocation t read before its second step
  lock,     \* the thread holding the (Sender, Recipient) session, or NoEntry
  outcome,  \* outcome[t]: result of the last encrypt call of thread t
  net,      \* envelopes produced so far (never removed)
  sent,     \* number of envelopes produced (their ids are 1..sent)
  declog    \* history: every decrypt attempt as [key, res, prior]

vars == <<store, pc, local, lock, outcome, net, sent, declog>>

\* A message key is determined by the session's sender key, the
\* recipient key it was agreed with, and its index in the chain.
Key(e) == <<e.sph, e.rk, e.idx>>
KeyType == SessionKeys \X Hashes \X MS!KeyIndex

Envelope == [id : 1 .. MaxEnvelopes, sph : SessionKeys, rk : Hashes, idx : MS!KeyIndex]
EncResults == {"none", "ok", "ErrReflection", "ErrContentTooLarge", "ErrNoKeyInit",
               "ErrNoSession", "ErrOutOfBounds", "ErrMessageKeyUsed"}
DecResults == {"ok", "ErrNoKeyEntry", "ErrNoSession", "ErrOutOfBounds", "ErrMessageKeyUsed"}

TypeOK ==
  /\ \A i \in Identities : store[i] \in MS!StoreType
  /\ pc \in [Threads -> {"idle", "keyed"}]
  /\ \A t \in Threads : pc[t] = "keyed" =>
        local[t] \in [sph : SessionKeys, rk : Hashes, idx : MS!KeyIndex, st : MS!StateRec]
  /\ lock \in Threads \cup {NoEntry}
  /\ outcome \in [Threads -> EncResults]
  /\ net \subseteq Envelope
  /\ sent \in 0 .. MaxEnvelopes
  /\ declog \subseteq [key : KeyType, res : DecResults, prior : BOOLEAN]

(***************************************************************************)
(* Initial stores as the tests set them up: the recipient holds the        *)
(* private entry of its KeyInit key; the sender has fetched the            *)
(* recipient's current KeyInit, an outdated one, or none.                  *)
(***************************************************************************)
Init ==
  /\ \E pubEntry \in {KeyInitHash, StaleKeyInitHash, NoEntry} :
       store = [i \in Identities |->
                 IF i = Recipient THEN MS!AddPrivateKeyEntry(MS!New, KeyInitHash)
                 ELSE IF pubEntry = NoEntry THEN MS!New
                 ELSE MS!AddPublicKeyEntry(MS!New, Recipient, pubEntry)]
  /\ pc = [t \in Threads |-> "idle"]
  /\ local = [t \in Threads |-> NoEntry]
  /\ lock = NoEntry
  /\ outcome = [t \in Threads |-> "none"]
  /\ net = {}
  /\ sent = 0
  /\ declog = {}

InFlight == {t \in Threads : pc[t] = "keyed"}

\* Mutant: the store does not serialise calls on a session.
SessionLockIgnored(t) == TRUE

\* Spec section 5: calls on the same session serialise in the store.
SessionLockFree(t) == ~StoreLocking \/ lock = NoEntry

\* Session establishment on the sender (spec 4.2 NoSession -> Active):
\* a fresh session key, a fresh session, and state with counts 0.
EstablishedState(sph, rk) ==
  [senderMessageCount |-> 0, maxRecipientCount |-> 0, recipientTemp |-> rk,
   senderSessionPub |-> sph, keyInitSession |-> TRUE]

UnusedSessionKeys(ms) ==
  {h \in SessionKeys : ~MS!HasSession(ms, Sender, Recipient, h)}

(***************************************************************************)
(* Encrypt, first step: input checks, session lookup or establishment,     *)
(* and GetMessageKey of the next send key.  A failing call returns its     *)
(* error; establishment already stored is kept.                           *)
(***************************************************************************)
EncryptReflection(t) ==
  /\ pc[t] = "idle"
  /\ outcome' = [outcome EXCEPT ![t] = "ErrReflection"]
  /\ UNCHANGED <<store, pc, local, lock, net, sent, declog>>

EncryptTooLarge(t) ==
  /\ pc[t] = "idle"
  /\ outcome' = [outcome EXCEPT ![t] = "ErrContentTooLarge"]
  /\ UNCHANGED <<store, pc, local, lock, net, sent, declog>>

\* Fetch the send key of state st from store ms1 (ms1 includes a session
\* this call may just have established).
FetchSendKey(t, ms1, st) ==
  LET res == MS!GetMessageKey(ms1, Sender, Recipient, st.senderSessionPub,
                              TRUE, st.senderMessageCount)
  IN  /\ store' = [store EXCEPT ![Sender] = ms1]
      /\ IF res = "ok"
           THEN /\ pc' = [pc EXCEPT ![t] = "keyed"]
                /\ local' = [local EXCEPT ![t] =
                      [sph |-> st.senderSessionPub, rk |-> st.recipientTemp,
                       idx |-> st.senderMessageCount, st |-> st]]
                /\ lock' = IF StoreLocking THEN t ELSE lock
                /\ UNCHANGED outcome
           ELSE /\ outcome' = [outcome EXCEPT ![t] = res]
                /\ UNCHANGED <<pc, local, lock>>

EncryptBegin(t) ==
  LET ms == store[Sender]
      st == MS!GetSessionState(ms, Sender, Recipient)
      rk == MS!GetPublicKeyEntry(ms, Recipient)
  IN  /\ pc[t] = "idle"
      /\ sent + Cardinality(InFlight) < MaxEnvelopes
      /\ SessionLockFree(t)
      /\ \/ /\ st # NoEntry
            /\ FetchSendKey(t, ms, st)
         \/ /\ st = NoEntry
            /\ rk = NoEntry
            /\ outcome' = [outcome EXCEPT ![t] = "ErrNoKeyInit"]
            /\ UNCHANGED <<store, pc, local, lock>>
         \/ /\ st = NoEntry
            /\ rk # NoEntry
            /\ \E sph \in UnusedSessionKeys(ms) :
                 LET st0 == EstablishedState(sph, rk)
                 IN  FetchSendKey(t,
                       MS!SetSessionState(MS!StoreSession(ms, Sender, Recipient, sph),
                                          Sender, Recipient, st0),
                       st0)
      /\ UNCHANGED <<net, sent, declog>>

(***************************************************************************)
(* Encrypt, second step: output the envelope, delete the used send key and *)
(* persist the state read in the first step with its count advanced.       *)
(***************************************************************************)
EncryptCommit(t) ==
  LET l == local[t]
  IN  /\ pc[t] = "keyed"
      /\ net' = net \cup {[id |-> sent + 1, sph |-> l.sph, rk |-> l.rk, idx |-> l.idx]}
      /\ sent' = sent + 1
      /\ store' = [store EXCEPT ![Sender] =
            MS!SetSessionState(
              MS!DelMessageKey(@, Sender, Recipient, l.sph, TRUE, l.idx),
              Sender, Recipient, [l.st EXCEPT !.senderMessageCount = l.idx + 1])]
      /\ pc' = [pc EXCEPT ![t] = "idle"]
      /\ local' = [local EXCEPT ![t] = NoEntry]
      /\ lock' = NoEntry
      /\ outcome' = [outcome EXCEPT ![t] = "ok"]
      /\ UNCHANGED declog

ReceivedState(e) ==
  [senderMessageCount |-> 0, maxRecipientCount |-> 0, recipientTemp |-> e.sph,
   senderSessionPub |-> NoEntry, keyInitSession |-> TRUE]

(***************************************************************************)
(* Decrypt one envelope on the recipient (spec 4.4): a session unknown to  *)
(* the store is established from the KeyInit key the pre-header names      *)
(* (GetPrivateKeyEntry); then GetMessageKey of the recv key; on success    *)
(* the key is deleted and the state's maximal count updated.              *)
(***************************************************************************)
Decrypt(e) ==
  LET ms    == store[Recipient]
      estab == ~MS!HasSession(ms, Recipient, Sender, e.sph)
      ms1   == IF estab
                 THEN MS!SetSessionState(MS!StoreSession(ms, Recipient, Sender, e.sph),
                                         Recipient, Sender, ReceivedState(e))
                 ELSE ms
      res   == MS!GetMessageKey(ms1, Recipient, Sender, e.sph, FALSE, e.idx)
      st1   == MS!GetSessionState(ms1, Recipient, Sender)
      prior == \E r \in declog : r.key = Key(e) /\ r.res = "ok"
      Log(x) == declog' = declog \cup {[key |-> Key(e), res |-> x, prior |-> prior]}
  IN  /\ \/ /\ estab
            /\ MS!GetPrivateKeyEntry(ms, e.rk) # "ok"
            /\ Log("ErrNoKeyEntry")
            /\ UNCHANGED store
         \/ /\ ~estab \/ MS!GetPrivateKeyEntry(ms, e.rk) = "ok"
            /\ res # "ok"
            /\ Log(res)
            /\ store' = [store EXCEPT ![Recipient] = ms1]
         \/ /\ ~estab \/ MS!GetPrivateKeyEntry(ms, e.rk) = "ok"
            /\ res = "ok"
            /\ Log("ok")
            /\ store' = [store EXCEPT ![Recipient] =
                  MS!SetSessionState(
                    MS!DelMessageKey(ms1, Recipient, Sender, e.sph, FALSE, e.idx),
                    Recipient, Sender,
                    [st1 EXCEPT !.maxRecipientCount = IF @ >= e.idx THEN @ ELSE e.idx])]
      /\ UNCHANGED <<pc, local, lock, outcome, net, sent>>

Next ==
  \/ \E t \in Threads :
       \/ EncryptReflection(t)
       \/ EncryptTooLarge(t)
       \/ EncryptBegin(t)
       \/ EncryptCommit(t)
  \/ \E e \in net : Decrypt(e)

Spec == Init /\ [][Next]_vars

-----------------------------------------------------------------------------
(***************************************************************************)
(* Properties.                                                             *)
(***************************************************************************)

(* No two envelopes are encrypted under the same message key (spec 3:     *)
(* SenderMessageCount never repeats under one session key).  Concurrent    *)
(* encrypt calls each read the session state, fetch the key at its count  *)
(* and write the state back; only serialisation of these calls in the     *)
(* store keeps two of them from using one index.                          *)
MessageKeyUsedOnce ==
  \A e1, e2 \in net : e1.id # e2.id => Key(e1) # Key(e2)

(* Every decrypt attempt of an envelope whose key has not yet decrypted    *)
(* anything, and that names a KeyInit key the recipient holds, succeeds,   *)
(* whatever the order, loss and duplication of delivery; and every         *)
(* attempt on a key that has already decrypted an envelope fails with      *)
(* ErrMessageKeyUsed (spec 4.4: replays are reported as "key already       *)
(* used", not as another error), so no key decrypts twice.                *)
DecryptOutcomeContract ==
  \A r \in declog :
     /\ r.prior => r.res = "ErrMessageKeyUsed"
     /\ (~r.prior /\ r.key[2] = KeyInitHash) => r.res = "ok"

(* A session reports its chain exhausted (GetMessageKey out of bounds)     *)
(* only after all NumOfFutureKeys of its send keys went into envelopes.    *)
ChainUsableToTheEnd ==
  \A t \in Threads :
     outcome[t] = "ErrOutOfBounds" =>
        LET sph == MS!GetSessionState(store[Sender], Sender, Recipient).senderSessionPub
        IN  \A i \in MS!KeyIndex : \E e \in net : e.sph = sph /\ e.idx = i

(* The engine implements the abstract KeyChain: seen through the envelopes *)
(* on the network and the successful decrypts, every step of the sender's  *)
(* threads, of the store and of the recipient is a step of KeyChain or     *)
(* leaves it unchanged.  Concurrent encrypt calls never seal two envelopes *)
(* under one key nor skip a key of the chain (the count written back by    *)
(* EncryptCommit is the next index); replays over a duplicating transport  *)
(* never open a key twice.                                                 *)
KC == INSTANCE KeyChain WITH
        Chains <- SessionKeys,
        Indices <- MS!KeyIndex,
        sent <- [k \in SessionKeys \X MS!KeyIndex |->
                   Cardinality({e \in net : <<e.sph, e.idx>> = k})],
        opened <- [k \in SessionKeys \X MS!KeyIndex |->
                   Cardinality({r \in declog : r.res = "ok" /\ <<r.key[1], r.key[3]>> = k})]

KeyChainRefined == KC!Spec

=============================================================================
