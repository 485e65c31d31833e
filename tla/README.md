# TLA+ models of Mute's message layer

This directory holds TLA+ models of the Mute sources in `src/`, TLC
configurations that check them, and `PROJECT.json`, which lists the
components, runs, mutants, the source lines each definition models, and the
hazards the properties are aimed at.

## 1. Inventory

The repository snapshot holds the key-store side of the message engine, the
KeyInit message type, and the command engines. The encrypt/decrypt engine
itself (the ratchet of spec.md 4.2-4.4) is **not** in `src/`. It is modelled
from spec.md, and each key-store call it makes is the MemStore code
translated from `src/`.

| Component | Source | State it keeps | Operations | Interacts with |
|---|---|---|---|---|
| Key store contract | `src/msg/msg.go` (package `session`) | `State`: counts, recipient/sender session keys, next keys, nym address, key-init flag | `Store` interface: session states, sessions (root key, chain key, 50 send + 50 recv keys), key entries, message keys | Implemented by MemStore and keydb; called by the engine |
| MemStore | `src/unnamed/part_003` | four maps: private key entries by hash, public key entries by identity, session states by `my@contact`, sessions by `my@contact@senderSessionPubHash`; the most recent `senderSessionPubHash` | `StoreSession` (overwrites), `HasSession`, `Get/SetSessionState`, `GetMessageKey` (no session / out of bounds / already used), `DelMessageKey` (blanks a key), `NumMessageKeys`, `GetRootKeyHash`, `Add*KeyEntry` | Called by the engine; no locking |
| Engine and ratchet (spec only) | — | none between calls; everything goes through the store | encrypt: reflection and size checks, session establishment from the peer's KeyInit, next send key, output, delete key, persist state. decrypt: identity match, session establishment, recv key, replay detection, persist | Store; transport (lossy, duplicating, reordering) |
| KeyInit | `src/uid/keyinit.go` | immutable message: MSGCOUNT, NOTBEFORE/NOTAFTER, FALLBACK, SIGKEYHASH, REPOURI, encrypted SESSIONANCHOR + hash, signature | `KeyInit` (time checks, build, sign), `SessionAnchor` (hash check, decrypt, anchor hash check), `Verify` (repo URI, anchor, key entry, times, expiry, signature), `Check` (version 1.0 → MSGCOUNT = 0) | Identity (SIGKEY), key server, key store |
| AES-256 helpers | `src/cipher/aes256/aes256.go` | none | CBC/CTR encrypt/decrypt, `CTRStream`; panics on bad lengths | KeyInit session anchors |
| mutecrypt engine | `src/cryptengine/cryptengine.go`, `src/util/util.go` | `prepared`, file table, open `keyDB`, pending `err` | `prepare` (dirs, log, descriptors, config, open keyDB once), `loop` (one command per line; status `READY.` / error / `QUITTING`), `openKeyDB` (reads the passphrase, closing its descriptor), `Close` | keydb, controller on the status/command descriptors |
| mutectrl engine | `src/unnamed/part_002` | `prepared`, `msgDB`, cached `passphrase`, wallet `client`, `config`, `err` | `prepare` (open msgDB, `getConfig` with 24h/offline rules, `checkUpdates`, `startWallet`), interactive `loop`, `openMsgDB`, `Close` | msgDB, config server, wallet (service guard), mutecrypt, muteproto |
| muteproto fetch/deliver | `src/unnamed/part_001` | none between calls | `fetch`: list messages, then per message download, print MESSAGEID, read NEXT/QUIT; `deliver`: send, report RESEND | account server, controller |
| Tests, docs | `part_000`, `part_004`, `serviceguard/...`, `README.md`, `doc/` | — | — | tests of packages not in `src/` |

**What is hard.**
- *Concurrency* (spec.md 5). The engine is synchronous per call, but
  concurrent calls on one session share the store. MemStore has no lock, and
  a key is fetched (`GetMessageKey`) and consumed (`DelMessageKey`) by two
  separate calls, with the session state read before and written after.
- *Unreliable transport*. Envelopes can be lost, duplicated, replayed and
  reordered. A replay must be reported as "key already used". A fresh
  envelope must decrypt whatever the order.
- *Boundaries*. The chain of `NumOfFutureKeys` keys runs out. KeyInit
  validity windows are compared with `<` and `>=` against the clock.
- *Protocol sequences of the engines*. These are the status dialogue of the
  command loops, a passphrase read once from a descriptor that is closed
  afterwards, a cached passphrase, and a wallet client per command.

**Properties that make each part correct.**
- Store and engine:
  - a message key encrypts at most one envelope;
  - a key decrypts at most one envelope, and a replay gets ErrMessageKeyUsed;
  - a fresh envelope decrypts under loss, duplication and reordering;
  - a chain is exhausted only after all its keys were used;
  - rotation (planned) replaces the session key before exhaustion, and
    `senderSessionCount` accumulates the counts.
- KeyInit: a KeyInit built as documented passes `Check` and `Verify` until it
  expires.
- Command engines:
  - every command line gets its status;
  - a wrong passphrase can be corrected;
  - resources are released.
- Fetch: every listed message is either output or explicitly left for later.

## 2. Plan

Modules, in order of importance (✓ = built):

1. ✓ `MemStore`: MemStore's methods as operators over one store value.
2. ✓ `MuteSession` + `MCMuteSession`: the engine on two MemStores, with
   concurrent encrypt calls, decrypt, and an unreliable transport.
3. ✓ `KeyChain` (abstract): per chain, keys sealed in order without gaps,
   each into one envelope, and opened at most once. `MuteSession`
   implements it through `INSTANCE KeyChain WITH`; the abstract spec is
   checked as a PROPERTY.
4. Rotation in `MuteSession`:
   - `NextSenderSessionPub` is staged when the chain nears exhaustion;
   - the peer acknowledges by encrypting to the staged key;
   - counts accumulate in `SenderSessionCount`;
   - decrypt becomes two steps, so two concurrent decrypts can race.
   The added properties are: a sender can always eventually send (liveness
   under weak fairness of the engine's steps), and the session key changes
   exactly once per exhaustion.
5. ✓ `KeyInit`:
   - creation guards, `SessionAnchor` and `Verify` order, `Check`;
   - time as a bounded counter.
6. ✓ `CryptEngine`: the mutecrypt loop, `prepare`/`openKeyDB`/`Close`, and a
   controller process that waits for `READY.`. It checks deadlock freedom of
   the dialogue and recovery after a wrong passphrase.
7. ✓ `CtrlEngine`: `prepare`, `openMsgDB` passphrase caching, `getConfig`
   freshness with `--offline`, `checkUpdates` time comparisons, `startWallet`
   per command, the loop and `Close`.
8. `ProtoFetch`: the fetch dialogue (MESSAGEID / NEXT / QUIT / NONE) and
   deliver's RESEND. Not built; see section 5.
9. ✓ `Aes256`: the package's functions as operators, with a round-trip
   check, composed into KeyInit's session anchor.

## 3. Modules built so far

### MemStore.tla (`src/unnamed/part_003`, `src/msg/msg.go`)

A store is a record with MemStore's four maps and its `senderSessionPubHash`
field. Maps are total functions with `NoEntry` for a missing key. The
`"@"`-joined string index is the tuple of its parts. A message key is `TRUE`
while present and `FALSE` once `DelMessageKey` has blanked it; that is the
only distinction MemStore makes. Each method is an operator:
- `StoreSession` installs `FreshSession` unconditionally and overwrites an
  existing index;
- `GetMessageKey` returns the first error in the code's order: no session,
  then out of bounds (against `len(s.send)`), then already used;
- `DelMessageKey` blanks the key of one side without checking it.

Root key hash and chain key are not represented, because nothing changes
them after `StoreSession`.

### MuteSession.tla (engine from spec.md; store calls from `src/`)

Constants: `Sender`, `Recipient`, `KeyInitHash` (the recipient's current
KeyInit key), `StaleKeyInitHash` (a KeyInit key the recipient no longer
holds), `SessionKeys`, `Threads`, `MaxEnvelopes`, `StoreLocking`,
`NumOfFutureKeys`.

The sender's encrypt call is two steps, because the interleaving point of
spec.md 5 lies between them:
- `EncryptBegin`:
  - reads the session state;
  - if there is none, establishes a session (fresh key, `StoreSession`,
    `SetSessionState`), or returns `ErrNoKeyInit` when no KeyInit was
    fetched;
  - fetches the send key at `senderMessageCount`.
- `EncryptCommit`:
  - outputs the envelope `[sph, rk, idx]`;
  - calls `DelMessageKey`;
  - writes back the state it read, with the count advanced.

`EncryptReflection` and `EncryptTooLarge` are the input checks that return
before any store access.

`Decrypt(e)` is one step of the recipient:
- if `HasSession` is false, it establishes the session when it holds the
  private KeyInit entry the envelope names (else `ErrNoKeyEntry`);
- then `GetMessageKey` on the recv side;
- on success, `DelMessageKey` and `SetSessionState` with the maximal count.

Envelopes are never removed from `net`, so the transport loses, duplicates
and reorders. `declog` records every decrypt attempt with whether its key had
already decrypted something.

### KeyChain.tla (abstract specification)

What a session's chain of message keys promises, without stores, threads
or transport. `sent[k]` and `opened[k]` count the envelopes sealed and
opened under key `k = <<chain, index>>`. There are two actions:
- `Send(c, i)`: key `i` of chain `c` is unused and key `i-1` already went
  into an envelope;
- `Open(k)`: a sealed key is opened, once.

`MuteSession` defines `KC == INSTANCE KeyChain WITH ...` with this mapping:
- `Chains` is the sender session keys;
- `sent[k]` is the number of envelopes in `net` under `k`;
- `opened[k]` is the number of successful decrypts of `k` in `declog`.

A second envelope under one key, a skipped index, or a second successful
decrypt is then a step that `KeyChain` does not allow. The other steps
(errors, key fetches, commits of failed calls) leave the image unchanged.
`KeyChainRefined == KC!Spec` is checked as a PROPERTY.

### KeyInit.tla (`src/uid/keyinit.go`)

A KeyInit is the record of the fields its checks read. Hashes and Ed25519
are abstracted to facts about who made the message:
- `signer`: whose key signed it, which is also the key its SIGKEYHASH names;
- `sigValid`: whether SIGNATURE still matches the contents;
- `anchor`: SESSIONANCHOR as a byte string, encrypted by `SessionAnchorEnc`
  (`msg.sessionAnchor`: `aes256.CTREncrypt` under SIGKEY.HASH with an IV
  from `IVs`, or a failing read) and decrypted by `AnchorText` (`aes256.CTRDecrypt`), both
  through `AES == INSTANCE Aes256`;
- `anchorHash`: which session-anchor JSON SESSIONANCHORHASH is the hash of.
  There are two of them: `EntryAnchor` holds a valid ECDHE25519 KeyEntry,
  `NoEntryAnchor` does not.

The clock `now` is a bounded counter advanced by `Tick`.

`CreateKeyInit` reads rand twice after its checks. If `InitDHKey`'s read
fails, the call returns the error (`ErrRand`). If the IV read inside
`aes256.CTREncrypt` fails, the call panics (`panic`).
`CreateKeyInit` is `Message.KeyInit`:
- the error cases are in the code's order (`CreateError`);
- the caller picks a MSGCOUNT larger than every earlier one, as the
  documentation demands.

The attacker is the input domain of `Verify`, not a process. `Received`
holds three kinds of KeyInit:
- every issued one;
- every single-field change of one made without the signing key, so the
  signature breaks. SESSIONANCHOR is cut short (to any length) or has one
  byte changed, or it is replaced, with or without its hash, by an
  encrypted anchor without an entry. The anchor key comes from the public
  SIGKEY, so anyone can make one;
- the same KeyInit signed correctly by `OtherUser`.

`VerifyResult` is `Verify` with `SessionAnchorResult` (`SessionAnchor`)
inside it, with the first error returned:
- SIGKEYHASH;
- `CTRDecrypt`, which panics (`"panic"`) on fewer than `BlockSize` bytes;
- the JSON (`ErrJSON` when the decrypted bytes are no session anchor);
- the anchor hash.

The REPOURI check is `util.ContainsString` over the repository URIs.
`Check` is the version 1.0 check. No run uses it any more (see section 5).

### Aes256.tla and Aes256Calls.tla (`src/cipher/aes256/aes256.go`)

`Aes256` has no state. Every function of the package is an operator, and
each guard that panics is a `CASE` arm in the code's order. The result of
a panic is the model value `Panic`. A rand reader that fails is `RandError`
in place of the IV.

Underneath, `aes.NewCipher` is abstracted to a keyed permutation of blocks
(`BlockEncrypt`/`BlockDecrypt`). What `crypto/cipher` builds on it is
written as Go implements it:
- CBC chaining (`CBCChain`, `CBCUnchain`);
- the CTR counter, the IV as a big-endian number that carries and wraps
  (`IncrementFrom`, `Counter`, `KeyStream`, `XORKeyStream`).

The recursive operators (`RECURSIVE`) recurse over the blocks.

`Aes256Calls` is a caller. From idle it encrypts a plaintext in one mode
(CBC, CTR, or CTR read back through `CTRStream`) with:
- any key (32 bytes or not);
- any IV, or a failing rand reader;
- any plaintext up to 5 bytes.

It then decrypts the result and becomes idle again.

### CryptEngine.tla (`src/cryptengine/cryptengine.go`, `src/util/util.go`)

One mutecrypt process, started with `Start` (no command given, so it runs
the loop), and a controller that writes lines to command-fd.

**State.**
- `lines`, `closed`: what the controller wrote to command-fd, and whether
  it closed it.
- `rd`: how many of those lines some `bufio.Scanner` has taken from the
  descriptor.
- `frames`: one entry per running `loop` (the outermost first). Each is the
  sequence of lines its scanner has buffered but not yet returned. A blank
  line makes `ce.app.Run([name])` run `app.Action`, which is `loop` again,
  so loops nest.
- `resume`: a nested loop has returned and the enclosing one has yet to
  finish its command (the status after `ce.app.Run`).
- `ceErr`, `eng`, `exitRes`: `ce.err`, the process (init, running,
  exited) and the error `Start` returns.
- `prepared`, `keyserver`, `keyDB`: `ce.prepared`, the `--keyserver` flag
  the engine was started with, and `ce.keyDB`.
- `passInput`, `passFD`, `passReads`: what passphrase-fd holds (correct,
  wrong, nothing), whether `util.Readline` has closed it, and how often it
  was read.
- `status`: the lines written to status-fd (`ERR` stands for any error
  line). `executed`: the indices of the command lines run.

**Actions.**
- `WriteLine`, `CloseCommandFD`: the controller. In `Mode = "sync"` it
  waits for an answer (`READY.` or `QUITTING`) to every earlier non-empty
  line.
- `StartEngine`: `prepare` as the app's `Before` hook. It fails, or the
  first loop starts.
- `ScanRead`: one `Scan` that reads 1..all available lines from the
  descriptor, returns the first and buffers the rest. `ScanBuffered`
  returns a buffered line. `ScanEOF` is the end of input, which returns
  from the innermost loop. Each returned line is `Dispatch`ed to the
  handler of its kind, which writes its status in the code's order:
  - `RunEmpty` skips it;
  - `RunUnknown` reports an unknown command;
  - `RunBlank` nests a loop;
  - `RunCommand` runs the command's Before hook (`ArgShapes`: superfluous
    arguments, a missing mandatory option, `prepare` with or without
    `openKeyDB`) and then its Action;
  - `RunQuit` writes `QUITTING` and leaves the loop.
- `Resume`: the enclosing loop after a nested one returned.
- `Return`: `Start` returning (`Close`), or a nested loop returning.

**Abstraction.** A command line is its class, `[kind, keydb, bad]`: whether
its command opens the keyDB (from the command table of `New`) and how its
arguments are malformed. The Actions of the commands call packages not in
`src/`; their outcome is a nondeterministic success or error. Inside the
loop the global flags are at their defaults (`InLoopKeyServer`), because
the loop passes only the line's fields to `ce.app.Run`.

### CtrlEngine.tla (`src/unnamed/part_002`, `src/util/util.go`)

One mutectrl process. It is started either with one command (`Start` runs
`app.Run` once) or with none (the interactive `loop`). The process is
sequential, so each step is one whole command.

**State.**
- `w`, the world: one record with the `CtrlEngine` fields (`passphrase`,
  `msgDB`, `client`) and what they refer to:
  - the passphrase descriptor (its content, and whether `util.Readline`
    closed it);
  - the configuration stored in the msgDB: its age against
    `FetchconfMinDuration` ("stale") and `FetchconfMaxDuration`
    ("outdated"), or "untimed" when no fetch time is stored, whether
    `def.InitMute` accepts it, and the server's
    release against the binary;
  - the wallet clients created and the ones left online;
  - every `msgdb.Open` attempt with its passphrase;
  - whether prepare went to the network (`net`).
- `phase`, `lines`, `depth`: the process, the lines read, and the loops
  nested by blank lines.
- `offline`, `interactive`: the flags the process was started with.
- `lastRun`: the configuration of the last command whose `prepare(true)`
  succeeded.

**Operators.** The code's helpers are operators from a world to the set of
worlds they may return; `err` says whether they returned an error. `Then`
chains them: it runs the next helper only where the previous one returned
nil. The operators are:
- `Readline`, `OpenMsgDB` (read the passphrase only while it is nil, then
  `msgdb.Open`);
- `GetConfig`, with its branches in the code's order;
- `CheckUpdates`;
- `StartWallet` (a new client per call; a `GetVerifyKeys` failure leaves
  `ce.client` nil);
- `Prepare`, `CloseWorld`.

**Actions.**
- `StartInitFails`: prepare's one-time initialisation (`util.CreateDirs`,
  `log.Init`, `descriptors.NewTable`) fails in the first `app.Before`, and
  `Start` returns the error.
- `StartCommand(cmd)` and `StartLoop`. `StartLoop` is `AppAction`:
  `prepare(true, true)`, then `util.Fatal` or the loop.
- `LoopSkip`: an empty line.
- `LoopUnknown`: a line whose first word names no command. `ce.app.Run`
  runs `app.Action` with arguments: `prepare(true, true)` (a new wallet
  client, `util.Fatal` on failure), then `loop`, which sets `ce.err` to
  "unknown command" and returns at once.
- `LoopCommand(cmd)`: `quit` returns from the innermost loop.
- `LoopBlank`: a line of white space runs `AppAction` again, nested.
- `LoopEOF`.
- `Age`: time passing while the loop waits.
- `Close`: the caller's `Close` after `Start` returned.

Commands are classes by the `prepare` their Before hook runs, taken from
the command table of `New`: `local` (prepare(false, false)), `db`,
`update` (no `checkUpdates`), `fetchconf` (also fetches in its Action) and
`quit`. Inside the loop, every command runs with `LoopOffline = FALSE`,
because the loop's arguments do not pass `--offline` again. The network
may fail at every fetch and every `GetVerifyKeys`.

## 4. Runs

| Run | Config | Expect | What it shows |
|---|---|---|---|
| `session_serialised` | `MCMuteSession.cfg` | pass | See below. |
| `session_memstore_unlocked` | `MCMuteSessionNoLock.cfg` | violation of `MessageKeyUsedOnce` | See below. |
| `keyinit_verify` | `MCKeyInit.cfg` | pass | See below. |
| `keyinit_anchor_panic` | `MCKeyInitPanic.cfg` | violation of `VerifyNeverPanics` | See below. |
| `aes_roundtrip` | `MCAes256Calls.cfg` | pass | See below. |
| `crypt_script` | `MCCryptEngine.cfg` | pass | See below. |
| `crypt_blank_strands_line` | `MCCryptEngineStranded.cfg` | violation of `EveryLineRead` | See below. |
| `crypt_sync_ready` | `MCCryptEngineSync.cfg` | violation of `SyncAnswered` | See below. |
| `crypt_passphrase_reread` | `MCCryptEnginePassphrase.cfg` | violation of `PassphraseReadOnce` | See below. |
| `crypt_keyserver_loop` | `MCCryptEngineKeyServer.cfg` | violation of `KeyServerReadsNoPassphrase` | See below. |
| `ctrl_prepare` | `MCCtrlEngine.cfg` | pass | See below. |
| `ctrl_loop_offline` | `MCCtrlEngineOffline.cfg` | violation of `OfflineNeverOnline` | See below. |

`session_serialised`: the store serialises calls on a session. Under that
assumption:
- the engine implements `KeyChain` (`KeyChainRefined`). Two concurrent
  encrypt calls never seal two envelopes under one key or skip one, and
  no key opens twice;
- every first decryption of a key succeeds, and every later one reports
  `ErrMessageKeyUsed`, under loss, duplication and reordering
  (`DecryptOutcomeContract`);
- `ErrOutOfBounds` comes only after all keys of the session were sent
  (`ChainUsableToTheEnd`).

`session_memstore_unlocked`: MemStore as written, without locking. Two
threads read count 0, both fetch key 0, and two envelopes leave under one
key. This contradicts spec.md 5 (see the finding in `PROJECT.json`).

**Bounds.**
- `session_serialised` uses 3 threads, so that two can wait while one holds
  the session. It uses chains of 3 keys, so a key in the middle is used
  and deleted between two others. `MaxEnvelopes = 4`, so the fourth encrypt
  attempt runs past the chain.
- `session_memstore_unlocked` uses the same 3 threads with chains of 2
  keys and `MaxEnvelopes = 3`. That is enough for two unlocked threads to
  share a key.
- 2 fresh session keys, so establishment may pick either. Establishment
  happens inside one `EncryptBegin` step, so even without the lock only one
  session is ever established (see section 5).
- The sender's initial KeyInit entry is current, stale, or missing, so every
  error path of establishment happens.

The passing run reaches 17690 distinct states, and every action and disjunct
fires. Each property has a mutant of the code it depends on:
- `SessionLockFree` → `SessionLockIgnored` breaks `KeyChainRefined` (a
  second envelope under key 0);
- `DelMessageKey` → `DelMessageKeySendSideOnly` (the sender flag is ignored);
- `GetMessageKey` → `GetMessageKeyOffByOne` (bound `len-1`).

Each mutant makes TLC report the violation.

`keyinit_verify`: the bounds are
- clock 0..2 and `MaxNotAfter = 2`;
- MSGCOUNT 0..1;
- creation inputs up to one tick beyond the horizon;
- one-bit bytes, two-byte blocks, and three-byte anchor JSONs, so the last
  CTR block is partial;
- two IVs: one whose counter carries into the first byte and one that
  wraps to zero.

It reaches 51763 distinct states, and every creation and verification
error arm is reached. It shows:
- `Verify` accepts only issued, unexpired KeyInits: every tampering and the
  substitution is caught (`VerifyAcceptsOnlyAuthentic`);
- a KeyInit created by `Message.KeyInit` verifies up to and including its
  NOTAFTER (`IssuedVerifiesUntilExpiry`). This includes its anchor going
  through `CTREncrypt` and back through `CTRDecrypt`.

Mutants:
- `CreateErrorNoFuture` breaks `TypeOK`: a KeyInit valid beyond the horizon
  is issued;
- `VerifyResultNoSig` breaks `VerifyAcceptsOnlyAuthentic`;
- `VerifyResultExpiredAtBoundary` breaks `IssuedVerifiesUntilExpiry`.

`keyinit_anchor_panic`: a KeyInit whose SESSIONANCHOR was cut to fewer
than `BlockSize` bytes makes `Verify` panic in `aes256.CTRDecrypt`. The
anchor comes from whoever published the KeyInit, and nothing in `src/`
recovers the panic.

`aes_roundtrip` (3780 distinct states): whatever an encrypt function
returns without panicking decrypts to the plaintext (`RoundTrip`). The
mutant `CBCDecrypt` → `CBCDecryptNoReslice` breaks it; that mutant forgets
`ciphertext = ciphertext[aes.BlockSize:]`, so the IV is decrypted as well.
The harness has no type invariant: any wrong output type is also a wrong
round trip.

**CryptEngine runs.** Every run has up to 3 command lines
(`MaxLines = 3`). That is enough for a blank line, a command buffered
behind it and a third one, or for two keyDB commands after a wrong
passphrase. The 6 initial states are `--keyserver` (on or off) times the
passphrase input (correct, wrong, none).

`crypt_script` (150472 distinct states): the controller writes lines of
every kind, blank lines included. It writes them all at once or spread out,
and may close the descriptor. It shows:
- every line written before the first blank line is eventually run,
  unless the engine quit first (`EveryLineBeforeBlankRead`);
- the engine never writes more answers (`READY.` or `QUITTING`) than it
  has taken non-empty lines, nested loops included (`OneAnswerPerLine`).
  A controller that waits for one answer per line therefore never reads
  a surplus answer and sends its next line early. The count includes the
  `READY.` that `Resume` writes for a blank line once its nested loop
  returned.

Every action fires, including `RunBlank` and `Resume`. `Resume` is the
outer loop's `ce.err` check after the nested `ce.app.Run` returned: it
writes `QUITTING` and returns in turn if `ce.err` is still `errExit`, and
`READY.` otherwise. Since quit resets `ce.err`, only the second branch is
reached. The liveness property is stated up to the first blank line,
because a blank line breaks it (`crypt_blank_strands_line`).

Mutants:
- `RunEmpty` → `RunEmptyBreak` (an empty line ends the loop) breaks
  `EveryLineBeforeBlankRead`;
- `RunQuit` → `RunQuitNoReturn` (the `return` after `QUITTING` is
  missing, so the loop falls through to `READY.` and reads on) breaks
  `OneAnswerPerLine`.

The four violation runs are findings in `PROJECT.json`:
- `crypt_blank_strands_line`: a blank line and a line after it arrive in
  one read. The nested loop blocks on the descriptor while the second line
  waits in the outer scanner's buffer. TLC's shortest trace strands an
  empty line; a command is stranded the same way.
  With a blank line followed by `quit`, quit is not final either: the
  nested loop writes `QUITTING` and returns, and the outer loop writes
  `READY.` and goes on. The finding records both.
- `crypt_sync_ready`: a controller that waits for `READY.` sends a command
  with a superfluous argument. The engine writes the error and no `READY.`.
  Each side then waits for the other.
- `crypt_passphrase_reread`: a keyDB command with a wrong passphrase, then
  another one. `openKeyDB` calls `util.Readline` a second time, on the
  descriptor the first call closed.
- `crypt_keyserver_loop`: an engine started with `--keyserver` reads the
  passphrase for a command of its loop.

**CtrlEngine runs.** Both runs allow up to 3 lines in the loop
(`MaxLines = 3`). That is enough for a blank line, a command in the nested
loop and a quit, or for the configuration to age twice between commands.
There are 360 initial states: the flags, the passphrase input, and the
stored configuration (age, validity, server release).

`ctrl_prepare` (4821 distinct states) shows two things:
- every command that opens the msgDB runs on a configuration that
  `InitMute` accepted. If the configuration's fetch time is stored, it is
  not outdated, and it is fresh unless the command runs with `--offline`
  (`ConfigUsable`). A configuration stored without a fetch time
  (`age = "untimed"`) is used whatever its age: `getConfig` checks the age
  only when `timestr != ""`;
- `msgdb.Open` never gets a passphrase again that it rejected
  (`NoReuseOfRejectedPassphrase`). `openMsgDB` caches the passphrase before
  the open succeeds. The cache is harmless only because a failed open ends
  the process.

Mutants:
- `CloseWorld` → `CloseWorldKeepHandle` (a closed handle kept in
  `ce.msgDB`) breaks `TypeOK`;
- `GetConfig` → `GetConfigNoMaxCheck` (no `FetchconfMaxDuration` check
  under `--offline`) breaks `ConfigUsable`;
- `AppAction` → `AppActionNoFatal` (the loop starts after a failed
  prepare) breaks `NoReuseOfRejectedPassphrase`.

`ctrl_loop_offline` (a finding): an engine started with `--offline` and no
command goes to the network at its first typed command. The loop passes
`--homedir`, `--logdir` and `--loglevel` in again, but not `--offline`.

**Fairness.** None yet for the store, KeyInit and AES models; their
properties are safety properties. The
transport gives no delivery guarantee, so no fairness is assumed for
`Decrypt`. Liveness of the sender comes with rotation (plan item 4), under
weak fairness of the engine's own steps, which the synchronous engine
justifies.

`CryptEngine` assumes weak fairness of the engine's steps
(`WF_vars(EngineStep)`): a process that can run, because a line is
buffered or available or the descriptor is closed, is eventually scheduled
by the OS. No fairness is assumed for the controller, which may stop
writing at any time. The engine then blocks in `Scan` by design, so the
CryptEngine configurations set `CHECK_DEADLOCK FALSE`.

`CtrlEngine` has no fairness and no liveness property: the user decides
whether another line comes. Its configurations set `CHECK_DEADLOCK FALSE`
because the process really ends, by `Close` or by `util.Fatal`.

## 5. Not modelled, and why

- Cryptography: Curve25519, XSalsa20-Poly1305 and SHA-512 are abstracted
  to identities of keys, and AES's block function to a keyed permutation. MAC failure and signature verification
  are not modelled yet.
- Two encrypt calls that both find no session and both establish one.
  The engine is modelled from spec.md, which gives establishment as one
  step, so `EncryptBegin` establishes atomically and a second session is
  never established, with or without the lock.
- Padding and envelope sizes: constant arithmetic with no interleaving.
- The framing codec: not in `src/`, and stateless.
- Logging, the CLI flag tables, and the file descriptors as such are left
  out.
- In `CtrlEngine`:
  - the command bodies (uid, contact, msg, wallet, upkeep all, accounts,
    hashchain, app mode): they are not in `src/`;
  - `translateError`, which only formats;
  - what an online wallet client holds. `GoOnline` belongs to the
    serviceguard client, which is not in `src/`;
  - the clients left online after `Close` when they are not the last
    one. The model counts them and reaches both cases, but no run states
    a property about them:
    - a `GetVerifyKeys` failure returns before `ce.client` is set;
    - every command of the interactive loop starts a new client in place
      of `ce.client`.
    The code makes no promise about them that a run could check;
  - the `util.Fatal` of a blank line or an unknown command whose prepare
    fails. It exits without `Close`, and the model reaches it (`LoopBlank`,
    `LoopUnknown`), but no property is stated.
- `ProtoFetch` (`src/unnamed/part_001`): the fetch dialogue and
  deliver's RESEND are not modelled. The project's runs are spent on the
  engines and the store. Fetch's outcome depends on
  `client.ListMessages`/`FetchMessage` and on how the controller sets
  `lastMessageTime`, none of which is in `src/`. Its hazard stays open.
- A rand reader that fails on its second read makes `Message.KeyInit`
  panic (`src/uid/keyinit.go:256`, `src/cipher/aes256/aes256.go:90`)
  instead of returning an error, as it does when the first read fails.
  `keyinit_verify` reaches this state (`created = "panic"`), but no run
  checks a no-panic property for creation.
- MSGCOUNT: `Message.KeyInit`'s documentation says msgcount must increase
  for every KeyInit of a user. `Check` (version 1.0) rejects every MSGCOUNT
  but 0. The model keeps both, but no run checks the disagreement.
- The `msg.KeyStore` stubs of `src/util/util.go` (lines 68-140): they call
  keydb (not in `src/`) or return `ErrNotImplemented`, and `loop` never
  reaches them.
- In `CryptEngine`:
  - `Start` with a command on the command line (a single `app.Run`);
  - scanner errors, and lines longer than the scanner's buffer;
  - the status lines' wording;
  - the Actions of the commands, which are not in `src/`.
- Whether a caller of `Verify` uses a KeyInit before its NOTBEFORE: `Verify`
  never compares NOTBEFORE with the clock, and its callers are not in
  `src/`.
- Go maps written concurrently without a lock are a data race. The Go
  runtime may abort the process on it ("concurrent map writes"). The model
  keeps each MemStore method atomic, which is the outcome in which the
  process survives.
