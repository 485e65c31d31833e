------------------------------ MODULE CtrlEngine ------------------------------
(***************************************************************************)
(* The mutectrl control engine (src/unnamed/part_002): one process started *)
(* with one command or without one (the interactive loop), the prepare     *)
(* every command runs first (openMsgDB with its cached passphrase,         *)
(* getConfig with the configuration's age, checkUpdates, startWallet), the *)
(* loop over the lines the user types, and Close.                          *)
(*                                                                         *)
(* The process is sequential, so one step is one whole command.  What the  *)
(* code keeps in the CtrlEngine struct and what it finds around it (the    *)
(* passphrase descriptor, the configuration stored in the msgDB, the      *)
(* wallet clients it created) is one record, the world; prepare and its    *)
(* helpers map a world to the set of worlds they may return, the field    *)
(* err telling whether they returned an error.  Time is the configuration's*)
(* age against def.FetchconfMinDuration ("stale") and                      *)
(* def.FetchconfMaxDuration ("outdated"), or "untimed" for a stored      *)
(* configuration without a fetch time; the network (upkeepFetchconf,    *)
(* GetVerifyKeys) may fail at every call.  The command bodies (uid, msg,   *)
(* contact, ...) are not in src/ and succeed or fail without effect here. *)
(***************************************************************************)
EXTENDS Naturals, Sequences

CONSTANTS
  MaxLines   \* bound on the lines typed into the interactive loop

Ages == {"none", "untimed", "fresh", "stale", "outdated"}
Releases == {"same", "newer", "forced"}   \* server release against the binary
PassInputs == {"correct", "wrong", "eof"}  \* what passphrase-fd holds

\* The commands by the prepare(openMsgDB, checkUpdates) their Before hook
\* runs: app, db create, db rekey, quit run prepare(false, false); upkeep
\* update prepare(true, false); upkeep fetchconf and every other command
\* prepare(true, true).
Commands == {"local", "db", "update", "fetchconf", "quit"}
CmdPrepare == [local |-> <<FALSE, FALSE>>, db |-> <<TRUE, TRUE>>,
               update |-> <<TRUE, FALSE>>, fetchconf |-> <<TRUE, TRUE>>,
               quit |-> <<FALSE, FALSE>>]

VARIABLES
  w,            \* the world: the CtrlEngine fields and what they refer to
  phase,        \* "start", "loop", "done" (Start returned), "exited", "closed"
  offline,      \* the --offline flag the process was started with
  interactive,  \* started without a command
  lines,        \* lines read by the loop
  depth,        \* loops nested in the interactive loop by blank lines
  lastRun       \* the configuration the last command past prepare(true) used

vars == <<w, phase, offline, interactive, lines, depth, lastRun>>

World == [passphrase : {"nil", "correct", "wrong", "zeroed"},
          msgDB : {"nil", "open"},
          client : 0 .. MaxLines + 1,        \* ce.client, 0 for nil
          passInput : PassInputs, passFD : {"open", "closed"},
          age : Ages, valid : BOOLEAN, release : Releases,
          clients : 0 .. MaxLines + 1,       \* wallet clients created
          online : SUBSET (1 .. MaxLines + 1),
          opens : Seq([pass : {"nil", "correct", "wrong", "zeroed"}, ok : BOOLEAN]),
          net : BOOLEAN,                     \* prepare went to the network
          err : BOOLEAN]

NoRun == [age |-> "none", valid |-> FALSE, offline |-> FALSE]

TypeOK ==
  /\ w \in World
  /\ phase \in {"start", "loop", "done", "exited", "closed"}
  /\ offline \in BOOLEAN /\ interactive \in BOOLEAN
  /\ lines \in 0 .. MaxLines
  /\ depth \in 0 .. MaxLines
  /\ lastRun \in [age : Ages, valid : BOOLEAN, offline : BOOLEAN]

\* Run the next step on the worlds in which the previous one returned nil.
Then(outs, F(_)) == UNION {IF o.err THEN {o} ELSE F(o) : o \in outs}

Ok(s) == {[s EXCEPT !.err = FALSE]}
Fail(s) == {[s EXCEPT !.err = TRUE]}

\* util.Readline on passphrase-fd: it closes the descriptor; a closed one
\* fails, an empty one returns a nil line and no error.
Readline(s) ==
  IF s.passFD = "closed" THEN Fail(s)
  ELSE {[s EXCEPT !.passFD = "closed", !.err = FALSE,
                  !.passphrase = IF s.passInput = "eof" THEN "nil" ELSE s.passInput]}

\* openMsgDB: read the passphrase only while ce.passphrase is nil, then
\* msgdb.Open, which only the right passphrase opens.
OpenMsgDB(s) ==
  LET read == IF s.passphrase = "nil" THEN Readline(s) ELSE Ok(s)
      Open(o) == LET ok == o.passphrase = "correct"
                 IN  {[o EXCEPT !.msgDB = IF ok THEN "open" ELSE "nil",
                                !.opens = Append(@, [pass |-> o.passphrase, ok |-> ok]),
                                !.err = ~ok]}
  IN  Then(read, Open)

\* upkeepFetchconf: a configuration fetched from the network and applied.
Fetchconf(s) ==
  {[s EXCEPT !.age = "fresh", !.valid = TRUE, !.err = FALSE], [s EXCEPT !.err = TRUE]}

\* getConfig: a stored configuration that def.InitMute rejects, or none, is
\* fetched; one older than FetchconfMinDuration is refetched, in --offline
\* mode only refused once older than FetchconfMaxDuration.  Without a
\* stored fetch time the configuration is used as it is.
GetConfigNoMaxCheck(s, off) ==
  LET fetch == {[f EXCEPT !.net = TRUE] : f \in Fetchconf(s)}
  IN  CASE s.age = "none" \/ ~s.valid       -> IF off THEN Fail(s) ELSE fetch
        [] s.age \in {"untimed", "fresh"} -> Ok(s)
        [] OTHER                            -> IF off THEN Ok(s) ELSE fetch

GetConfig(s, off) ==
  LET fetch == {[f EXCEPT !.net = TRUE] : f \in Fetchconf(s)}
  IN  CASE s.age = "none" \/ ~s.valid       -> IF off THEN Fail(s) ELSE fetch
        [] s.age \in {"untimed", "fresh"} -> Ok(s)
        [] s.age = "stale"                  -> IF off THEN Ok(s) ELSE fetch
        [] s.age = "outdated"               -> IF off THEN Fail(s) ELSE fetch

\* checkUpdates: a binary totally outdated against the server's release is
\* an error; a newer release is only announced.
CheckUpdates(s) == IF s.release = "forced" THEN Fail(s) ELSE Ok(s)

\* startWallet: a new client on every call; online it goes online and
\* fetches the verify keys, and a failure there leaves ce.client nil.
StartWallet(s, off) ==
  LET n == s.clients + 1
      c == [s EXCEPT !.clients = n, !.online = IF off THEN @ ELSE @ \cup {n},
                     !.net = @ \/ ~off]
  IN  IF off THEN {[c EXCEPT !.client = n, !.err = FALSE]}
      ELSE {[c EXCEPT !.client = n, !.err = FALSE], [c EXCEPT !.client = 0, !.err = TRUE]}

OpenIfNeeded(s) == IF s.msgDB = "nil" THEN OpenMsgDB(s) ELSE Ok(s)

\* prepare(c, openMsgDB, checkUpdates) after its one-time initialisation.
Prepare(s, openDB, chk, off) ==
  IF ~openDB THEN Ok(s)
  ELSE LET s1 == OpenIfNeeded(s)
           s2 == Then(s1, LAMBDA o : GetConfig(o, off))
           s3 == IF chk THEN Then(s2, CheckUpdates) ELSE s2
       IN  Then(s3, LAMBDA o : StartWallet(o, off))

Used(o, off) == [age |-> o.age, valid |-> o.valid, offline |-> off]

\* Mutant: the closed msgDB handle is kept instead of set to nil.
CloseWorldKeepHandle(s) ==
  [s EXCEPT !.msgDB = IF @ = "open" THEN "closed" ELSE @,
            !.passphrase = IF @ = "nil" THEN "nil" ELSE "zeroed"]

\* Close: the wallet client ce.client goes offline and the msgDB is
\* closed; bzero wipes the passphrase (a nil one stays nil).
CloseWorld(s) ==
  IF s.msgDB = "open"
    THEN [s EXCEPT !.online = IF s.client = 0 THEN @ ELSE @ \ {s.client},
                   !.msgDB = "nil",
                   !.passphrase = IF @ = "nil" THEN "nil" ELSE "zeroed"]
    ELSE [s EXCEPT !.passphrase = IF @ = "nil" THEN "nil" ELSE "zeroed"]

-----------------------------------------------------------------------------

Init ==
  /\ \E pass \in PassInputs, age \in Ages, valid \in BOOLEAN, rel \in Releases :
       w = [passphrase |-> "nil", msgDB |-> "nil", client |-> 0,
            passInput |-> pass, passFD |-> "open",
            age |-> age, valid |-> valid, release |-> rel,
            clients |-> 0, online |-> {}, opens |-> <<>>, net |-> FALSE, err |-> FALSE]
  /\ phase = "start"
  /\ offline \in BOOLEAN
  /\ interactive \in BOOLEAN
  /\ lines = 0
  /\ depth = 0
  /\ lastRun = NoRun

\* ce.app.Run of one command: app.Before (prepare(false, false)), the
\* command's Before hook with its prepare, then its Action, of which only
\* upkeep fetchconf (a fetch) and quit (ce.err = errExit) matter here.
\* lastRun records the configuration a command past prepare(true) runs on.
RunCommand(cmd, off) ==
  \E p \in Prepare(w, CmdPrepare[cmd][1], CmdPrepare[cmd][2], off) :
     /\ lastRun' = IF CmdPrepare[cmd][1] /\ ~p.err THEN Used(p, off) ELSE lastRun
     /\ w' \in IF cmd = "fetchconf" THEN Then({p}, Fetchconf) ELSE {p}

\* The first ce.app.Run's app.Before runs prepare's one-time initialisation
\* (util.CreateDirs of homedir and logdir, log.Init, descriptors.NewTable);
\* when it fails, app.Run returns the error before any command or
\* app.Action runs, and Start returns it.  Later runs skip it
\* (ce.prepared).
StartInitFails ==
  /\ phase = "start"
  /\ w' = [w EXCEPT !.err = TRUE]
  /\ phase' = "done"
  /\ UNCHANGED <<offline, interactive, lines, depth, lastRun>>

\* Start with a command: app.Run runs it once and Start returns.
StartCommand(cmd) ==
  /\ phase = "start" /\ ~interactive
  /\ RunCommand(cmd, offline)
  /\ phase' = "done"
  /\ UNCHANGED <<offline, interactive, lines, depth>>

\* Mutant: a failing prepare does not end the process; the loop starts.
AppActionNoFatal(off) ==
  \E p \in Prepare(w, TRUE, TRUE, off) :
     /\ w' = p
     /\ phase' = "loop"
     /\ lastRun' = IF p.err THEN lastRun ELSE Used(p, off)

\* app.Action, run when the arguments name no command: prepare(true, true),
\* util.Fatal on failure (the process exits, no Close), else ce.loop.
AppAction(off) ==
  \E p \in Prepare(w, TRUE, TRUE, off) :
     /\ w' = p
     /\ phase' = IF p.err THEN "exited" ELSE "loop"
     /\ lastRun' = IF p.err THEN lastRun ELSE Used(p, off)

\* Start without a command.
StartLoop ==
  /\ phase = "start" /\ interactive
  /\ AppAction(offline)
  /\ UNCHANGED <<offline, interactive, lines, depth>>

\* The loop's flags: args holds --homedir, --logdir and --loglevel and the
\* line's words; a global flag not passed again is reset to its default.
LoopOffline == FALSE

\* An empty line: the loop prompts again.
LoopSkip ==
  /\ phase = "loop" /\ lines < MaxLines
  /\ lines' = lines + 1
  /\ UNCHANGED <<w, phase, offline, interactive, depth, lastRun>>

\* A line whose first word names no command: ce.app.Run runs app.Action
\* with the words as arguments, so prepare(true, true) runs (util.Fatal on
\* failure) and ce.loop sets ce.err to "unknown command" and returns at
\* once; the loop writes the error and prompts again.
LoopUnknown ==
  /\ phase = "loop" /\ lines < MaxLines
  /\ lines' = lines + 1
  /\ AppAction(LoopOffline)
  /\ UNCHANGED <<offline, interactive, depth>>

\* The innermost loop returns: Start returns, or the outer loop takes the
\* nested one's return as a successful command and prompts again.
Return ==
  IF depth = 0 THEN phase' = "done" /\ depth' = 0
  ELSE phase' = "loop" /\ depth' = depth - 1

\* A command line: ce.app.Run(args); errExit ends the innermost loop.
LoopCommand(cmd) ==
  /\ phase = "loop" /\ lines < MaxLines
  /\ lines' = lines + 1
  /\ RunCommand(cmd, LoopOffline)
  /\ IF cmd = "quit" THEN Return ELSE UNCHANGED <<phase, depth>>
  /\ UNCHANGED <<offline, interactive>>

\* A line of white space only is not "": args name no command, so
\* ce.app.Run runs app.Action, a nested loop (or util.Fatal).
LoopBlank ==
  /\ phase = "loop" /\ lines < MaxLines
  /\ lines' = lines + 1
  /\ AppAction(LoopOffline)
  /\ depth' = IF phase' = "loop" THEN depth + 1 ELSE depth
  /\ UNCHANGED <<offline, interactive>>

\* line.Prompt fails (end of input, Ctrl-C): the innermost loop returns.
LoopEOF ==
  /\ phase = "loop"
  /\ Return
  /\ UNCHANGED <<w, offline, interactive, lines, lastRun>>

\* Time passes while the loop waits for a line: the stored configuration
\* ages past FetchconfMinDuration and then FetchconfMaxDuration.
Age ==
  /\ phase = "loop"
  /\ w.age \in {"fresh", "stale"}
  /\ w' = [w EXCEPT !.age = IF @ = "fresh" THEN "stale" ELSE "outdated"]
  /\ UNCHANGED <<phase, offline, interactive, lines, depth, lastRun>>

\* The caller closes the engine once Start has returned.
Close ==
  /\ phase = "done"
  /\ w' = CloseWorld(w)
  /\ phase' = "closed"
  /\ UNCHANGED <<offline, interactive, lines, depth, lastRun>>

Next ==
  \/ \E cmd \in Commands : StartCommand(cmd) \/ LoopCommand(cmd)
  \/ StartInitFails \/ StartLoop \/ LoopSkip \/ LoopUnknown \/ LoopBlank \/ LoopEOF \/ Age \/ Close

Spec == Init /\ [][Next]_vars

-----------------------------------------------------------------------------
(***************************************************************************)
(* Properties.                                                             *)
(***************************************************************************)

(* A command that needs the msgDB runs on a configuration def.InitMute     *)
(* accepted and, if its fetch time is stored, never older than            *)
(* FetchconfMaxDuration and, unless it runs with --offline, not older than *)
(* FetchconfMinDuration: getConfig's two thresholds, the refetch of a      *)
(* rejected configuration and the time that passes in the loop leave no   *)
(* way to run on a stale one.  A configuration stored without a fetch     *)
(* time is used whatever its age (getConfig has nothing to compare).      *)
ConfigUsable ==
  lastRun # NoRun =>
     /\ lastRun.valid
     /\ lastRun.age # "untimed" =>
          /\ lastRun.age # "outdated"
          /\ ~lastRun.offline => lastRun.age = "fresh"

(* msgdb.Open never runs again with a passphrase it rejected.  openMsgDB   *)
(* caches ce.passphrase before msgdb.Open succeeds and reads passphrase-fd *)
(* only while it is nil; what keeps a rejected passphrase from being       *)
(* reused is that a failed open ends the process (util.Fatal before the    *)
(* loop, Start's error with a command).                                   *)
NoReuseOfRejectedPassphrase ==
  \A i, j \in DOMAIN w.opens :
     (i < j /\ ~w.opens[i].ok) => w.opens[j].pass # w.opens[i].pass

(* A process started with --offline never goes to the network on its own: *)
(* no getConfig fetch and no wallet client going online in prepare (an     *)
(* explicit upkeep fetchconf aside).                                       *)
OfflineNeverOnline == offline => ~w.net

=============================================================================
