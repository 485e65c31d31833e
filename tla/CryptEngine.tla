----------------------------- MODULE CryptEngine -----------------------------
(***************************************************************************)
(* The mutecrypt command engine (src/cryptengine/cryptengine.go) and the   *)
(* passphrase reader it uses (util.Readline, src/util/util.go), driven by  *)
(* a controller over the command, status and passphrase descriptors.       *)
(*                                                                         *)
(* The engine is one process: Start runs the app once with no command, so *)
(* app.Before prepares the engine and app.Action enters loop, which reads  *)
(* command lines with a bufio.Scanner from command-fd and runs each one as *)
(* ce.app.Run([name] ++ fields of the line).  A line with no fields runs   *)
(* app.Action again, that is a nested loop with a scanner of its own on    *)
(* the same descriptor; frames holds one read buffer per active loop.      *)
(*                                                                         *)
(* Data abstraction: a command line is the class of the command it names   *)
(* (whether its Before opens the keyDB, whether it has mandatory options)  *)
(* and the shape of its arguments; a status line is "ERR" (any error text) *)
(* "READY" or "QUITTING"; the passphrase is correct, wrong, or absent.     *)
(* What the Action of a command does (keydb, key server, message I/O) is   *)
(* not in src/ and is a nondeterministic success or failure.              *)
(***************************************************************************)
EXTENDS Integers, Sequences, SequencesExt

CONSTANTS
  Mode,        \* "script": the controller writes lines without waiting;
               \* "sync": it waits for READY. or QUITTING after each line
  LineKinds,   \* line kinds the controller may write (a subset of Kinds)
  MaxLines     \* number of lines the controller writes at most

Kinds == {"empty", "blank", "unknown", "cmd", "quit"}
ASSUME Mode \in {"script", "sync"} /\ LineKinds \subseteq Kinds /\ MaxLines \in Nat

(***************************************************************************)
(* The command table of New: for each command, whether its Before hook     *)
(* calls prepare(c, true) (which opens the keyDB) and whether it checks a *)
(* mandatory option.  Every Before hook first rejects superfluous          *)
(* arguments, then missing mandatory options, then calls prepare.          *)
(***************************************************************************)
DBCommands ==
  {[name |-> "db create", keydb |-> FALSE, opts |-> FALSE],
   [name |-> "db rekey", keydb |-> FALSE, opts |-> FALSE],
   [name |-> "db vacuum", keydb |-> TRUE, opts |-> FALSE],
   [name |-> "db version", keydb |-> TRUE, opts |-> FALSE]}
CapsCommands ==
  {[name |-> n, keydb |-> TRUE, opts |-> TRUE] : n \in {"caps get", "caps show"}}
UIDCommands ==
  {[name |-> n, keydb |-> TRUE, opts |-> TRUE] :
      n \in {"uid generate", "uid register", "uid genupdate", "uid update", "uid delete"}}
    \cup {[name |-> "uid list", keydb |-> TRUE, opts |-> FALSE]}
KeyInitCommands ==
  {[name |-> n, keydb |-> TRUE, opts |-> TRUE] :
      n \in {"keyinit add", "keyinit fetch", "keyinit flush"}}
HashChainCommands ==
  {[name |-> n, keydb |-> TRUE, opts |-> TRUE] :
      n \in {"hashchain sync", "hashchain validate", "hashchain search",
             "hashchain lookup", "hashchain show", "hashchain delete"}}
MessageCommands ==
  {[name |-> "encrypt", keydb |-> TRUE, opts |-> TRUE],
   [name |-> "decrypt", keydb |-> TRUE, opts |-> FALSE],
   [name |-> "quit", keydb |-> FALSE, opts |-> FALSE]}

CommandTable ==
  DBCommands \cup CapsCommands \cup UIDCommands \cup KeyInitCommands
    \cup HashChainCommands \cup MessageCommands

ArgShapes(c) == {"none", "superfluous"} \cup (IF c.opts THEN {"missing"} ELSE {})

\* The lines a controller can write, one record per class of line.
CommandLines ==
  UNION {{[kind |-> IF c.name = "quit" THEN "quit" ELSE "cmd", keydb |-> c.keydb, bad |-> a] :
            a \in ArgShapes(c)} : c \in CommandTable}
OtherLines == {[kind |-> k, keydb |-> FALSE, bad |-> "none"] : k \in {"empty", "blank", "unknown"}}
InputLines == {l \in CommandLines \cup OtherLines : l.kind \in LineKinds}

\* c.GlobalBool("keyserver") inside the loop: ce.app.Run gets only the
\* fields of the line, so every global flag has its default value.
InLoopKeyServer == FALSE

VARIABLES
  lines,      \* every line the controller wrote to command-fd, in order
  closed,     \* the controller closed command-fd (EOF after the lines)
  rd,         \* number of lines the scanners have taken from the descriptor
  frames,     \* one read buffer (line numbers) per active loop, outermost first
  resume,     \* a nested loop returned: the enclosing Run's result is pending
  ceErr,      \* ce.err between commands: "nil" or errExit
  eng,        \* "init" (Start not yet run), "running", "exited"
  exitRes,    \* what Start returned: "none", "ok", "err"
  prepared,   \* ce.prepared
  keyserver,  \* the --keyserver flag Start was given
  passInput,  \* what passphrase-fd holds: "correct", "wrong", "eof"
  passFD,     \* passphrase-fd: "open" or "closed"
  passReads,  \* number of util.Readline calls on passphrase-fd
  keyDB,      \* ce.keyDB: "nil" or "open"
  status,     \* every line written to status-fd, in order
  executed    \* line numbers in the order ce.app.Run was called on them

vars == <<lines, closed, rd, frames, resume, ceErr, eng, exitRes, prepared, keyserver,
          passInput, passFD, passReads, keyDB, status, executed>>

TypeOK ==
  /\ lines \in Seq(CommandLines \cup OtherLines) /\ Len(lines) <= MaxLines
  /\ closed \in BOOLEAN
  /\ rd \in 0 .. Len(lines)
  /\ frames \in Seq(Seq(1 .. MaxLines))
  /\ resume \in BOOLEAN
  /\ ceErr \in {"nil", "errExit"}
  /\ eng \in {"init", "running", "exited"}
  /\ exitRes \in {"none", "ok", "err"}
  /\ prepared \in BOOLEAN /\ keyserver \in BOOLEAN
  /\ passInput \in {"correct", "wrong", "eof"}
  /\ passFD \in {"open", "closed"}
  /\ passReads \in Nat
  /\ keyDB \in {"nil", "open"}
  /\ status \in Seq({"ERR", "READY", "QUITTING"})
  /\ executed \in Seq(1 .. MaxLines)

Init ==
  /\ lines = <<>> /\ closed = FALSE /\ rd = 0
  /\ frames = <<>> /\ resume = FALSE /\ ceErr = "nil"
  /\ eng = "init" /\ exitRes = "none" /\ prepared = FALSE
  /\ keyserver \in BOOLEAN
  /\ passInput \in {"correct", "wrong", "eof"}
  /\ passFD = "open" /\ passReads = 0 /\ keyDB = "nil"
  /\ status = <<>> /\ executed = <<>>

-----------------------------------------------------------------------------
(* The controller.                                                         *)
IsAnswer(t) == t \in {"READY", "QUITTING"}
Asked == Len(SelectSeq(lines, LAMBDA l : l.kind # "empty"))
Answered == Len(SelectSeq(status, IsAnswer))

WriteLine ==
  /\ ~closed /\ eng # "exited" /\ Len(lines) < MaxLines
  /\ Mode = "sync" => Answered >= Asked
  /\ \E l \in InputLines : lines' = Append(lines, l)
  /\ UNCHANGED <<closed, rd, frames, resume, ceErr, eng, exitRes, prepared, keyserver,
                 passInput, passFD, passReads, keyDB, status, executed>>

CloseCommandFD ==
  /\ ~closed
  /\ closed' = TRUE
  /\ UNCHANGED <<lines, rd, frames, resume, ceErr, eng, exitRes, prepared, keyserver,
                 passInput, passFD, passReads, keyDB, status, executed>>

-----------------------------------------------------------------------------
(* The engine.                                                             *)

\* Start: ce.app.Run(args) with no command.  app.Before is prepare(c, false)
\* (directories, logging, descriptors, config unless --keyserver), which
\* may fail; then app.Action enters loop with no arguments.  A failing Run
\* makes Start return the error, and the deferred Close runs.
StartEngine ==
  /\ eng = "init"
  /\ \/ /\ eng' = "exited" /\ exitRes' = "err"
        /\ UNCHANGED <<prepared, frames>>
     \/ /\ prepared' = TRUE /\ eng' = "running" /\ frames' = <<<<>>>>
        /\ UNCHANGED exitRes
  /\ UNCHANGED <<lines, closed, rd, resume, ceErr, keyserver, passInput, passFD, passReads,
                 keyDB, status, executed>>

\* The loop on top of rest returns with ce.err = err: the outermost one
\* returns from Start (which returns ce.err; the deferred Close sets
\* ce.keyDB to nil), a nested one returns from the enclosing ce.app.Run.
Return(rest, err) ==
  IF rest = <<>>
    THEN /\ eng' = "exited" /\ exitRes' = IF err = "nil" THEN "ok" ELSE "err"
         /\ keyDB' = "nil" /\ frames' = <<>> /\ resume' = FALSE
    ELSE /\ frames' = rest /\ resume' = TRUE
         /\ UNCHANGED <<eng, exitRes, keyDB>>

\* util.Readline: closes the descriptor in any case; on a closed one the
\* scanner fails.  A descriptor at EOF yields an empty passphrase.
Readline == IF passFD = "closed" THEN "err" ELSE passInput

\* openKeyDB: Readline, then keydb.Open, which succeeds with the correct
\* passphrase only.
OpenKeyDB ==
  /\ passReads' = passReads + 1
  /\ passFD' = "closed"
  /\ keyDB' = IF Readline = "correct" THEN "open" ELSE "nil"

\* Status after a command's Action set ce.err: READY. on success, the error
\* and then READY. on failure.
ActionStatus(ok) == IF ok THEN <<"READY">> ELSE <<"ERR", "READY">>

\* A line without fields other than "" runs app.Action, i.e. a nested loop.
RunBlank(fr) ==
  /\ frames' = Append(fr, <<>>)
  /\ UNCHANGED <<status, ceErr, eng, exitRes, keyDB, resume, passFD, passReads>>

\* Mutant: an empty line ends the loop (break instead of continue).
RunEmptyBreak(fr) ==
  /\ Return(Front(fr), ceErr)
  /\ UNCHANGED <<status, ceErr, passFD, passReads>>

\* An empty line is skipped.
RunEmpty(fr) ==
  /\ frames' = fr
  /\ UNCHANGED <<status, ceErr, eng, exitRes, keyDB, resume, passFD, passReads>>

\* An unknown command runs app.Action with arguments: loop sets ce.err to
\* "unknown command" and returns; the error and READY. are written.
RunUnknown(fr) ==
  /\ frames' = fr
  /\ status' = status \o <<"ERR", "READY">>
  /\ UNCHANGED <<ceErr, eng, exitRes, keyDB, resume, passFD, passReads>>

\* A command: its Before hook (argument checks, prepare), then its Action.
\* A failing Before makes ce.app.Run fail: the error is written and the
\* loop continues without READY.
RunCommand(l, fr) ==
  /\ frames' = fr
  /\ \/ /\ l.bad # "none"
        /\ status' = Append(status, "ERR")
        /\ UNCHANGED <<keyDB, passFD, passReads>>
     \/ /\ l.bad = "none"
        /\ ~(l.keydb /\ keyDB = "nil" /\ ~InLoopKeyServer)
        /\ \E ok \in BOOLEAN : status' = status \o ActionStatus(ok)
        /\ UNCHANGED <<keyDB, passFD, passReads>>
     \/ /\ l.bad = "none"
        /\ l.keydb /\ keyDB = "nil" /\ ~InLoopKeyServer
        /\ OpenKeyDB
        /\ IF keyDB' = "open"
             THEN \E ok \in BOOLEAN : status' = status \o ActionStatus(ok)
             ELSE status' = Append(status, "ERR")
  /\ UNCHANGED <<ceErr, eng, exitRes, resume>>

\* quit: after its Before hook, the Action sets ce.err = errExit; the loop
\* writes QUITTING, resets ce.err and returns.
QuitReset == "nil"

\* Mutant: the return after QUITTING is missing; the loop falls through to
\* the READY. at the end of its body and reads on.
RunQuitNoReturn(l, fr) ==
  /\ UNCHANGED <<passFD, passReads>>
  /\ \/ /\ l.bad # "none"
        /\ frames' = fr /\ status' = Append(status, "ERR")
        /\ UNCHANGED <<ceErr, eng, exitRes, keyDB, resume>>
     \/ /\ l.bad = "none"
        /\ frames' = fr /\ status' = status \o <<"QUITTING", "READY">> /\ ceErr' = QuitReset
        /\ UNCHANGED <<eng, exitRes, keyDB, resume>>

RunQuit(l, fr) ==
  /\ UNCHANGED <<passFD, passReads>>
  /\ \/ /\ l.bad # "none"
        /\ frames' = fr /\ status' = Append(status, "ERR")
        /\ UNCHANGED <<ceErr, eng, exitRes, keyDB, resume>>
     \/ /\ l.bad = "none"
        /\ status' = Append(status, "QUITTING") /\ ceErr' = QuitReset
        /\ Return(Front(fr), QuitReset)

\* The line numbered i, taken by the loop on top; fr is frames after the
\* take.
Dispatch(i, fr) ==
  /\ executed' = Append(executed, i)
  /\ LET l == lines[i]
     IN  CASE l.kind = "empty"   -> RunEmpty(fr)
           [] l.kind = "blank"   -> RunBlank(fr)
           [] l.kind = "unknown" -> RunUnknown(fr)
           [] l.kind = "cmd"     -> RunCommand(l, fr)
           [] l.kind = "quit"    -> RunQuit(l, fr)

\* scanner.Scan of the loop on top: a line from its own buffer, or one Read
\* of the pipe, which returns the first k of the lines written so far.
ChunkSizes(avail) == 1 .. avail

Top == frames[Len(frames)]
WithTop(buf) == [frames EXCEPT ![Len(frames)] = buf]

ScanBuffered ==
  /\ eng = "running" /\ ~resume /\ Top # <<>>
  /\ Dispatch(Head(Top), WithTop(Tail(Top)))
  /\ UNCHANGED <<rd, lines, closed, prepared, keyserver, passInput>>

ScanRead ==
  /\ eng = "running" /\ ~resume /\ Top = <<>> /\ rd < Len(lines)
  /\ \E k \in ChunkSizes(Len(lines) - rd) :
       /\ rd' = rd + k
       /\ Dispatch(rd + 1, WithTop([j \in 1 .. k - 1 |-> rd + 1 + j]))
  /\ UNCHANGED <<lines, closed, prepared, keyserver, passInput>>

\* scanner.Scan returns false at EOF: the loop returns with ce.err as is.
ScanEOF ==
  /\ eng = "running" /\ ~resume /\ Top = <<>> /\ rd = Len(lines) /\ closed
  /\ Return(Front(frames), ceErr)
  /\ UNCHANGED <<lines, closed, rd, ceErr, prepared, keyserver, passInput, passFD,
                 passReads, status, executed>>

\* The ce.app.Run of a blank line returned after its nested loop did: the
\* enclosing loop checks ce.err as after any command.  errExit (left by a
\* nested quit that did not reset it) makes it write QUITTING and return
\* in turn; otherwise it writes READY. and reads on.
Resume ==
  /\ eng = "running" /\ resume
  /\ IF ceErr = "errExit"
       THEN /\ status' = Append(status, "QUITTING") /\ ceErr' = QuitReset
            /\ Return(Front(frames), QuitReset)
       ELSE /\ status' = Append(status, "READY") /\ resume' = FALSE
            /\ UNCHANGED <<frames, ceErr, eng, exitRes, keyDB>>
  /\ UNCHANGED <<lines, closed, rd, prepared, keyserver, passInput, passFD, passReads,
                 executed>>

EngineStep == StartEngine \/ ScanBuffered \/ ScanRead \/ ScanEOF \/ Resume

Next == WriteLine \/ CloseCommandFD \/ EngineStep

\* The engine runs whenever it can: weak fairness of its steps.  The
\* controller may stop writing at any time, so it has no fairness.
Spec == Init /\ [][Next]_vars /\ WF_vars(EngineStep)

-----------------------------------------------------------------------------
Quitted == \E i \in DOMAIN status : status[i] = "QUITTING"

\* No blank line among the first n lines the controller wrote.
NoBlankUpTo(n) == \A k \in 1 .. n : lines[k].kind # "blank"

\* The non-empty lines the engine has taken, in all its loops.
RunLines == Len(SelectSeq(executed, LAMBDA i : lines[i].kind # "empty"))

(* The engine never writes more answers (READY. or QUITTING) than it has   *)
(* taken non-empty lines, counting the blank lines whose nested loops it   *)
(* has resumed from: a controller that waits for one answer per line never *)
(* sees a surplus one and sends its next command early.                    *)
OneAnswerPerLine == Answered <= RunLines

(* Every line the controller writes is eventually read and run by the      *)
(* engine unless the engine has quit: neither an empty line, a failing     *)
(* command nor a nested loop makes the engine stop reading or lose a line. *)
EveryLineRead ==
  \A i \in 1 .. MaxLines :
    (prepared /\ i <= Len(lines)) ~> (i \in ToSet(executed) \/ Quitted)

(* Every line written before the first blank line is eventually read and   *)
(* run unless the engine has quit: an empty line, a failing command or a   *)
(* burst of lines buffered by the scanner loses none of them.             *)
EveryLineBeforeBlankRead ==
  \A i \in 1 .. MaxLines :
    (prepared /\ i <= Len(lines) /\ NoBlankUpTo(i)) ~> (i \in ToSet(executed) \/ Quitted)

(* A controller that waits for READY. (or QUITTING) after each non-empty  *)
(* line is eventually answered: the loop writes READY. once the engine is  *)
(* ready for the next command, whatever the outcome of the last one.  An   *)
(* engine that has exited answers too: the controller sees status-fd end.  *)
SyncAnswered ==
  \A n \in 1 .. MaxLines : (Asked >= n) ~> (Answered >= n \/ eng = "exited")

(* util.Readline is called at most once on passphrase-fd, as its comment   *)
(* demands ("do not call it multiple times on the same file pointer").     *)
PassphraseReadOnce == passReads <= 1

(* An engine started with --keyserver never opens the keyDB and so never   *)
(* reads a passphrase (prepare skips openKeyDB under --keyserver).         *)
KeyServerReadsNoPassphrase == keyserver => passReads = 0

=============================================================================
