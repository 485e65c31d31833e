---------------------------- MODULE MCCryptEngine ----------------------------
(* Model-checking instance of CryptEngine: the configurations choose the   *)
(* controller's mode, the kinds of lines it writes and how many.           *)
EXTENDS CryptEngine

\* Every kind of line.
AllKinds == {"empty", "blank", "unknown", "cmd", "quit"}
\* Lines that name a command or nothing: no blank line.
NoBlankKinds == {"empty", "unknown", "cmd", "quit"}
\* Commands only.
CommandKinds == {"cmd", "quit"}
==============================================================================
