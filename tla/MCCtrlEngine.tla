----------------------------- MODULE MCCtrlEngine -----------------------------
(* Model-checking instance of CtrlEngine: up to three lines in the loop.  *)
EXTENDS CtrlEngine
=============================================================================
