---------------------------- MODULE MCMuteSession ----------------------------
(* Model-checking instance of MuteSession: three concurrent encrypt calls  *)
(* of the sender, chains of three keys, and one attempt beyond the chain.  *)
EXTENDS MuteSession

MCThreads == {"t1", "t2", "t3"}
MCSessionKeys == {"h1", "h2"}
=============================================================================
