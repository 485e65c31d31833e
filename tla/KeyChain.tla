------------------------------- MODULE KeyChain -------------------------------
(***************************************************************************)
(* What a session's chain of message keys promises, with the store, the    *)
(* threads and the transport abstracted away (spec.md sections 3 and 4):  *)
(* the sender uses the keys of a chain one after the other, from index 0   *)
(* and without a gap, each for one envelope; the recipient opens a key     *)
(* only once it was used, and at most once.                               *)
(*                                                                         *)
(* sent[k] and opened[k] count the envelopes sealed and opened under key  *)
(* k = <<chain, index>>; the abstract steps only ever take them from 0 to 1.*)
(***************************************************************************)
EXTENDS Naturals

CONSTANTS
  Chains,   \* the chains (one per sender session key)
  Indices   \* the indices of a chain's keys, 0 .. NumOfFutureKeys-1

Keys == Chains \X Indices

VARIABLES sent, opened

vars == <<sent, opened>>

TypeOK == sent \in [Keys -> {0, 1}] /\ opened \in [Keys -> {0, 1}]

Init == sent = [k \in Keys |-> 0] /\ opened = [k \in Keys |-> 0]

\* The sender seals one envelope under key i of chain c: the key is unused
\* and the key before it in the chain already went into an envelope.
Send(c, i) ==
  /\ sent[<<c, i>>] = 0
  /\ i = 0 \/ sent[<<c, i - 1>>] = 1
  /\ sent' = [sent EXCEPT ![<<c, i>>] = 1]
  /\ UNCHANGED opened

\* The recipient opens an envelope sealed under k, once.
Open(k) ==
  /\ sent[k] = 1
  /\ opened[k] = 0
  /\ opened' = [opened EXCEPT ![k] = 1]
  /\ UNCHANGED sent

Next == (\E c \in Chains, i \in Indices : Send(c, i)) \/ (\E k \in Keys : Open(k))

Spec == Init /\ [][Next]_vars

=============================================================================
