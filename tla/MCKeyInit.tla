------------------------------ MODULE MCKeyInit ------------------------------
(* Model-checking instance of KeyInit: a clock of 3 ticks, KeyInits valid  *)
(* for at most 2 ticks ahead, and MSGCOUNT 0 or 1 (two KeyInits).  Bytes  *)
(* are one bit and blocks two bytes, so a three-byte session anchor JSON   *)
(* ends in a partial CTR block; of the two IVs, one carries into the first *)
(* byte of the counter and one wraps it to zero.                           *)
EXTENDS KeyInit

MCEntryAnchor == <<1, 0, 1>>
MCNoEntryAnchor == <<0, 1, 1>>
MCIVs == {<<0, 1>>, <<1, 1>>}
==============================================================================
