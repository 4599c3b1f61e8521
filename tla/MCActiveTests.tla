---------------------------- MODULE MCActiveTests ----------------------------
(* Small instances of ActiveTests for TLC: every kind of node, alone and in  *)
(* pairs, with and without what the tests need.                              *)
EXTENDS ActiveTests

Rig(pair, kind) ==
  {[pair |-> pair, kind |-> kind, rack |-> r, launcher |-> l, plugin |-> p, rebooted |-> b] :
     r \in (IF pair /\ kind = "gb" THEN BOOLEAN ELSE {FALSE}), l \in BOOLEAN,
     p \in (IF kind = "amd" THEN {TRUE} ELSE BOOLEAN), b \in (IF pair THEN {FALSE} ELSE BOOLEAN)}

MCRigs == UNION {Rig(pair, kind) : pair \in BOOLEAN, kind \in Kinds}
=============================================================================
