---------------------------- MODULE MCNcclScout ----------------------------
(* Up to five hosts that answered: of one shape, two or three of them slow   *)
(* or dead; and of mixed or unknown shapes, one of them slow.                *)
EXTENDS NcclScout

MCThreshold == [s \in {"A100", "H100"} |-> IF s = "A100" THEN 3 ELSE 5]

(* n hosts, at most f of them faulty.                                        *)
Answering(n, f, states, shapes) ==
  {c \in [1..n -> [state : {"sound"} \cup states, shape : shapes]] :
     Cardinality({h \in 1..n : c[h].state # "sound"}) <= f}

MCClusters ==
  Answering(5, 2, {"slow", "dead"}, {"H100"})
  \cup UNION {Answering(n, 3, {"slow", "dead"}, {"H100"}) : n \in 0..4}
  \cup Answering(5, 1, {"slow"}, {"A100", "H100"})
  \cup UNION {Answering(n, 0, {}, {"A100", "other"}) : n \in 3..5}
=============================================================================
