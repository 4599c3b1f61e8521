------------------------ MODULE MCInitialValidation ------------------------
(* Small instances of InitialValidation for TLC.                             *)
EXTENDS InitialValidation

\* Among sound nodes one with a broken link, and perhaps one with broken GPUs.
BrokenLink ==
  {[n \in Node |-> IF n = Max(Node) THEN "network" ELSE IF n \in g THEN "gpu" ELSE "sound"] : g \in {{}, {Min(Node)}}}

\* Sound nodes, or one of them with broken GPUs.
BrokenGPU == {[n \in Node |-> IF n \in g THEN "gpu" ELSE "sound"] : g \in {{}, {Max(Node)}}}

FewJobs == Cardinality(jobs) <= 2
============================================================================
