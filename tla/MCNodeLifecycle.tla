-------------------------- MODULE MCNodeLifecycle --------------------------
(* Small instances of NodeLifecycle for TLC.                                 *)
EXTENDS NodeLifecycle, TLC

\* OCIDs and addresses are interchangeable: nothing orders them.
Symmetric == Permutations(Node) \cup Permutations(Addr)

\* Bound: two operations, or one operation and one failure.
Disturbances == ops + faults <= 2
============================================================================
