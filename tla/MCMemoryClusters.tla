--------------------------- MODULE MCMemoryClusters ---------------------------
(* A small instance of MemoryClusters for TLC.                               *)
EXTENDS MemoryClusters

TwoFabrics == {1, 2}
HostsOfFabrics == [f \in TwoFabrics |-> f]
===============================================================================
