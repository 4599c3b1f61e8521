---------------------------- MODULE MCNodeHealth ----------------------------
(* A small instance of NodeHealth for TLC.                                   *)
EXTENDS NodeHealth
=============================================================================
