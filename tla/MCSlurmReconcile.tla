--------------------------- MODULE MCSlurmReconcile --------------------------
(* Small instances of SlurmReconcile for TLC.                                *)
EXTENDS SlurmReconcile, TLC

Runs == Permutations(Run)

Config(n, p, permanently) == [name |-> n, partition |-> p, permanent |-> permanently]

QueueFiles == {{Config("gpu", "compute", TRUE)},
               {Config("gpu", "compute", TRUE), Config("burst", "compute", FALSE)}}
==============================================================================
