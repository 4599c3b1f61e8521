--------------------------- MODULE Recommendations ---------------------------
(* How `mgmt recommendations` reads a row: what it asks for, what it chooses *)
(* and what it holds back (recom.py, get_recommendation_node_groups).  A row *)
(* is [passive, after, silent, late, unconfigured, event, slurm]: the last   *)
(* verdict of the passive check, whether it was given after the repair that  *)
(* ended, what mgmt noticed of the node, and its copies of OCI and Slurm.    *)
EXTENDS Integers, SequencesExt

(* From the gravest to the mildest: a node gets one action per run.          *)
Order == <<"terminate", "reboot", "reset_gpus", "enable_rdma", "reconfigure">>

Advice == [terminate |-> "Terminate", reboot |-> "Reboot", reset_gpus |-> "Reset_GPU",
           enable_rdma |-> "Enable_Instance_RDMA_Plugins"]

Modes == {"unreachable", "unconfigured", "healthcheck"}

(* No mode is all of them.                                                   *)
Candidates(row, modes) ==
  LET asked(mode) == modes = {} \/ mode \in modes
  IN  {a \in DOMAIN Advice : asked("healthcheck") /\ row.passive = Advice[a]}
      \cup (IF asked("unreachable") /\ row.silent THEN {"reboot"} ELSE {})
      \cup (IF asked("unconfigured") /\ (row.late \/ row.unconfigured) THEN {"reconfigure"} ELSE {})

Chosen(actions) ==
  Order[CHOOSE i \in DOMAIN Order : Order[i] \in actions /\ \A j \in 1..i-1 : Order[j] \notin actions]

NoEvent == [kind |-> "none", state |-> "none"]

(* A repair that runs or is about to; a termination in any case.             *)
Blocks(event, near) ==
  \/ event.kind = "TERMINATE"
  \/ event.kind = "REPAIR" /\ (event.state = "STARTED" \/ (event.state = "SCHEDULED" /\ near))

Repaired(event) == event.kind = "REPAIR" /\ event.state = "SUCCEEDED"

\* Mutant: the repair of the live event is forgotten.
HeldByStored(row, action, live, near) ==
  \/ Blocks(row.event, near) \/ Blocks(live, near)
  \/ /\ action \in DOMAIN Advice /\ row.passive = Advice[action]
     /\ Repaired(row.event) /\ ~row.after

(* Both copies of the event are looked at; a verdict on the host as it was   *)
(* before its repair is not acted upon.                                      *)
Held(row, action, live, near) ==
  \/ Blocks(row.event, near) \/ Blocks(live, near)
  \/ /\ action \in DOMAIN Advice /\ row.passive = Advice[action]
     /\ Repaired(row.event) \/ Repaired(live)
     /\ ~row.after

(* Drained or down, and nothing left on it.                                  *)
Allowed(slurm) == slurm.drained /\ ~slurm.busy
=============================================================================
