------------------------ MODULE MCMaintenanceEvents ------------------------
(* Policies and small instances of MaintenanceEvents for TLC.                *)
EXTENDS MaintenanceEvents

\* The file as it is installed: both actions always.
AlwaysPolicy == [known \in BOOLEAN |-> [drain |-> "always", schedule |-> "always"]]

\* One fault code leaves the drain to the health check and is not moved.
MixedPolicy ==
  [known \in BOOLEAN |->
     IF known THEN [drain |-> "healthcheck", schedule |-> "never"]
     ELSE [drain |-> "always", schedule |-> "healthcheck"]]
============================================================================
