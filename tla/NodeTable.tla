----------------------------- MODULE NodeTable -----------------------------
(* The `nodes` table of the management database and the three functions     *)
(* every writer goes through: db_create_node (an upsert), db_update_node     *)
(* and db_move_terminated_node (mgmt/lib/database.py).  A table is a         *)
(* function from instance OCIDs to rows; the columns are the ones that the   *)
(* control flow reads.  The table has two unique keys that matter here, the  *)
(* OCID and the IP address: a write that would give one address to two rows  *)
(* raises IntegrityError, is rolled back, and is reported to nobody.         *)

CONSTANTS Node,     \* instance OCIDs
          Addr,     \* private IP addresses; a hostname is a function of one
          NoRow     \* the value of a table where it has no row

(* `terminated` is in the enumeration of the column but no code writes it.   *)
Statuses == {"starting", "running", "unreachable", "terminating"}

(* `waiting_for_info` and `terminated` are in the enumeration but no code    *)
(* writes them.                                                              *)
ControllerStatuses == {"configuring", "reconfiguring", "configured", "terminating"}

(* "null" is SQL's NULL: the node has not reported yet.                      *)
ComputeStatuses == {"null", "starting", "configuring", "configured", "terminating"}

(* `contacted`: last_time_reachable is set, which the same update does for   *)
(* the role column; before it both are NULL.                                 *)
Row == [ip : Addr, status : Statuses, controller_status : ControllerStatuses,
        compute_status : ComputeStatuses, contacted : BOOLEAN]

ASSUME NoRowAssumption == NoRow \notin Row

Table == [Node -> Row \cup {NoRow}]

Has(t, n) == t[n] # NoRow

InState(t, n, cs) == Has(t, n) /\ t[n].controller_status = cs

(* The unique key on ip_address, broken if row n took address a.             *)
Conflict(t, n, a) == \E m \in Node \ {n} : Has(t, m) /\ t[m].ip = a

\* Mutant: two rows may have one address.
UpsertAnywhere(t, n, a) ==
  [t EXCEPT ![n] = [ip |-> a, status |-> "starting", controller_status |-> "configuring",
                    compute_status |-> IF Has(t, n) THEN t[n].compute_status ELSE "null",
                    contacted |-> Has(t, n) /\ t[n].contacted]]

(* db_create_node with the fields every caller passes.  Only the named       *)
(* columns of an existing row change.                                        *)
Upsert(t, n, a) ==
  IF Conflict(t, n, a) THEN t
  ELSE [t EXCEPT ![n] =
         [ip |-> a, status |-> "starting", controller_status |-> "configuring",
          compute_status |-> IF Has(t, n) THEN t[n].compute_status ELSE "null",
          contacted |-> Has(t, n) /\ t[n].contacted]]

(* db_update_node with one column; a row that is gone is only logged.        *)
SetStatus(t, n, s)     == IF Has(t, n) THEN [t EXCEPT ![n].status = s] ELSE t
SetController(t, n, s) == IF Has(t, n) THEN [t EXCEPT ![n].controller_status = s] ELSE t
SetCompute(t, n, s)    == IF Has(t, n) THEN [t EXCEPT ![n].compute_status = s] ELSE t

(* db_update_node with the document a node's web server returned: `who` is   *)
(* the OCID in the document, `c` its compute_status and `was` the status the *)
(* row had when the pass read it.  The document overwrites the OCID column   *)
(* too, so a row whose address now belongs to another instance becomes that  *)
(* instance's row, unless it has one (unique key on ocid).                   *)
StoreInfo(t, n, who, c, was) ==
  IF Has(t, n) /\ (who = n \/ ~Has(t, who))
  THEN [t EXCEPT
         ![n]   = NoRow,
         ![who] = [t[n] EXCEPT
            !.contacted = TRUE, !.compute_status = c,
            !.status = IF was \in {"starting", "unreachable"} THEN "running" ELSE @,
            !.controller_status = IF was = "starting" THEN "configuring" ELSE @]]
  ELSE t

(* The row leaves `nodes`: db_move_terminated_node, db_delete_node.          *)
Remove(t, n) == [t EXCEPT ![n] = NoRow]

=============================================================================
