--------------------------- MODULE SlurmReconcile ---------------------------
(* The way of a change of the configurations table to Slurm.  The commands   *)
(* `mgmt configurations create, update, delete' change the table and run the *)
(* playbook slurm_reconcile.yml; `mgmt services init' runs it again without  *)
(* a change.  The playbook reads the table, writes slurm.conf, reads nodes   *)
(* and table, writes topology.yaml, and has its handlers tell slurmctld.     *)
(* The playbook by which nodes join and leave rewrites topology.yaml alone.  *)
(* Runs of these take no lock.  A run may fail or be killed at every task;   *)
(* what its tasks notified is then forgotten.                                *)
(*                                                                           *)
(* A row is its name, partition and whether it is permanent; the files are   *)
(* what they say of the rows.  job_container.conf and gres.conf, which do    *)
(* not depend on the table, and the copies on the backup controller are      *)
(* left out.                                                                 *)
EXTENDS Integers, FiniteSets

CONSTANTS Run,        \* playbook runs that may be under way at once
          Name,       \* names of configurations
          Partition,  \* names of partitions
          Cluster,    \* names of clusters
          Home,       \* the cluster named when no node is in the table
          Import,     \* the files `configurations create from-file' is given
          Down,       \* slurmctld is not running
          Faults,     \* what may go wrong: "abort", "restart", "reconfigure"
          MaxOps,     \* bound on the changes of the tables
          MaxFaults   \* bound on the faults

Row == [name : Name, partition : Partition, permanent : BOOLEAN]
Tables == {t \in SUBSET Row : \A a, b \in t : a.name = b.name => a = b}
Node == [cluster : Cluster, config : Name]
Files == {"slurm", "topology"}

ASSUME ImportAssumption == Import \in SUBSET Tables
ASSUME HomeAssumption == Home \in Cluster
ASSUME BoundAssumption == MaxOps \in Nat /\ MaxFaults \in Nat

VARIABLES db, nodes,              \* the tables configurations and nodes
          conf, loaded,           \* the files; what slurmctld was last given of them
          pc, rows, seen,         \* of a run: its next task, what it read of the tables
          notified,               \* the runs whose "Restart slurm server" is notified
          since,                  \* history: the runs whose readings the table still is
          confirmed,              \* history: one of these reported success
          overtaken,              \* history: files last written from an older table
          alone, repaired,        \* history: runs nothing crossed; the last run was one
          lagging,                \* history: a run wrote and did not tell slurmctld
          ops, faults

vars == <<db, nodes, conf, loaded, pc, rows, seen, notified, since, confirmed,
          overtaken, alone, repaired, lagging, ops, faults>>
tables == <<db, nodes>>
slurm == <<conf, loaded>>
history == <<since, confirmed, overtaken>>
bounds == <<ops, faults>>

Idle == [r \in Run |-> "idle"]

(***************************************************************************)
(* The files.  Permanent configurations are node sets, the others the      *)
(* nodes `<convention>-[1-n]' Slurm starts on demand; a partition without  *)
(* the latter has its configurations as partitions `<name>-healthcheck'    *)
(* too.  The tree has the clusters of the nodes that are not on demand,    *)
(* and a leaf for each configuration that is.                              *)
(***************************************************************************)
Names(t) == {c.name : c \in t}
OnDemand(t) == Names({c \in t : ~c.permanent})
Permanent(t) == Names({c \in t : c.permanent})
Within(t, p) == {c \in t : c.partition = p}

SlurmConf(t) ==
  [nodesets |-> Permanent(t), cloud |-> OnDemand(t),
   partitions |-> [p \in {c.partition : c \in t} |-> Names(Within(t, p))],
   healthchecks |-> {n \in Names(t) : \E c \in t : c.name = n /\ OnDemand(Within(t, c.partition)) = {}}]

Roots(t, ns) == {m.cluster : m \in {m \in ns : m.config \notin OnDemand(t)}}
Topology(t, ns) == [roots |-> IF Roots(t, ns) = {} THEN {Home} ELSE Roots(t, ns),
                    leaves |-> OnDemand(t)]

Confs == [slurm : {SlurmConf(t) : t \in Tables},
          topology : {Topology(t, ns) : t \in Tables, ns \in SUBSET Node}]

(***************************************************************************)
(* The changes of the table.                                               *)
(***************************************************************************)
Duplicated(c, n) == db \cup {[c EXCEPT !.name = n]}
Updated(c, d) == (db \ {c}) \cup {d}

\* Mutant: rows whose name is taken are added as well.
ImportedAll(rs) == db \cup rs

Imported(rs) == db \cup {c \in rs : c.name \notin Names(db)}

(***************************************************************************)
(* Steps.                                                                  *)
(***************************************************************************)
Init ==
  /\ db \in Import
  /\ nodes = {}
  /\ conf = [slurm |-> SlurmConf(db), topology |-> Topology(db, {})]
  /\ loaded = conf
  /\ pc = Idle
  /\ rows = [r \in Run |-> {}] /\ seen = [r \in Run |-> {}]
  /\ notified = {} /\ since = {} /\ confirmed = FALSE /\ overtaken = {}
  /\ alone = {} /\ repaired = FALSE /\ lagging = FALSE
  /\ ops = 0 /\ faults = 0

\* A run begins at a task, other runs or none under way.
Begin(r, task) ==
  /\ pc[r] = "idle"
  /\ pc' = [pc EXCEPT ![r] = task]
  /\ alone' = IF pc = Idle THEN {r} ELSE {}
  /\ repaired' = FALSE

\* A run is over.
End(r) ==
  /\ pc' = [pc EXCEPT ![r] = "idle"]
  /\ rows' = [rows EXCEPT ![r] = {}]
  /\ seen' = [seen EXCEPT ![r] = {}]
  /\ notified' = notified \ {r}
  /\ since' = since \ {r}
  /\ alone' = alone \ {r}

\* A command commits its change and starts the playbook.
Command(r, t) ==
  /\ ops < MaxOps
  /\ Begin(r, "table")
  /\ db' = t
  /\ since' = IF t = db THEN since \cup {r} ELSE {r}
  /\ confirmed' = (confirmed /\ t = db)
  /\ overtaken' = IF t = db THEN overtaken ELSE {}
  /\ ops' = ops + 1
  /\ UNCHANGED <<nodes, slurm, rows, seen, notified, lagging, faults>>

Duplicate(r) == \E c \in db, n \in Name \ Names(db) : Command(r, Duplicated(c, n))
Update(r) == \E c \in db, d \in Row : d.name = c.name /\ Command(r, Updated(c, d))
Delete(r) == \E c \in db : Command(r, db \ {c})
ImportFile(r) == \E rs \in Import : Command(r, Imported(rs))

\* `mgmt services init' starts the playbook without a change; so does an update
\* of a configuration that is not there.
Replay(r) ==
  /\ Begin(r, "table")
  /\ since' = since \cup {r}
  /\ UNCHANGED <<tables, slurm, rows, seen, notified, confirmed, overtaken, lagging, bounds>>

\* The playbook by which nodes join and leave comes to topology.yaml.
Members(r) ==
  /\ Begin(r, "nodes")
  /\ UNCHANGED <<tables, slurm, rows, seen, notified, history, lagging, bounds>>

\* A node is entered into the table or archived.
JoinOrLeave ==
  /\ ops < MaxOps
  /\ ops' = ops + 1
  /\ \E m \in Node : nodes' = IF m \in nodes THEN nodes \ {m} ELSE nodes \cup {m}
  /\ alone' = {} /\ repaired' = FALSE
  /\ UNCHANGED <<db, slurm, pc, rows, seen, notified, history, lagging, faults>>

\* "Get All configurations in the DB".
ReadTable(r) ==
  /\ pc[r] = "table"
  /\ rows' = [rows EXCEPT ![r] = db]
  /\ pc' = [pc EXCEPT ![r] = "conf"]
  /\ UNCHANGED <<tables, slurm, seen, notified, history, alone, repaired, lagging, bounds>>

\* A file written from an older table than the present one is overtaken.
Wrote(r, f) == overtaken' = IF rows[r] = db THEN overtaken \ {f} ELSE overtaken \cup {f}

\* Mutant: a file that exists is not replaced.
WriteConfOnce(r) ==
  /\ pc[r] = "conf"
  /\ UNCHANGED <<conf, notified>>
  /\ Wrote(r, "slurm")
  /\ rows' = [rows EXCEPT ![r] = {}]
  /\ pc' = [pc EXCEPT ![r] = "nodes"]
  /\ UNCHANGED <<tables, loaded, seen, since, confirmed, alone, repaired, lagging, bounds>>

\* "Generate slurm.conf"; a file that changes notifies "Restart slurm server".
WriteConf(r) ==
  /\ pc[r] = "conf"
  /\ conf' = [conf EXCEPT !.slurm = SlurmConf(rows[r])]
  /\ notified' = IF conf' = conf THEN notified ELSE notified \cup {r}
  /\ Wrote(r, "slurm")
  /\ rows' = [rows EXCEPT ![r] = {}]
  /\ pc' = [pc EXCEPT ![r] = "nodes"]
  /\ UNCHANGED <<tables, loaded, seen, since, confirmed, alone, repaired, lagging, bounds>>

\* "Read compute node topology records from mgmt".
ReadNodes(r) ==
  /\ pc[r] = "nodes"
  /\ seen' = [seen EXCEPT ![r] = nodes]
  /\ pc' = [pc EXCEPT ![r] = "again"]
  /\ UNCHANGED <<tables, slurm, rows, notified, history, alone, repaired, lagging, bounds>>

\* "Read compute configurations from mgmt".
ReadTableAgain(r) ==
  /\ pc[r] = "again"
  /\ rows' = [rows EXCEPT ![r] = db]
  /\ pc' = [pc EXCEPT ![r] = "topology"]
  /\ UNCHANGED <<tables, slurm, seen, notified, history, alone, repaired, lagging, bounds>>

\* "Render topology.yaml"; "Reconfigure slurm" is always notified.
WriteTopology(r) ==
  /\ pc[r] = "topology"
  /\ conf' = [conf EXCEPT !.topology = Topology(rows[r], seen[r])]
  /\ Wrote(r, "topology")
  /\ rows' = [rows EXCEPT ![r] = {}]
  /\ seen' = [seen EXCEPT ![r] = {}]
  /\ pc' = [pc EXCEPT ![r] = IF r \in notified THEN "restart" ELSE "reconfigure"]
  /\ UNCHANGED <<tables, loaded, notified, since, confirmed, alone, repaired, lagging, bounds>>

\* The handler "Restart slurm server".
Restart(r) ==
  /\ pc[r] = "restart"
  /\ loaded' = conf
  /\ lagging' = FALSE
  /\ pc' = [pc EXCEPT ![r] = "reconfigure"]
  /\ UNCHANGED <<tables, conf, rows, seen, notified, history, alone, repaired, bounds>>

\* Mutant: slurmctld is asked only by a run that changed slurm.conf.
ReconfigureOnChange(r) ==
  /\ pc[r] = "reconfigure"
  /\ loaded # Down
  /\ loaded' = IF r \in notified THEN conf ELSE loaded
  /\ lagging' = (lagging /\ r \notin notified)
  /\ confirmed' = (confirmed \/ r \in since)
  /\ repaired' = (r \in alone \cap since)
  /\ End(r)
  /\ UNCHANGED <<tables, conf, overtaken, bounds>>

\* Mutant: a refusal is taken for success.
ReconfigureIgnored(r) ==
  /\ pc[r] = "reconfigure"
  /\ loaded' \in {loaded, conf}
  /\ lagging' = FALSE
  /\ confirmed' = (confirmed \/ r \in since)
  /\ repaired' = (r \in alone \cap since)
  /\ End(r)
  /\ UNCHANGED <<tables, conf, overtaken, bounds>>

\* The handler "Reconfigure slurm" ends a run that reports success.
Reconfigure(r) ==
  /\ pc[r] = "reconfigure"
  /\ loaded # Down
  /\ loaded' = conf
  /\ lagging' = FALSE
  /\ confirmed' = (confirmed \/ r \in since)
  /\ repaired' = (r \in alone \cap since)
  /\ End(r)
  /\ UNCHANGED <<tables, conf, overtaken, bounds>>

(***************************************************************************)
(* Failures.                                                               *)
(***************************************************************************)

\* A failed run leaves slurmctld behind if it may have written.
Failed(r) ==
  /\ End(r)
  /\ lagging' = (lagging \/ pc[r] \notin {"table", "conf"})
  /\ UNCHANGED <<tables, conf, confirmed, overtaken, repaired, ops>>

Fault(f) ==
  /\ f \in Faults
  /\ faults < MaxFaults
  /\ faults' = faults + 1

\* A task fails, the controller is not reached, or the run is killed.
Abort(r) ==
  /\ pc[r] # "idle"
  /\ Fault("abort")
  /\ Failed(r)
  /\ UNCHANGED loaded

\* slurmctld does not start with the new files, or slurmdbd does not.
RestartFails(r) ==
  /\ pc[r] = "restart"
  /\ Fault("restart")
  /\ loaded' \in {Down, conf}
  /\ Failed(r)

\* slurmctld refuses the files, or is not there to be asked.
ReconfigureFails(r) ==
  /\ pc[r] = "reconfigure"
  /\ IF loaded = Down THEN UNCHANGED faults ELSE Fault("reconfigure")
  /\ Failed(r)
  /\ UNCHANGED loaded

\* Somebody starts slurmctld again.
Started ==
  /\ loaded = Down
  /\ loaded' = conf
  /\ lagging' = FALSE
  /\ UNCHANGED <<tables, conf, pc, rows, seen, notified, history, alone, repaired, bounds>>

Next ==
  \/ \E r \in Run :
       \/ Duplicate(r) \/ Update(r) \/ Delete(r) \/ ImportFile(r)
       \/ Replay(r) \/ Members(r)
       \/ ReadTable(r) \/ WriteConf(r) \/ ReadNodes(r) \/ ReadTableAgain(r) \/ WriteTopology(r)
       \/ Restart(r) \/ Reconfigure(r)
       \/ Abort(r) \/ RestartFails(r) \/ ReconfigureFails(r)
  \/ JoinOrLeave
  \/ Started

Spec == Init /\ [][Next]_vars

(***************************************************************************)
(* Properties.                                                             *)
(***************************************************************************)

\* The tables are tables, the files are files of tables, and a run holds a
\* reading only between reading and writing.
TypeOK ==
  /\ db \in Tables
  /\ nodes \in SUBSET Node
  /\ conf \in Confs /\ loaded \in Confs \cup {Down}
  /\ pc \in [Run -> {"idle", "table", "conf", "nodes", "again", "topology", "restart", "reconfigure"}]
  /\ rows \in [Run -> Tables]
  /\ seen \in [Run -> SUBSET Node]
  /\ \A r \in Run : /\ rows[r] # {} => pc[r] \in {"conf", "topology"}
                    /\ seen[r] # {} => pc[r] \in {"again", "topology"}
  /\ notified \subseteq {r \in Run : pc[r] \in {"nodes", "again", "topology", "restart", "reconfigure"}}
  /\ since \subseteq Run /\ alone \subseteq Run /\ overtaken \subseteq Files
  /\ confirmed \in BOOLEAN /\ repaired \in BOOLEAN /\ lagging \in BOOLEAN
  /\ ops \in 0..MaxOps /\ faults \in 0..MaxFaults

\* Once a run begun since the latest change of the table has reported success,
\* slurm.conf and the leaves of topology.yaml are those of the table, whatever
\* runs began before, failed or crossed it; unless a run that read the table
\* before the change wrote the file after it (the commands take no lock).
ReportedIsWritten ==
  confirmed => /\ "slurm" \notin overtaken => conf.slurm = SlurmConf(db)
               /\ "topology" \notin overtaken => conf.topology.leaves = OnDemand(db)

\* A replay that nothing crosses and that reports success repairs whatever
\* failed, killed and crossing runs left: both files are those of the tables
\* and slurmctld works with them, though the notification of a killed run is
\* lost and the replay, finding slurm.conf as it should be, does not restart.
ReplayRepairs ==
  repaired => /\ conf = [slurm |-> SlurmConf(db), topology |-> Topology(db, nodes)]
              /\ loaded = conf

\* When no run is under way slurmctld works with the files as they are, in
\* whatever order concurrent runs wrote them and told it, unless one that may
\* have written has failed since slurmctld last read them.
RunningIsOnDisk == pc = Idle /\ ~lagging => loaded = conf
==============================================================================
