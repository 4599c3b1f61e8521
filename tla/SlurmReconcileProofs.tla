------------------------ MODULE SlurmReconcileProofs ------------------------
(* What SlurmReconcile promises for any tables, and any number of runs,      *)
(* commands and faults: what a run reports is written unless an older run    *)
(* overtook it, a run nothing crossed repairs, and slurmctld works with the  *)
(* files unless a run failed.                                                *)
EXTENDS SlurmReconcile, TLAPS

Past == {"nodes", "again", "topology", "restart", "reconfigure"}
Told == {"restart", "reconfigure"}

\* The four changes of the table are commands that leave a table.
LEMMA ChangesAreCommands ==
  ASSUME TypeOK, NEW r \in Run,
         Duplicate(r) \/ Update(r) \/ Delete(r) \/ ImportFile(r)
  PROVE  \E t \in Tables : Command(r, t)
PROOF
  <1>1. CASE Duplicate(r)
    <2>1. PICK c \in db, n \in Name \ Names(db) : Command(r, Duplicated(c, n))
      BY <1>1 DEF Duplicate
    <2>2. /\ db \subseteq Row /\ \A a, b \in db : a.name = b.name => a = b
          /\ [c EXCEPT !.name = n] \in Row /\ [c EXCEPT !.name = n].name = n
          /\ \A a \in db : a.name # n
      BY <2>1 DEF TypeOK, Tables, Row, Names
    <2>3. Duplicated(c, n) \in Tables
      BY <2>2 DEF Duplicated, Tables
    <2> QED BY <2>1, <2>3
  <1>2. CASE Update(r)
    <2>1. PICK c \in db, d \in Row : d.name = c.name /\ Command(r, Updated(c, d))
      BY <1>2 DEF Update
    <2>2. Updated(c, d) \in Tables
      BY <2>1 DEF Updated, TypeOK, Tables
    <2> QED BY <2>1, <2>2
  <1>3. CASE Delete(r)
    BY <1>3 DEF Delete, TypeOK, Tables
  <1>4. CASE ImportFile(r)
    <2>1. PICK rs \in Import : Command(r, Imported(rs))
      BY <1>4 DEF ImportFile
    <2>2. rs \in Tables /\ db \in Tables
      BY <2>1, ImportAssumption DEF TypeOK
    <2>3. Imported(rs) \in Tables
      BY <2>2 DEF Imported, Tables, Names
    <2> QED BY <2>1, <2>3
  <1> QED BY <1>1, <1>2, <1>3, <1>4

(***************************************************************************)
(* Types.                                                                  *)
(***************************************************************************)

\* The controller is set up with tables, files and no run.
LEMMA InitTyped == Init => TypeOK
PROOF
  <1> SUFFICES ASSUME Init PROVE TypeOK
    OBVIOUS
  <1>1. db \in Tables /\ nodes \in SUBSET Node
    BY ImportAssumption DEF Init
  <1>2. conf \in Confs
    BY <1>1 DEF Init, Confs
  <1>3. ops \in 0..MaxOps /\ faults \in 0..MaxFaults
    BY BoundAssumption DEF Init
  <1>4. {} \in Tables
    BY DEF Tables
  <1> QED BY <1>1, <1>2, <1>3, <1>4 DEF Init, TypeOK, Idle

\* What is true of a run that ended.
LEMMA EndTyped ==
  ASSUME TypeOK, NEW r \in Run, End(r)
  PROVE  /\ pc' \in [Run -> {"idle", "table", "conf", "nodes", "again", "topology", "restart", "reconfigure"}]
         /\ rows' \in [Run -> Tables] /\ seen' \in [Run -> SUBSET Node]
         /\ \A q \in Run : /\ rows'[q] # {} => pc'[q] \in {"conf", "topology"}
                           /\ seen'[q] # {} => pc'[q] \in {"again", "topology"}
         /\ notified' \subseteq {q \in Run : pc'[q] \in Past}
         /\ since' \subseteq Run /\ alone' \subseteq Run
PROOF
  <1>1. {} \in Tables
    BY DEF Tables
  <1> QED BY <1>1 DEF TypeOK, End, Past

\* Every step keeps the types.
LEMMA StepTyped == TypeOK /\ [Next]_vars => TypeOK'
PROOF
  <1> SUFFICES ASSUME TypeOK, [Next]_vars PROVE TypeOK'
    OBVIOUS
  <1> USE BoundAssumption
  <1>0. {} \in Tables
    BY DEF Tables
  <1>1. ASSUME NEW r \in Run, NEW t \in Tables, Command(r, t) PROVE TypeOK'
    <2>1. ops' \in 0..MaxOps
      BY <1>1 DEF Command, TypeOK
    <2>2. pc[r] = "idle" /\ pc' = [pc EXCEPT ![r] = "table"] /\ alone' \subseteq Run
      BY <1>1 DEF Command, Begin
    <2>3. /\ db' = t /\ since' \subseteq Run /\ confirmed' \in BOOLEAN /\ overtaken' \subseteq Files
          /\ repaired' = FALSE
      BY <1>1 DEF Command, Begin, TypeOK
    <2>4. UNCHANGED <<nodes, conf, loaded, rows, seen, notified, lagging, faults>>
      BY <1>1 DEF Command, slurm
    <2> QED BY <2>1, <2>2, <2>3, <2>4 DEF TypeOK
  <1>2. ASSUME NEW r \in Run, Replay(r) PROVE TypeOK'
    BY <1>2 DEF Replay, Begin, TypeOK, tables, slurm, bounds
  <1>3. ASSUME NEW r \in Run, Members(r) PROVE TypeOK'
    BY <1>3 DEF Members, Begin, TypeOK, tables, slurm, history, bounds
  <1>4. CASE JoinOrLeave
    <2>1. ops' \in 0..MaxOps
      BY <1>4 DEF JoinOrLeave, TypeOK
    <2>2. nodes' \in SUBSET Node
      BY <1>4 DEF JoinOrLeave, TypeOK
    <2>3. alone' = {} /\ repaired' = FALSE
          /\ UNCHANGED <<db, conf, loaded, pc, rows, seen, notified, since, confirmed, overtaken,
                        lagging, faults>>
      BY <1>4 DEF JoinOrLeave, slurm, history
    <2> QED BY <2>1, <2>2, <2>3 DEF TypeOK
  <1>5. ASSUME NEW r \in Run, ReadTable(r) PROVE TypeOK'
    BY <1>5 DEF ReadTable, TypeOK, tables, slurm, history, bounds
  <1>6. ASSUME NEW r \in Run, WriteConf(r) PROVE TypeOK'
    <2>1. conf' \in Confs
      BY <1>6 DEF WriteConf, TypeOK, Confs
    <2>2. overtaken' \subseteq Files
      BY <1>6 DEF WriteConf, Wrote, TypeOK, Files
    <2>3. notified' \subseteq {q \in Run : pc'[q] \in Past}
      BY <1>6 DEF WriteConf, TypeOK, Past
    <2> QED BY <1>0, <1>6, <2>1, <2>2, <2>3 DEF WriteConf, TypeOK, tables, bounds, Past
  <1>7. ASSUME NEW r \in Run, ReadNodes(r) PROVE TypeOK'
    BY <1>7 DEF ReadNodes, TypeOK, tables, slurm, history, bounds
  <1>8. ASSUME NEW r \in Run, ReadTableAgain(r) PROVE TypeOK'
    BY <1>8 DEF ReadTableAgain, TypeOK, tables, slurm, history, bounds
  <1>9. ASSUME NEW r \in Run, WriteTopology(r) PROVE TypeOK'
    <2>1. conf' \in Confs
      BY <1>9 DEF WriteTopology, TypeOK, Confs
    <2>2. overtaken' \subseteq Files
      BY <1>9 DEF WriteTopology, Wrote, TypeOK, Files
    <2> QED BY <1>0, <1>9, <2>1, <2>2 DEF WriteTopology, TypeOK, tables, bounds
  <1>10. ASSUME NEW r \in Run, Restart(r) PROVE TypeOK'
    BY <1>10 DEF Restart, TypeOK, tables, history, bounds
  <1>11. ASSUME NEW r \in Run, Reconfigure(r) PROVE TypeOK'
    <2>1. End(r)
      BY <1>11 DEF Reconfigure
    <2>2. /\ loaded' = conf /\ lagging' = FALSE /\ confirmed' \in BOOLEAN /\ repaired' \in BOOLEAN
          /\ UNCHANGED <<db, nodes, conf, overtaken, ops, faults>>
      BY <1>11 DEF Reconfigure, TypeOK, tables, bounds
    <2>3. TypeOK
      OBVIOUS
    <2> QED BY <2>1, <2>2, <2>3, EndTyped DEF TypeOK, Past
  <1>12. ASSUME NEW r \in Run, Failed(r), loaded' \in {loaded, Down, conf},
                faults' \in 0..MaxFaults
         PROVE  TypeOK'
    <2>1. End(r)
      BY <1>12 DEF Failed
    <2> QED BY <1>12, <2>1, EndTyped DEF Failed, TypeOK, tables, Past
  <1>13. ASSUME NEW r \in Run, Abort(r) \/ RestartFails(r) \/ ReconfigureFails(r) PROVE TypeOK'
    <2>1. faults' \in 0..MaxFaults
      BY <1>13 DEF Abort, RestartFails, ReconfigureFails, Fault, TypeOK
    <2> QED BY <1>12, <1>13, <2>1 DEF Abort, RestartFails, ReconfigureFails
  <1>14. CASE Started
    BY <1>14 DEF Started, TypeOK, tables, history, bounds
  <1>15. CASE UNCHANGED vars
    BY <1>15 DEF vars, TypeOK
  <1> QED
    BY <1>1, <1>2, <1>3, <1>4, <1>5, <1>6, <1>7, <1>8, <1>9, <1>10, <1>11, <1>13, <1>14, <1>15,
       ChangesAreCommands DEF Next

\* The tables are tables, the files are files of tables, and a run holds a
\* reading only between reading and writing.
THEOREM TypeCorrect == Spec => []TypeOK
PROOF
  <1> QED BY InitTyped, StepTyped, PTL DEF Spec

(***************************************************************************)
(* What is reported is written.                                            *)
(***************************************************************************)

\* A run whose readings the table still is holds the table, and what it wrote
\* is there unless it was overtaken.
WrittenBy(r) ==
  /\ pc[r] # "idle"
  /\ pc[r] \in {"conf", "topology"} => rows[r] = db
  /\ pc[r] \in Past /\ "slurm" \notin overtaken => conf.slurm = SlurmConf(db)
  /\ pc[r] \in Told /\ "topology" \notin overtaken => conf.topology.leaves = OnDemand(db)

Written == ReportedIsWritten /\ \A r \in since : WrittenBy(r)

LEMMA LeavesOfTopology == \A t, ns : Topology(t, ns).leaves = OnDemand(t)
PROOF
  <1> QED BY DEF Topology

\* A run that ends without a report.
LEMMA FailedWritten ==
  ASSUME TypeOK, Written, NEW r \in Run, Failed(r)
  PROVE  Written'
PROOF
  <1>1. /\ UNCHANGED <<db, conf, confirmed, overtaken>>
        /\ since' = since \ {r}
        /\ \A q \in since' : pc'[q] = pc[q] /\ rows'[q] = rows[q]
    BY DEF Failed, End, tables, TypeOK
  <1> QED BY <1>1 DEF Written, WrittenBy, ReportedIsWritten

LEMMA StepWritten == TypeOK /\ Written /\ [Next]_vars => Written'
PROOF
  <1> SUFFICES ASSUME TypeOK, Written, [Next]_vars PROVE Written'
    OBVIOUS
  <1>1. ASSUME NEW r \in Run, NEW t \in Tables, Command(r, t) PROVE Written'
    <2>1. /\ db' = t /\ confirmed' = (confirmed /\ t = db) /\ conf' = conf /\ rows' = rows
          /\ pc' = [pc EXCEPT ![r] = "table"] /\ pc[r] = "idle"
          /\ since' = IF t = db THEN since \cup {r} ELSE {r}
          /\ overtaken' = IF t = db THEN overtaken ELSE {}
      BY <1>1 DEF Command, Begin, slurm
    <2>2. WrittenBy(r)'
      BY <2>1 DEF WrittenBy, TypeOK, Past, Told
    <2>3. ASSUME NEW q \in since', q # r PROVE WrittenBy(q)'
      BY <2>1, <2>3 DEF WrittenBy, Written, TypeOK
    <2>4. ReportedIsWritten'
      BY <2>1 DEF Written, ReportedIsWritten
    <2> QED BY <2>2, <2>3, <2>4 DEF Written
  <1>2. ASSUME NEW r \in Run, Replay(r) PROVE Written'
    <2>1. /\ since' = since \cup {r} /\ pc' = [pc EXCEPT ![r] = "table"]
          /\ UNCHANGED <<db, conf, rows, confirmed, overtaken>>
      BY <1>2 DEF Replay, Begin, tables, slurm
    <2> QED BY <2>1 DEF Written, WrittenBy, ReportedIsWritten, TypeOK, Past, Told
  <1>3. ASSUME NEW r \in Run, Members(r) PROVE Written'
    <2>1. /\ pc[r] = "idle" /\ pc' = [pc EXCEPT ![r] = "nodes"]
          /\ UNCHANGED <<db, conf, rows, since, confirmed, overtaken>>
      BY <1>3 DEF Members, Begin, tables, slurm, history
    <2>2. r \notin since
      BY <2>1 DEF Written, WrittenBy
    <2> QED BY <2>1, <2>2 DEF Written, WrittenBy, ReportedIsWritten, TypeOK
  <1>4. CASE JoinOrLeave
    BY <1>4 DEF JoinOrLeave, Written, WrittenBy, ReportedIsWritten, slurm, history
  <1>5. ASSUME NEW r \in Run, ReadTable(r) PROVE Written'
    <2>1. /\ rows' = [rows EXCEPT ![r] = db] /\ pc' = [pc EXCEPT ![r] = "conf"]
          /\ UNCHANGED <<db, conf, since, confirmed, overtaken>>
      BY <1>5 DEF ReadTable, tables, slurm, history
    <2> QED BY <2>1 DEF Written, WrittenBy, ReportedIsWritten, TypeOK, Past, Told
  <1>6. ASSUME NEW r \in Run, WriteConf(r) PROVE Written'
    <2>1. /\ pc[r] = "conf" /\ pc' = [pc EXCEPT ![r] = "nodes"]
          /\ rows' = [rows EXCEPT ![r] = {}]
          /\ UNCHANGED <<db, since, confirmed>>
          /\ overtaken' = IF rows[r] = db THEN overtaken \ {"slurm"} ELSE overtaken \cup {"slurm"}
      BY <1>6 DEF WriteConf, Wrote, tables
    <2>2. conf'.slurm = SlurmConf(rows[r]) /\ conf'.topology = conf.topology
      BY <1>6 DEF WriteConf, TypeOK, Confs
    <2>3. ASSUME NEW q \in since PROVE WrittenBy(q)'
      <3>1. CASE q = r
        BY <2>1, <2>2, <2>3, <3>1 DEF Written, WrittenBy, TypeOK, Told
      <3>2. CASE q # r
        BY <2>1, <2>2, <2>3, <3>2 DEF Written, WrittenBy, TypeOK
      <3> QED BY <3>1, <3>2
    <2>4. ReportedIsWritten'
      BY <2>1, <2>2 DEF Written, ReportedIsWritten
    <2> QED BY <2>1, <2>3, <2>4 DEF Written
  <1>7. ASSUME NEW r \in Run, ReadNodes(r) PROVE Written'
    <2>1. /\ pc[r] = "nodes" /\ pc' = [pc EXCEPT ![r] = "again"]
          /\ UNCHANGED <<db, conf, rows, since, confirmed, overtaken>>
      BY <1>7 DEF ReadNodes, tables, slurm, history
    <2> QED BY <2>1 DEF Written, WrittenBy, ReportedIsWritten, TypeOK, Past, Told
  <1>8. ASSUME NEW r \in Run, ReadTableAgain(r) PROVE Written'
    <2>1. /\ pc[r] = "again" /\ pc' = [pc EXCEPT ![r] = "topology"]
          /\ rows' = [rows EXCEPT ![r] = db]
          /\ UNCHANGED <<db, conf, since, confirmed, overtaken>>
      BY <1>8 DEF ReadTableAgain, tables, slurm, history
    <2> QED BY <2>1 DEF Written, WrittenBy, ReportedIsWritten, TypeOK, Past, Told
  <1>9. ASSUME NEW r \in Run, WriteTopology(r) PROVE Written'
    <2>1. /\ pc[r] = "topology" /\ pc' = [pc EXCEPT ![r] = IF r \in notified THEN "restart" ELSE "reconfigure"]
          /\ rows' = [rows EXCEPT ![r] = {}]
          /\ UNCHANGED <<db, since, confirmed>>
          /\ overtaken' = IF rows[r] = db THEN overtaken \ {"topology"} ELSE overtaken \cup {"topology"}
      BY <1>9 DEF WriteTopology, Wrote, tables
    <2>2. conf'.slurm = conf.slurm /\ conf'.topology.leaves = OnDemand(rows[r])
      BY <1>9, LeavesOfTopology DEF WriteTopology, TypeOK, Confs
    <2>3. ASSUME NEW q \in since PROVE WrittenBy(q)'
      <3>1. CASE q = r
        BY <2>1, <2>2, <2>3, <3>1 DEF Written, WrittenBy, TypeOK, Past, Told
      <3>2. CASE q # r
        BY <2>1, <2>2, <2>3, <3>2 DEF Written, WrittenBy, TypeOK
      <3> QED BY <3>1, <3>2
    <2>4. ReportedIsWritten'
      BY <2>1, <2>2 DEF Written, ReportedIsWritten
    <2> QED BY <2>1, <2>3, <2>4 DEF Written
  <1>10. ASSUME NEW r \in Run, Restart(r) PROVE Written'
    <2>1. /\ pc[r] = "restart" /\ pc' = [pc EXCEPT ![r] = "reconfigure"]
          /\ UNCHANGED <<db, conf, rows, since, confirmed, overtaken>>
      BY <1>10 DEF Restart, tables, history
    <2> QED BY <2>1 DEF Written, WrittenBy, ReportedIsWritten, TypeOK, Past, Told
  <1>11. ASSUME NEW r \in Run, Reconfigure(r) PROVE Written'
    <2>1. /\ pc[r] = "reconfigure" /\ since' = since \ {r}
          /\ confirmed' = (confirmed \/ r \in since)
          /\ UNCHANGED <<db, conf, overtaken>>
          /\ \A q \in since' : pc'[q] = pc[q] /\ rows'[q] = rows[q]
      BY <1>11 DEF Reconfigure, End, tables, TypeOK
    <2>2. ReportedIsWritten'
      BY <2>1 DEF Written, WrittenBy, ReportedIsWritten, Past, Told
    <2>3. \A q \in since' : WrittenBy(q)'
      BY <2>1 DEF Written, WrittenBy
    <2> QED BY <2>2, <2>3 DEF Written
  <1>12. ASSUME NEW r \in Run, Abort(r) \/ RestartFails(r) \/ ReconfigureFails(r) PROVE Written'
    BY <1>12, FailedWritten DEF Abort, RestartFails, ReconfigureFails
  <1>13. CASE Started
    BY <1>13 DEF Started, Written, WrittenBy, ReportedIsWritten, tables, history
  <1>14. CASE UNCHANGED vars
    BY <1>14 DEF vars, Written, WrittenBy, ReportedIsWritten
  <1> QED
    BY <1>1, <1>2, <1>3, <1>4, <1>5, <1>6, <1>7, <1>8, <1>9, <1>10, <1>11, <1>12, <1>13, <1>14,
       ChangesAreCommands DEF Next

\* Once a run begun since the latest change of the table has reported success,
\* the files are the table's, unless an older run wrote them later.
THEOREM ReportsAreWritten == Spec => []ReportedIsWritten
PROOF
  <1>1. Init => Written
    BY DEF Init, Written, ReportedIsWritten
  <1>2. Written => ReportedIsWritten
    BY DEF Written
  <1> QED BY <1>1, <1>2, StepWritten, TypeCorrect, PTL DEF Spec

(***************************************************************************)
(* A run that nothing crosses repairs.                                     *)
(***************************************************************************)

\* A run that nothing crossed is the only one, holds what the tables say, and
\* what it wrote is there.
AloneWith(r) ==
  /\ pc[r] # "idle"
  /\ \A q \in Run : q # r => pc[q] = "idle"
  /\ r \in since =>
       /\ pc[r] \in {"conf", "topology"} => rows[r] = db
       /\ pc[r] \in {"again", "topology"} => seen[r] = nodes
       /\ pc[r] \in Past => conf.slurm = SlurmConf(db)
       /\ pc[r] \in Told => conf.topology = Topology(db, nodes)

Alone ==
  /\ \A r \in alone : AloneWith(r)
  /\ \A r \in since : pc[r] # "idle"
  /\ repaired => pc = Idle
  /\ ReplayRepairs

\* While a run is under way nothing is repaired, and a run is alone only if it
\* is that one.
LEMMA Busy ==
  ASSUME TypeOK, Alone, NEW r \in Run, pc[r] # "idle"
  PROVE  ~repaired /\ alone \subseteq {r}
PROOF
  <1> QED BY DEF Alone, AloneWith, Idle, TypeOK

\* A run that fails leaves nothing that is alone.
LEMMA FailedAlone ==
  ASSUME TypeOK, Alone, NEW r \in Run, Failed(r), pc[r] # "idle"
  PROVE  Alone'
PROOF
  <1>1. ~repaired /\ alone \subseteq {r}
    BY Busy
  <1>2. /\ alone' = alone \ {r} /\ repaired' = repaired /\ since' = since \ {r}
        /\ \A q \in since' : pc'[q] = pc[q]
    BY DEF Failed, End, TypeOK
  <1> QED BY <1>1, <1>2 DEF Alone, ReplayRepairs

\* A run that begins is alone if no other is under way.
LEMMA BeginAlone ==
  ASSUME TypeOK, Alone, NEW r \in Run, NEW task \in {"table", "nodes"}, Begin(r, task),
         since' \subseteq since \cup {r}, task = "nodes" => since' = since
  PROVE  Alone'
PROOF
  <1>1. pc[r] = "idle" /\ pc' = [pc EXCEPT ![r] = task] /\ repaired' = FALSE
        /\ alone' = IF pc = Idle THEN {r} ELSE {}
    BY DEF Begin
  <1>2. \A q \in since' : pc'[q] # "idle"
    BY <1>1 DEF Alone, TypeOK
  <1>3. task = "nodes" => r \notin since'
    BY <1>1 DEF Alone
  <1>4. pc = Idle => AloneWith(r)'
    BY <1>1, <1>3 DEF AloneWith, Idle, TypeOK, Past, Told
  <1> QED BY <1>1, <1>2, <1>4 DEF Alone, ReplayRepairs

\* What a task of a run under way has to show.
LEMMA TaskAlone ==
  ASSUME TypeOK, Alone, NEW r \in Run, pc[r] # "idle",
         NEW next, next # "idle", pc' = [pc EXCEPT ![r] = next],
         UNCHANGED <<alone, since, repaired>>,
         r \in alone /\ r \in since =>
           /\ next \in {"conf", "topology"} => rows'[r] = db'
           /\ next \in {"again", "topology"} => seen'[r] = nodes'
           /\ next \in Past => conf'.slurm = SlurmConf(db')
           /\ next \in Told => conf'.topology = Topology(db', nodes')
  PROVE  Alone'
PROOF
  <1>1. ~repaired /\ alone \subseteq {r}
    BY Busy
  <1>2. r \in alone => AloneWith(r)'
    <2>1. r \in alone => \A q \in Run : q # r => pc'[q] = "idle"
      BY DEF Alone, AloneWith, TypeOK
    <2>2. pc'[r] = next
      BY DEF TypeOK
    <2> QED BY <2>1, <2>2 DEF AloneWith
  <1>3. \A q \in since' : pc'[q] # "idle"
    BY DEF Alone, TypeOK
  <1> QED BY <1>1, <1>2, <1>3 DEF Alone, ReplayRepairs

LEMMA StepAlone == TypeOK /\ Alone /\ [Next]_vars => Alone'
PROOF
  <1> SUFFICES ASSUME TypeOK, Alone, [Next]_vars PROVE Alone'
    OBVIOUS
  <1>1. ASSUME NEW r \in Run, NEW t \in Tables, Command(r, t) PROVE Alone'
    <2>1. Begin(r, "table") /\ since' \subseteq since \cup {r}
      BY <1>1 DEF Command
    <2> QED BY <2>1, BeginAlone
  <1>2. ASSUME NEW r \in Run, Replay(r) PROVE Alone'
    BY <1>2, BeginAlone DEF Replay
  <1>3. ASSUME NEW r \in Run, Members(r) PROVE Alone'
    <2>1. Begin(r, "nodes") /\ since' = since
      BY <1>3 DEF Members, history
    <2> QED BY <2>1, BeginAlone
  <1>4. CASE JoinOrLeave
    BY <1>4 DEF JoinOrLeave, Alone, ReplayRepairs, history
  <1>5. ASSUME NEW r \in Run, ReadTable(r) PROVE Alone'
    <2>1. /\ pc[r] = "table" /\ pc' = [pc EXCEPT ![r] = "conf"]
          /\ UNCHANGED <<alone, since, repaired, db>> /\ rows'[r] = db
      BY <1>5 DEF ReadTable, tables, history, TypeOK
    <2> QED BY <2>1, TaskAlone DEF Past, Told
  <1>6. ASSUME NEW r \in Run, WriteConf(r) PROVE Alone'
    <2>1. /\ pc[r] = "conf" /\ pc' = [pc EXCEPT ![r] = "nodes"]
          /\ UNCHANGED <<alone, since, repaired, db>>
      BY <1>6 DEF WriteConf, tables
    <2>2. conf'.slurm = SlurmConf(rows[r])
      BY <1>6 DEF WriteConf, TypeOK, Confs
    <2>3. r \in alone /\ r \in since => rows[r] = db
      BY <2>1 DEF Alone, AloneWith
    <2> QED BY <2>1, <2>2, <2>3, TaskAlone DEF Past, Told
  <1>7. ASSUME NEW r \in Run, ReadNodes(r) PROVE Alone'
    <2>1. /\ pc[r] = "nodes" /\ pc' = [pc EXCEPT ![r] = "again"]
          /\ UNCHANGED <<alone, since, repaired, db, nodes, conf>> /\ seen'[r] = nodes
      BY <1>7 DEF ReadNodes, tables, slurm, history, TypeOK
    <2>2. r \in alone /\ r \in since => conf.slurm = SlurmConf(db)
      BY <2>1 DEF Alone, AloneWith, Past
    <2> QED BY <2>1, <2>2, TaskAlone DEF Past, Told
  <1>8. ASSUME NEW r \in Run, ReadTableAgain(r) PROVE Alone'
    <2>1. /\ pc[r] = "again" /\ pc' = [pc EXCEPT ![r] = "topology"]
          /\ UNCHANGED <<alone, since, repaired, db, nodes, conf, seen>> /\ rows'[r] = db
      BY <1>8 DEF ReadTableAgain, tables, slurm, history, TypeOK
    <2>2. r \in alone /\ r \in since => conf.slurm = SlurmConf(db) /\ seen[r] = nodes
      BY <2>1 DEF Alone, AloneWith, Past
    <2> QED BY <2>1, <2>2, TaskAlone DEF Past, Told
  <1>9. ASSUME NEW r \in Run, WriteTopology(r) PROVE Alone'
    <2> DEFINE next == IF r \in notified THEN "restart" ELSE "reconfigure"
    <2>1. /\ pc[r] = "topology" /\ pc' = [pc EXCEPT ![r] = next]
          /\ UNCHANGED <<alone, since, repaired, db, nodes>>
      BY <1>9 DEF WriteTopology, tables
    <2>2. conf'.slurm = conf.slurm /\ conf'.topology = Topology(rows[r], seen[r])
      BY <1>9 DEF WriteTopology, TypeOK, Confs
    <2>3. r \in alone /\ r \in since =>
            conf.slurm = SlurmConf(db) /\ rows[r] = db /\ seen[r] = nodes
      BY <2>1 DEF Alone, AloneWith, Past
    <2>4. next \in Told
      BY DEF Told
    <2> HIDE DEF next
    <2> QED BY <2>1, <2>2, <2>3, <2>4, TaskAlone DEF Past, Told
  <1>10. ASSUME NEW r \in Run, Restart(r) PROVE Alone'
    <2>1. /\ pc[r] = "restart" /\ pc' = [pc EXCEPT ![r] = "reconfigure"]
          /\ UNCHANGED <<alone, since, repaired, db, nodes, conf>>
      BY <1>10 DEF Restart, tables, history
    <2>2. r \in alone /\ r \in since =>
            conf.slurm = SlurmConf(db) /\ conf.topology = Topology(db, nodes)
      BY <2>1 DEF Alone, AloneWith, Past, Told
    <2> QED BY <2>1, <2>2, TaskAlone DEF Past, Told
  <1>11. ASSUME NEW r \in Run, Reconfigure(r) PROVE Alone'
    <2>1. /\ pc[r] = "reconfigure" /\ pc' = [pc EXCEPT ![r] = "idle"]
          /\ since' = since \ {r} /\ alone' = alone \ {r}
          /\ repaired' = (r \in alone \cap since) /\ loaded' = conf
          /\ UNCHANGED <<db, nodes, conf>>
      BY <1>11 DEF Reconfigure, End, tables
    <2>2. alone' = {}
      BY <2>1, Busy
    <2>3. \A q \in since' : pc'[q] # "idle"
      BY <2>1 DEF Alone, TypeOK
    <2>4. ASSUME r \in alone \cap since
          PROVE  /\ pc' = Idle
                 /\ conf = [slurm |-> SlurmConf(db), topology |-> Topology(db, nodes)]
      <3>1. AloneWith(r) /\ r \in since
        BY <2>4 DEF Alone
      <3>2. pc' = Idle
        BY <2>1, <3>1 DEF AloneWith, Idle, TypeOK
      <3>3. conf.slurm = SlurmConf(db) /\ conf.topology = Topology(db, nodes)
        BY <2>1, <3>1 DEF AloneWith, Past, Told
      <3>4. conf = [slurm |-> conf.slurm, topology |-> conf.topology]
        BY DEF TypeOK, Confs
      <3> QED BY <3>2, <3>3, <3>4
    <2> QED BY <2>1, <2>2, <2>3, <2>4 DEF Alone, ReplayRepairs
  <1>12. ASSUME NEW r \in Run, Abort(r) \/ RestartFails(r) \/ ReconfigureFails(r) PROVE Alone'
    <2>1. Failed(r) /\ pc[r] # "idle"
      BY <1>12 DEF Abort, RestartFails, ReconfigureFails
    <2> QED BY <2>1, FailedAlone
  <1>13. CASE Started
    BY <1>13 DEF Started, Alone, AloneWith, ReplayRepairs, tables, history
  <1>14. CASE UNCHANGED vars
    BY <1>14 DEF vars, Alone, AloneWith, ReplayRepairs
  <1> QED
    BY <1>1, <1>2, <1>3, <1>4, <1>5, <1>6, <1>7, <1>8, <1>9, <1>10, <1>11, <1>12, <1>13, <1>14,
       ChangesAreCommands DEF Next

\* A run that nothing crosses and that reports success leaves the files and
\* slurmctld as the tables say, whatever went wrong before it.
THEOREM RunsAloneRepair == Spec => []ReplayRepairs
PROOF
  <1>1. Init => Alone
    BY DEF Init, Alone, ReplayRepairs
  <1>2. Alone => ReplayRepairs
    BY DEF Alone
  <1> QED BY <1>1, <1>2, StepAlone, TypeCorrect, PTL DEF Spec

(***************************************************************************)
(* slurmctld works with the files.                                         *)
(***************************************************************************)

\* A file slurmctld has not read was written by a run that has still to tell
\* it, or that failed.
Pending == loaded = conf \/ lagging \/ \E r \in Run : pc[r] \in Past

LEMMA StepPending == TypeOK /\ Pending /\ [Next]_vars => Pending'
PROOF
  <1> SUFFICES ASSUME TypeOK, Pending, [Next]_vars PROVE Pending'
    OBVIOUS
  \* A run that begins or goes on writes nothing, or is past writing.
  <1>1. ASSUME NEW r \in Run, NEW next, pc' = [pc EXCEPT ![r] = next],
               loaded' = loaded, lagging' = lagging,
               pc[r] \in Past => next \in Past, conf' = conf \/ next \in Past
        PROVE  Pending'
    BY <1>1 DEF Pending, TypeOK
  <1>2. ASSUME NEW r \in Run, NEW t \in Tables, Command(r, t) PROVE Pending'
    <2>1. /\ pc' = [pc EXCEPT ![r] = "table"] /\ pc[r] = "idle"
          /\ UNCHANGED <<conf, loaded, lagging>>
      BY <1>2 DEF Command, Begin, slurm
    <2> QED BY <1>1, <2>1 DEF Past
  <1>3. ASSUME NEW r \in Run, Replay(r) \/ Members(r) PROVE Pending'
    <2>1. /\ pc' = [pc EXCEPT ![r] = "table"] \/ pc' = [pc EXCEPT ![r] = "nodes"]
          /\ pc[r] = "idle" /\ UNCHANGED <<conf, loaded, lagging>>
      BY <1>3 DEF Replay, Members, Begin, slurm
    <2> QED BY <1>1, <2>1 DEF Past
  <1>4. CASE JoinOrLeave
    BY <1>4 DEF JoinOrLeave, Pending, slurm
  <1>5. ASSUME NEW r \in Run, ReadTable(r) PROVE Pending'
    <2>1. /\ pc[r] = "table" /\ pc' = [pc EXCEPT ![r] = "conf"]
          /\ UNCHANGED <<conf, loaded, lagging>>
      BY <1>5 DEF ReadTable, slurm
    <2> QED BY <1>1, <2>1 DEF Past
  <1>6. ASSUME NEW r \in Run,
               WriteConf(r) \/ ReadNodes(r) \/ ReadTableAgain(r) \/ WriteTopology(r)
        PROVE  Pending'
    <2>1. \E next \in Past : pc' = [pc EXCEPT ![r] = next]
      BY <1>6 DEF WriteConf, ReadNodes, ReadTableAgain, WriteTopology, Past
    <2>2. UNCHANGED <<loaded, lagging>>
      BY <1>6 DEF WriteConf, ReadNodes, ReadTableAgain, WriteTopology, slurm
    <2> QED BY <1>1, <2>1, <2>2
  <1>7. ASSUME NEW r \in Run, Restart(r) \/ Reconfigure(r) PROVE Pending'
    BY <1>7 DEF Restart, Reconfigure, Pending
  <1>8. ASSUME NEW r \in Run, Abort(r) \/ RestartFails(r) \/ ReconfigureFails(r) PROVE Pending'
    <2>1. /\ pc[r] # "idle" /\ pc' = [pc EXCEPT ![r] = "idle"] /\ conf' = conf
          /\ lagging' = (lagging \/ pc[r] \notin {"table", "conf"})
      BY <1>8 DEF Abort, RestartFails, ReconfigureFails, Failed, End, tables
    <2>2. CASE pc[r] \in {"table", "conf"}
      <3>1. loaded' = loaded
        BY <1>8, <2>2 DEF Abort, RestartFails, ReconfigureFails
      <3>2. lagging' = lagging
        BY <2>1, <2>2 DEF TypeOK
      <3> QED BY <1>1, <2>1, <2>2, <3>1, <3>2 DEF Past
    <2>3. CASE pc[r] \notin {"table", "conf"}
      BY <2>1, <2>3 DEF Pending
    <2> QED BY <2>2, <2>3
  <1>9. CASE Started
    BY <1>9 DEF Started, Pending, tables
  <1>10. CASE UNCHANGED vars
    BY <1>10 DEF vars, Pending
  <1> QED
    BY <1>2, <1>3, <1>4, <1>5, <1>6, <1>7, <1>8, <1>9, <1>10, ChangesAreCommands DEF Next

\* When no run is under way slurmctld works with the files as they are, unless
\* a run that may have written has failed since it last read them.
THEOREM SlurmctldWorksWithTheFiles == Spec => []RunningIsOnDisk
PROOF
  <1>1. Init => Pending
    BY DEF Init, Pending
  <1>2. Pending => RunningIsOnDisk
    BY DEF Pending, RunningIsOnDisk, Idle, Past
  <1> QED BY <1>1, <1>2, StepPending, TypeCorrect, PTL DEF Spec
==============================================================================
