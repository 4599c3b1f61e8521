------------------------- MODULE NodeLifecycleProofs -------------------------
(* Proofs about NodeLifecycle for every set of nodes and addresses and every *)
(* bound: IInv is inductive, and the safety properties follow from it.       *)
EXTENDS NodeLifecycle, TLAPS

(***************************************************************************)
(* What the writers of the nodes table preserve and which row they touch.  *)
(***************************************************************************)

KeepsOthers(t, u, n) == \A m \in Node : m # n => u[m] = t[m]

\* u has no row that t lacks, and no row moved or was contacted meanwhile.
KeepsAddresses(t, u) ==
  \A m \in Node : Has(u, m) => Has(t, m) /\ u[m].ip = t[m].ip /\ u[m].contacted = t[m].contacted

SameStates(t, u) == \A m \in Node : \A c \in ControllerStatuses : InState(u, m, c) <=> InState(t, m, c)

LEMMA KeepsTransitive ==
  ASSUME NEW t, NEW u, NEW v, KeepsAddresses(t, u), KeepsAddresses(u, v)
  PROVE  KeepsAddresses(t, v)
PROOF
  BY DEF KeepsAddresses

(* db_create_node: at most row n changes, to a freshly started row at the    *)
(* given address.                                                            *)
LEMMA UpsertRow ==
  ASSUME NEW t \in Table, NEW n \in Node, NEW a \in Addr
  PROVE  /\ Upsert(t, n, a) \in Table
         /\ KeepsOthers(t, Upsert(t, n, a), n)
         /\ \/ Upsert(t, n, a)[n] = t[n]
            \/ /\ Has(Upsert(t, n, a), n)
               /\ Upsert(t, n, a)[n].ip = a
               /\ InState(Upsert(t, n, a), n, "configuring")
PROOF
  <1>1. CASE Conflict(t, n, a)
    BY <1>1 DEF Upsert, KeepsOthers
  <1>2. CASE ~Conflict(t, n, a)
    <2> DEFINE r == [ip |-> a, status |-> "starting", controller_status |-> "configuring",
                     compute_status |-> IF Has(t, n) THEN t[n].compute_status ELSE "null",
                     contacted |-> Has(t, n) /\ t[n].contacted]
    <2>1. (IF Has(t, n) THEN t[n].compute_status ELSE "null") \in ComputeStatuses
      BY DEF Has, Table, Row, ComputeStatuses
    <2>2. (Has(t, n) /\ t[n].contacted) \in BOOLEAN
      OBVIOUS
    <2>3. r \in Row
      BY <2>1, <2>2 DEF Row, Statuses, ControllerStatuses
    <2>4. Upsert(t, n, a) = [t EXCEPT ![n] = r]
      BY <1>2 DEF Upsert
    <2>5. r # NoRow
      BY <2>3, NoRowAssumption
    <2>6. r.ip = a /\ r.controller_status = "configuring"
      OBVIOUS
    <2> HIDE DEF r
    <2>7. Upsert(t, n, a) \in Table /\ Upsert(t, n, a)[n] = r
      BY <2>3, <2>4 DEF Table
    <2>8. KeepsOthers(t, Upsert(t, n, a), n)
      BY <2>4 DEF Table, KeepsOthers
    <2> QED
      BY <2>5, <2>6, <2>7, <2>8 DEF Has, InState
  <1> QED
    BY <1>1, <1>2

(* db_update_node with a value for controller_status.                        *)
LEMMA SetControllerRow ==
  ASSUME NEW t \in Table, NEW n \in Node, NEW s \in ControllerStatuses
  PROVE  /\ SetController(t, n, s) \in Table
         /\ KeepsOthers(t, SetController(t, n, s), n)
         /\ KeepsAddresses(t, SetController(t, n, s))
         /\ \A m \in Node : \A c \in ControllerStatuses :
              InState(SetController(t, n, s), m, c) <=> IF m = n THEN Has(t, n) /\ c = s
                                                     ELSE InState(t, m, c)
PROOF
  <1>1. CASE ~Has(t, n)
    BY <1>1 DEF SetController, KeepsOthers, KeepsAddresses, SameStates, InState
  <1>2. CASE Has(t, n)
    <2> DEFINE r == [t[n] EXCEPT !.controller_status = s]
    <2>1. t[n] \in Row
      BY <1>2 DEF Has, Table
    <2>2. r \in Row /\ r.controller_status = s /\ r.ip = t[n].ip /\ r.contacted = t[n].contacted
      BY <2>1 DEF Row
    <2>3. SetController(t, n, s) = [t EXCEPT ![n] = r]
      BY <1>2, <2>1 DEF SetController, Table
    <2>4. r # NoRow
      BY <2>2, NoRowAssumption
    <2> HIDE DEF r
    <2>5. SetController(t, n, s) \in Table /\ SetController(t, n, s)[n] = r /\ KeepsOthers(t, SetController(t, n, s), n)
      BY <2>2, <2>3 DEF Table, KeepsOthers
    <2> QED
      BY <1>2, <2>2, <2>4, <2>5 DEF Has, KeepsOthers, KeepsAddresses, SameStates, InState
  <1> QED
    BY <1>1, <1>2

(* db_update_node with a value for status.                                   *)
LEMMA SetStatusRow ==
  ASSUME NEW t \in Table, NEW n \in Node, NEW s \in Statuses
  PROVE  /\ SetStatus(t, n, s) \in Table
         /\ KeepsOthers(t, SetStatus(t, n, s), n)
         /\ KeepsAddresses(t, SetStatus(t, n, s))
         /\ SameStates(t, SetStatus(t, n, s))
PROOF
  <1>1. CASE ~Has(t, n)
    BY <1>1 DEF SetStatus, KeepsOthers, KeepsAddresses, SameStates, InState
  <1>2. CASE Has(t, n)
    <2> DEFINE r == [t[n] EXCEPT !.status = s]
    <2>1. t[n] \in Row
      BY <1>2 DEF Has, Table
    <2>2. r \in Row /\ r.controller_status = t[n].controller_status /\ r.ip = t[n].ip /\ r.contacted = t[n].contacted
      BY <2>1 DEF Row
    <2>3. SetStatus(t, n, s) = [t EXCEPT ![n] = r]
      BY <1>2, <2>1 DEF SetStatus, Table
    <2>4. r # NoRow
      BY <2>2, NoRowAssumption
    <2> HIDE DEF r
    <2>5. SetStatus(t, n, s) \in Table /\ SetStatus(t, n, s)[n] = r /\ KeepsOthers(t, SetStatus(t, n, s), n)
      BY <2>2, <2>3 DEF Table, KeepsOthers
    <2> QED
      BY <1>2, <2>2, <2>4, <2>5 DEF Has, KeepsOthers, KeepsAddresses, SameStates, InState
  <1> QED
    BY <1>1, <1>2

(* db_update_node with a value for compute_status.                           *)
LEMMA SetComputeRow ==
  ASSUME NEW t \in Table, NEW n \in Node, NEW s \in ComputeStatuses
  PROVE  /\ SetCompute(t, n, s) \in Table
         /\ KeepsOthers(t, SetCompute(t, n, s), n)
         /\ KeepsAddresses(t, SetCompute(t, n, s))
         /\ SameStates(t, SetCompute(t, n, s))
PROOF
  <1>1. CASE ~Has(t, n)
    BY <1>1 DEF SetCompute, KeepsOthers, KeepsAddresses, SameStates, InState
  <1>2. CASE Has(t, n)
    <2> DEFINE r == [t[n] EXCEPT !.compute_status = s]
    <2>1. t[n] \in Row
      BY <1>2 DEF Has, Table
    <2>2. r \in Row /\ r.controller_status = t[n].controller_status /\ r.ip = t[n].ip /\ r.contacted = t[n].contacted
      BY <2>1 DEF Row
    <2>3. SetCompute(t, n, s) = [t EXCEPT ![n] = r]
      BY <1>2, <2>1 DEF SetCompute, Table
    <2>4. r # NoRow
      BY <2>2, NoRowAssumption
    <2> HIDE DEF r
    <2>5. SetCompute(t, n, s) \in Table /\ SetCompute(t, n, s)[n] = r /\ KeepsOthers(t, SetCompute(t, n, s), n)
      BY <2>2, <2>3 DEF Table, KeepsOthers
    <2> QED
      BY <1>2, <2>2, <2>4, <2>5 DEF Has, KeepsOthers, KeepsAddresses, SameStates, InState
  <1> QED
    BY <1>1, <1>2

(* db_move_terminated_node and db_delete_node.                               *)
LEMMA RemoveRow ==
  ASSUME NEW t \in Table, NEW n \in Node
  PROVE  /\ Remove(t, n) \in Table
         /\ KeepsOthers(t, Remove(t, n), n)
         /\ KeepsAddresses(t, Remove(t, n))
         /\ ~Has(Remove(t, n), n)
PROOF
  BY DEF Remove, Table, Has, KeepsOthers, KeepsAddresses

(* db_update_node with a node's document: the row of n goes to `who`, with   *)
(* the same address and, unless it was starting, the same controller status; *)
(* every other row stays.                                                    *)
LEMMA StoreInfoRow ==
  ASSUME NEW t \in Table, NEW n \in Node, NEW who \in Node,
         NEW c \in ComputeStatuses, NEW was \in Statuses
  PROVE  /\ StoreInfo(t, n, who, c, was) \in Table
         /\ \A m \in Node : m # who =>
              \/ StoreInfo(t, n, who, c, was)[m] = t[m]
              \/ ~Has(StoreInfo(t, n, who, c, was), m)
         /\ \/ StoreInfo(t, n, who, c, was)[who] = t[who]
            \/ /\ Has(t, n) /\ (who # n => ~Has(t, who))
               /\ StoreInfo(t, n, who, c, was)[who].ip = t[n].ip
               /\ StoreInfo(t, n, who, c, was)[who].controller_status
                    \in {"configuring", t[n].controller_status}
PROOF
  <1>1. CASE ~(Has(t, n) /\ (who = n \/ ~Has(t, who)))
    BY <1>1 DEF StoreInfo
  <1>2. CASE Has(t, n) /\ (who = n \/ ~Has(t, who))
    <2> DEFINE r == [t[n] EXCEPT
            !.contacted = TRUE, !.compute_status = c,
            !.status = IF was \in {"starting", "unreachable"} THEN "running" ELSE @,
            !.controller_status = IF was = "starting" THEN "configuring" ELSE @]
    <2>1. t[n] \in Row
      BY <1>2 DEF Has, Table
    <2>2. /\ r \in Row /\ r.ip = t[n].ip
          /\ r.controller_status \in {"configuring", t[n].controller_status}
      BY <2>1 DEF Row, Statuses, ControllerStatuses
    <2>3. StoreInfo(t, n, who, c, was) = [t EXCEPT ![n] = NoRow, ![who] = r]
      BY <1>2 DEF StoreInfo
    <2> HIDE DEF r
    <2>4. /\ StoreInfo(t, n, who, c, was) \in Table
          /\ StoreInfo(t, n, who, c, was)[who] = r
          /\ n # who => StoreInfo(t, n, who, c, was)[n] = NoRow
          /\ \A m \in Node : m # n /\ m # who => StoreInfo(t, n, who, c, was)[m] = t[m]
      BY <2>2, <2>3 DEF Table
    <2> QED
      BY <1>2, <2>2, <2>4 DEF Has
  <1> QED
    BY <1>1, <1>2

(***************************************************************************)
(* The system of daemons and handlers.                                     *)
(***************************************************************************)

USE ParameterAssumption DEF cloud, bus, db, svc, person

(* get_updates_based_on_url returns one of the updates that db_update_node   *)
(* knows.                                                                    *)
LEMMA UpdateType ==
  ASSUME TypeOK, Provenance, NEW n \in Node, NEW mute, NEW aged
  PROVE  UpdateFor(n, mute, aged) \in Updates
PROOF
  <1> DEFINE answering == {m \in Node : Answers(m) /\ addr[m] = row[n].ip} \ mute
             who       == CHOOSE m \in answering : TRUE
             info      == [kind |-> "info", ocid |-> who, compute_status |-> web[who],
                           was |-> row[n].status]
  <1>1. CASE Has(row, n) /\ answering # {}
    <2>1. who \in answering
      BY <1>1
    <2>2. who \in Node /\ web[who] \in {"configuring", "configured"}
      BY <2>1 DEF Answers, TypeOK
    <2>3. row[n].status \in Statuses
      BY <1>1 DEF TypeOK, Table, Has, Row
    <2>4. UpdateFor(n, mute, aged) = info
      BY <1>1 DEF UpdateFor
    <2> QED
      BY <2>2, <2>3, <2>4 DEF Updates
  <1>2. CASE ~(Has(row, n) /\ answering # {})
    <2>1. UpdateFor(n, mute, aged) \in {Done, [kind |-> "unreachable"]}
      BY <1>2 DEF UpdateFor
    <2> QED
      BY <2>1 DEF Updates
  <1> QED
    BY <1>1, <1>2

(* Every step preserves the type invariant.                                  *)
LEMMA TypeStep ==
  ASSUME TypeOK, Provenance, [Next]_vars
  PROVE  TypeOK'
PROOF
  <1> USE DEF TypeOK
  <1>1. ASSUME NEW n \in Node, NEW a \in Addr, Launch(n, a) PROVE TypeOK'
    BY <1>1 DEF Launch, Message
  <1>2. ASSUME NEW n \in Node, WebServerUp(n) PROVE TypeOK'
    BY <1>2 DEF WebServerUp
  <1>3. ASSUME NEW n \in Node, SlurmdJoins(n) PROVE TypeOK'
    BY <1>3 DEF SlurmdJoins, Provenance, Launched, Alive
  <1>4. ASSUME NEW n \in Node, NodeConfigured(n) PROVE TypeOK'
    BY <1>4 DEF NodeConfigured
  <1>5. ASSUME NEW n \in Node, InstanceGone(n) PROVE TypeOK'
    BY <1>5 DEF InstanceGone
  <1>6. ASSUME NEW m \in Message, FunctionPuts(m) PROVE TypeOK'
    BY <1>6 DEF FunctionPuts, Message
  <1>7. ASSUME NEW m \in Message, FunctionFails(m) PROVE TypeOK'
    BY <1>7 DEF FunctionFails, Fault
  <1>8. CASE VisibilityTimeout
    BY <1>8 DEF VisibilityTimeout
  <1>9. CASE StartPass
    BY <1>9 DEF StartPass, GoTo
  <1>10. ASSUME NEW n \in Node, HandleStarting(n) PROVE TypeOK'
    <2>1. addr[n] \in Addr
      BY <1>10 DEF HandleStarting, Provenance
    <2>2. row' \in Table
      BY <1>10, <2>1, UpsertRow DEF HandleStarting
    <2>3. queue' \subseteq Message /\ hidden' \subseteq queue' /\ faults' \in 0..MaxFaults
      BY <1>10 DEF HandleStarting, Acknowledge, Fault
    <2> QED
      BY <1>10, <2>2, <2>3 DEF HandleStarting
  <1>11. ASSUME NEW n \in Node, HandleTerminating(n) PROVE TypeOK'
    <2>1. SetController(row, n, "terminating") \in Table
      BY SetControllerRow DEF ControllerStatuses
    <2>2. row' \in Table
      BY <1>11, <2>1, SetComputeRow DEF HandleTerminating, ComputeStatuses
    <2>3. queue' \subseteq Message /\ hidden' \subseteq queue' /\ faults' \in 0..MaxFaults
      BY <1>11 DEF HandleTerminating, Acknowledge, Fault
    <2> QED
      BY <1>11, <2>2, <2>3 DEF HandleTerminating
  <1>12. CASE EndScan
    BY <1>12 DEF EndScan, GoTo
  <1>13. CASE Rescan
    <2>1. ASSUME NEW n \in Node PROVE row'[n] \in Row \cup {NoRow}
      <3>1. CASE row'[n] = row[n]
        BY <3>1 DEF Table
      <3>2. CASE Answers(n) /\ ~Has(row, n) /\ row'[n] = Upsert(row, n, addr[n])[n]
        <4>1. addr[n] \in Addr
          BY <3>2 DEF Answers, Alive, Provenance, Launched
        <4> QED
          BY <3>2, <4>1, UpsertRow DEF Table
      <3>3. CASE Has(row, n) /\ row'[n] = [row[n] EXCEPT !.status = "unreachable"]
        <4>1. row[n] \in Row
          BY <3>3 DEF Has, Table
        <4> QED
          BY <3>3, <4>1 DEF Row, Statuses
      <3> QED
        BY <1>13, <3>1, <3>2, <3>3 DEF Rescan
    <2>2. row' = [n \in Node |-> row'[n]]
      BY <1>13 DEF Rescan, Table
    <2>3. row' \in Table
      BY <2>1, <2>2 DEF Table
    <2>4. faults' \in 0..MaxFaults
      BY <1>13 DEF Rescan, Fault
    <2> QED
      BY <1>13, <2>3, <2>4 DEF Rescan, GoTo
  <1>14. CASE Fetch
    <2>1. PICK mute \in SUBSET {n \in Node : Answers(n)},
               aged \in SUBSET {n \in Node : Has(row, n) /\ row[n].contacted
                                             /\ row[n].status # "starting"} :
            upd' = [n \in Node |-> UpdateFor(n, mute, aged)]
      BY <1>14 DEF Fetch
    <2>2. ASSUME NEW n \in Node PROVE UpdateFor(n, mute, aged) \in Updates
      BY UpdateType
    <2>3. faults' \in 0..MaxFaults
      BY <1>14 DEF Fetch, Fault
    <2> QED
      BY <1>14, <2>1, <2>2, <2>3 DEF Fetch, GoTo
  <1>15. ASSUME NEW n \in Node, StoreMetadata(n) PROVE TypeOK'
    <2>1. CASE upd[n].kind = "unreachable"
      <3>1. row' \in Table
        BY <1>15, <2>1, SetStatusRow DEF StoreMetadata, Statuses
      <3> QED
        BY <1>15, <3>1 DEF StoreMetadata, Updates, Done
    <2>2. CASE upd[n].kind # "unreachable"
      <3>1. /\ upd[n].ocid \in Node /\ upd[n].was \in Statuses
            /\ upd[n].compute_status \in ComputeStatuses
        BY <1>15, <2>2 DEF StoreMetadata, Updates, ComputeStatuses, Done
      <3>2. row' \in Table
        BY <1>15, <2>2, <3>1, StoreInfoRow DEF StoreMetadata
      <3> QED
        BY <1>15, <3>2 DEF StoreMetadata, Updates, Done
    <2> QED
      BY <2>1, <2>2
  <1>16. CASE Snapshot
    BY <1>16 DEF Snapshot
  <1>17. CASE Playbook
    BY <1>17 DEF Playbook, PlayQuery, PlayDelete, PlaySucceeds, PlayFails, GoTo, Fault, ToAdd, ToRemove
  <1>18. ASSUME NEW n \in Node, MarkConfigured(n) PROVE TypeOK'
    <2>1. row' \in Table
      BY <1>18, SetControllerRow DEF MarkConfigured, ControllerStatuses
    <2> QED
      BY <1>18, <2>1 DEF MarkConfigured
  <1>19. ASSUME NEW n \in Node, MoveTerminated(n) PROVE TypeOK'
    BY <1>19, RemoveRow DEF MoveTerminated
  <1>20. CASE EndPass
    BY <1>20 DEF EndPass, GoTo
  <1>21. ASSUME NEW n \in Node, Terminate(n) PROVE TypeOK'
    <2>1. SetStatus(row, n, "terminating") \in Table
      BY SetStatusRow DEF Statuses
    <2>2. row' \in Table
      BY <1>21, <2>1, SetControllerRow DEF Terminate, ControllerStatuses
    <2> QED
      BY <1>21, <2>2 DEF Terminate, Command, Rewrites
  <1>22. ASSUME NEW n \in Node, Submit(n) PROVE TypeOK'
    BY <1>22 DEF Submit, Fault, BeginTermination, Message
  <1>23. ASSUME NEW n \in Node, ConsoleTerminate(n) PROVE TypeOK'
    BY <1>23 DEF ConsoleTerminate, Command, BeginTermination, Message
  <1>24. ASSUME NEW n \in Node, Reconfigure(n) PROVE TypeOK'
    <2>1. row' \in Table
      BY <1>24, SetControllerRow DEF Reconfigure, ControllerStatuses
    <2> QED
      BY <1>24, <2>1 DEF Reconfigure, Command, Rewrites
  <1>25. ASSUME NEW n \in Node, ReconfigureAll(n) PROVE TypeOK'
    <2>1. SetController(row, n, "reconfiguring") \in Table
      BY SetControllerRow DEF ControllerStatuses
    <2>2. row' \in Table
      BY <1>25, <2>1, SetComputeRow DEF ReconfigureAll, ComputeStatuses
    <2> QED
      BY <1>25, <2>2 DEF ReconfigureAll, Command, Rewrites
  <1>26. ASSUME NEW n \in Node, CloudInit(n) PROVE TypeOK'
    BY <1>26 DEF CloudInit
  <1>27. ASSUME NEW n \in Node, Reboot(n) PROVE TypeOK'
    BY <1>27 DEF Reboot, Command
  <1>28. ASSUME NEW n \in Node, MarkRebooted(n) PROVE TypeOK'
    BY <1>28, SetComputeRow DEF MarkRebooted, ComputeStatuses
  <1>29. ASSUME NEW n \in Node, AddRow(n) PROVE TypeOK'
    BY <1>29, UpsertRow DEF AddRow, Command, Rewrites, Answers, Alive, Provenance, Launched
  <1>30. ASSUME NEW n \in Node, DeleteRow(n) PROVE TypeOK'
    BY <1>30, RemoveRow DEF DeleteRow, Command, Rewrites
  <1>31. CASE Sync
    BY <1>31 DEF Sync, Command, Message
  <1>32. CASE UNCHANGED vars
    BY <1>32 DEF vars, Message
  <1>33. CASE Crash
    BY <1>33 DEF Crash, Fault, Updates
  <1> QED
    BY <1>1, <1>2, <1>3, <1>4, <1>5, <1>6, <1>7, <1>8, <1>9, <1>10, <1>11, <1>12, <1>13, <1>14,
       <1>15, <1>16, <1>17, <1>18, <1>19, <1>20, <1>21, <1>22, <1>23, <1>24, <1>25, <1>26,
          <1>27, <1>28, <1>29, <1>30, <1>31, <1>32, <1>33
    DEF Next, World, Bus, ServiceRow, ServicePhase, SecondHalf, FirstHalf

(* What the pass remembers of a row came from a launched instance at the     *)
(* row's address.                                                            *)
LEMMA UpdateSource ==
  ASSUME TypeOK, Provenance, NEW n \in Node, NEW mute, NEW aged,
         UpdateFor(n, mute, aged).kind = "info"
  PROVE  /\ n \in Launched /\ UpdateFor(n, mute, aged).ocid \in Launched
         /\ addr[UpdateFor(n, mute, aged).ocid] = addr[n]
PROOF
  <1> DEFINE answering == {m \in Node : Answers(m) /\ addr[m] = row[n].ip} \ mute
             who       == CHOOSE m \in answering : TRUE
  <1>1. CASE Has(row, n) /\ answering # {}
    <2>1. who \in answering
      BY <1>1
    <2>2. who \in Launched /\ addr[who] = row[n].ip
      BY <2>1 DEF Answers, Alive, Launched
    <2>3. UpdateFor(n, mute, aged).ocid = who
      BY <1>1 DEF UpdateFor
    <2> QED
      BY <1>1, <2>2, <2>3 DEF Provenance
  <1>2. CASE ~(Has(row, n) /\ answering # {})
    BY <1>2 DEF UpdateFor, Done
  <1> QED
    BY <1>1, <1>2

(* Every step preserves Provenance.                                          *)
LEMMA ProvenanceStep ==
  ASSUME TypeOK, Provenance, [Next]_vars
  PROVE  Provenance'
PROOF
  <1>0. row \in Table
    BY DEF TypeOK
  <1>1. ASSUME NEW n \in Node, NEW a \in Addr, Launch(n, a) PROVE Provenance'
    BY <1>1 DEF Launch, TypeOK, Provenance, Launched
  <1>2. ASSUME NEW n \in Node, WebServerUp(n) PROVE Provenance'
    BY <1>2 DEF WebServerUp, TypeOK, Provenance, Launched
  <1>3. ASSUME NEW n \in Node, SlurmdJoins(n) PROVE Provenance'
    BY <1>3 DEF SlurmdJoins, TypeOK, Provenance, Launched
  <1>4. ASSUME NEW n \in Node, NodeConfigured(n) PROVE Provenance'
    BY <1>4 DEF NodeConfigured, TypeOK, Provenance, Launched
  <1>5. ASSUME NEW n \in Node, InstanceGone(n) PROVE Provenance'
    BY <1>5 DEF InstanceGone, TypeOK, Provenance, Launched
  <1>6. ASSUME NEW m \in Message, FunctionPuts(m) PROVE Provenance'
    BY <1>6 DEF FunctionPuts, Alive, TypeOK, Provenance, Launched
  <1>7. ASSUME NEW m \in Message, FunctionFails(m) PROVE Provenance'
    BY <1>7 DEF FunctionFails, TypeOK, Provenance, Launched
  <1>8. CASE VisibilityTimeout
    BY <1>8 DEF VisibilityTimeout, TypeOK, Provenance, Launched
  <1>9. CASE StartPass
    BY <1>9 DEF StartPass, GoTo, TypeOK, Provenance, Launched
  <1>10. ASSUME NEW n \in Node, HandleStarting(n) PROVE Provenance'
    <2>1. n \in Launched /\ addr[n] \in Addr
      BY <1>10 DEF HandleStarting, TypeOK, Provenance, Launched
    <2>2. \A m \in Node : Has(row', m) =>
             (Has(row, m) /\ row'[m].ip = row[m].ip) \/ (m = n /\ row'[m].ip = addr[n])
      BY <1>0, <1>10, <2>1, UpsertRow DEF HandleStarting, Has, KeepsOthers
    <2> QED
      BY <1>10, <2>1, <2>2 DEF HandleStarting, Acknowledge, TypeOK, Provenance, Launched
  <1>11. ASSUME NEW n \in Node, HandleTerminating(n) PROVE Provenance'
    <2> DEFINE u == SetController(row, n, "terminating")
    <2>1. "terminating" \in ControllerStatuses /\ "terminating" \in ComputeStatuses
      BY DEF ComputeStatuses, ControllerStatuses
    <2>2. u \in Table /\ KeepsAddresses(row, u)
      BY <1>0, <2>1, SetControllerRow
    <2>3. row' = SetCompute(u, n, "terminating")
      BY <1>11 DEF HandleTerminating
    <2> HIDE DEF u
    <2>4. KeepsAddresses(row, row')
      BY <2>1, <2>2, <2>3, SetComputeRow, KeepsTransitive
    <2> QED
      BY <1>11, <2>4
         DEF HandleTerminating, Acknowledge, KeepsAddresses, TypeOK, Provenance, Launched
  <1>12. CASE EndScan
    BY <1>12 DEF EndScan, GoTo, TypeOK, Provenance, Launched
  <1>13. CASE Rescan
    <2>1. ASSUME NEW n \in Node, Has(row', n)
          PROVE  n \in Launched /\ row'[n].ip = addr[n]
      <3>1. CASE row'[n] = row[n]
        BY <2>1, <3>1 DEF Has, Provenance
      <3>2. CASE Answers(n) /\ ~Has(row, n) /\ row'[n] = Upsert(row, n, addr[n])[n]
        <4>1. n \in Launched /\ addr[n] \in Addr
          BY <3>2 DEF Answers, Alive, Provenance, Launched
        <4> QED
          BY <1>0, <2>1, <3>2, <4>1, UpsertRow DEF Has
      <3>3. CASE Has(row, n) /\ row'[n] = [row[n] EXCEPT !.status = "unreachable"]
        <4>1. row[n] \in Row
          BY <1>0, <3>3 DEF Has, Table
        <4> QED
          BY <3>3, <4>1 DEF Row, Provenance
      <3> QED
        BY <1>13, <3>1, <3>2, <3>3 DEF Rescan
    <2> QED
      BY <1>13, <2>1 DEF Rescan, Provenance, Launched
  <1>14. CASE Fetch
    <2>1. PICK mute \in SUBSET {n \in Node : Answers(n)},
               aged \in SUBSET {n \in Node : Has(row, n) /\ row[n].contacted
                                             /\ row[n].status # "starting"} :
            upd' = [n \in Node |-> UpdateFor(n, mute, aged)]
      BY <1>14 DEF Fetch
    <2>2. \A n \in Node : UpdateFor(n, mute, aged).kind = "info" =>
            /\ n \in Launched /\ UpdateFor(n, mute, aged).ocid \in Launched
            /\ addr[UpdateFor(n, mute, aged).ocid] = addr[n]
      BY UpdateSource
    <2> QED
      BY <1>14, <2>1, <2>2 DEF Fetch, Provenance, Launched
  <1>15. ASSUME NEW n \in Node, StoreMetadata(n) PROVE Provenance'
    <2>1. \A m \in Node : upd'[m].kind = "info" => upd'[m] = upd[m]
      BY <1>15 DEF StoreMetadata, Done, TypeOK
    <2>2. ASSUME NEW m \in Node, Has(row', m)
          PROVE  m \in Launched /\ row'[m].ip = addr[m]
      <3>1. CASE upd[n].kind = "unreachable"
        <4>1. "unreachable" \in Statuses
          BY DEF Statuses
        <4>2. row' = SetStatus(row, n, "unreachable")
          BY <1>15, <3>1 DEF StoreMetadata
        <4>3. KeepsAddresses(row, row')
          BY <1>0, <4>1, <4>2, SetStatusRow
        <4> QED
          BY <2>2, <4>3 DEF KeepsAddresses, Provenance
      <3>2. CASE upd[n].kind # "unreachable"
        <4>1. /\ upd[n].kind = "info" /\ upd[n].ocid \in Node /\ upd[n].was \in Statuses
              /\ upd[n].compute_status \in ComputeStatuses
          BY <1>15, <3>2 DEF StoreMetadata, Updates, ComputeStatuses, Done, TypeOK
        <4>2. row' = StoreInfo(row, n, upd[n].ocid, upd[n].compute_status, upd[n].was)
          BY <1>15, <3>2 DEF StoreMetadata
        <4>3. \/ Has(row, m) /\ row'[m].ip = row[m].ip
              \/ m = upd[n].ocid /\ Has(row, n) /\ row'[m].ip = row[n].ip
          BY <1>0, <2>2, <4>1, <4>2, StoreInfoRow DEF Has
        <4> QED
          BY <4>1, <4>3 DEF Provenance
      <3> QED
        BY <3>1, <3>2
    <2> QED
      BY <1>15, <2>1, <2>2 DEF StoreMetadata, Provenance, Launched
  <1>16. CASE Snapshot
    BY <1>16 DEF Snapshot, InState, Has, TypeOK, Provenance, Launched
  <1>17. CASE Playbook
    BY <1>17 DEF Playbook, PlayQuery, PlayDelete, PlaySucceeds, PlayFails, GoTo, ToRemove, InState, Has,
         TypeOK, Provenance, Launched
  <1>18. ASSUME NEW n \in Node, MarkConfigured(n) PROVE Provenance'
    <2>1. "configured" \in ControllerStatuses
      BY DEF ControllerStatuses
    <2>2. row' = SetController(row, n, "configured")
      BY <1>18 DEF MarkConfigured
    <2>3. KeepsAddresses(row, row')
      BY <1>0, <2>1, <2>2, SetControllerRow
    <2> QED
      BY <1>18, <2>3 DEF MarkConfigured, KeepsAddresses, TypeOK, Provenance, Launched
  <1>19. ASSUME NEW n \in Node, MoveTerminated(n) PROVE Provenance'
    <2>2. row' = Remove(row, n)
      BY <1>19 DEF MoveTerminated
    <2>3. KeepsAddresses(row, row')
      BY <1>0, <2>2, RemoveRow
    <2> QED
      BY <1>19, <2>3 DEF MoveTerminated, KeepsAddresses, TypeOK, Provenance, Launched
  <1>20. CASE EndPass
    BY <1>20 DEF EndPass, GoTo, TypeOK, Provenance, Launched
  <1>21. ASSUME NEW n \in Node, Terminate(n) PROVE Provenance'
    <2> DEFINE u == SetStatus(row, n, "terminating")
    <2>1. "terminating" \in Statuses /\ "terminating" \in ControllerStatuses
      BY DEF ControllerStatuses, Statuses
    <2>2. u \in Table /\ KeepsAddresses(row, u)
      BY <1>0, <2>1, SetStatusRow
    <2>3. row' = SetController(u, n, "terminating")
      BY <1>21 DEF Terminate
    <2> HIDE DEF u
    <2>4. KeepsAddresses(row, row')
      BY <2>1, <2>2, <2>3, SetControllerRow, KeepsTransitive
    <2> QED
      BY <1>21, <2>4 DEF Terminate, Rewrites, KeepsAddresses, TypeOK, Provenance, Launched
  <1>22. ASSUME NEW n \in Node, Submit(n) PROVE Provenance'
    BY <1>22 DEF Submit, BeginTermination, TypeOK, Provenance, Launched
  <1>23. ASSUME NEW n \in Node, ConsoleTerminate(n) PROVE Provenance'
    BY <1>23 DEF ConsoleTerminate, BeginTermination, TypeOK, Provenance, Launched
  <1>24. ASSUME NEW n \in Node, Reconfigure(n) PROVE Provenance'
    <2>1. "reconfiguring" \in ControllerStatuses
      BY DEF ControllerStatuses
    <2>2. row' = SetController(row, n, "reconfiguring")
      BY <1>24 DEF Reconfigure
    <2>3. KeepsAddresses(row, row')
      BY <1>0, <2>1, <2>2, SetControllerRow
    <2> QED
      BY <1>24, <2>3 DEF Reconfigure, Rewrites, KeepsAddresses, TypeOK, Provenance, Launched
  <1>25. ASSUME NEW n \in Node, ReconfigureAll(n) PROVE Provenance'
    <2> DEFINE u == SetController(row, n, "reconfiguring")
    <2>1. "reconfiguring" \in ControllerStatuses /\ "starting" \in ComputeStatuses
      BY DEF ComputeStatuses, ControllerStatuses
    <2>2. u \in Table /\ KeepsAddresses(row, u)
      BY <1>0, <2>1, SetControllerRow
    <2>3. row' = SetCompute(u, n, "starting")
      BY <1>25 DEF ReconfigureAll
    <2> HIDE DEF u
    <2>4. KeepsAddresses(row, row')
      BY <2>1, <2>2, <2>3, SetComputeRow, KeepsTransitive
    <2> QED
      BY <1>25, <2>4 DEF ReconfigureAll, Rewrites, KeepsAddresses, TypeOK, Provenance, Launched
  <1>26. ASSUME NEW n \in Node, CloudInit(n) PROVE Provenance'
    BY <1>26 DEF CloudInit, TypeOK, Provenance, Launched
  <1>27. ASSUME NEW n \in Node, Reboot(n) PROVE Provenance'
    BY <1>27 DEF Reboot, TypeOK, Provenance, Launched
  <1>28. ASSUME NEW n \in Node, MarkRebooted(n) PROVE Provenance'
    <2>1. "starting" \in ComputeStatuses
      BY DEF ComputeStatuses
    <2>2. row' = SetCompute(row, n, "starting")
      BY <1>28 DEF MarkRebooted
    <2>3. KeepsAddresses(row, row')
      BY <1>0, <2>1, <2>2, SetComputeRow
    <2> QED
      BY <1>28, <2>3 DEF MarkRebooted, KeepsAddresses, TypeOK, Provenance, Launched
  <1>29. ASSUME NEW n \in Node, AddRow(n) PROVE Provenance'
    <2>1. n \in Launched /\ addr[n] \in Addr
      BY <1>29 DEF AddRow, Answers, Alive, TypeOK, Provenance, Launched
    <2>2. \A m \in Node : Has(row', m) =>
             (Has(row, m) /\ row'[m].ip = row[m].ip) \/ (m = n /\ row'[m].ip = addr[n])
      BY <1>0, <1>29, <2>1, UpsertRow DEF AddRow, Has, KeepsOthers
    <2> QED
      BY <1>29, <2>1, <2>2 DEF AddRow, Rewrites, TypeOK, Provenance, Launched
  <1>30. ASSUME NEW n \in Node, DeleteRow(n) PROVE Provenance'
    <2>2. row' = Remove(row, n)
      BY <1>30 DEF DeleteRow
    <2>3. KeepsAddresses(row, row')
      BY <1>0, <2>2, RemoveRow
    <2> QED
      BY <1>30, <2>3 DEF DeleteRow, Rewrites, KeepsAddresses, TypeOK, Provenance, Launched
  <1>31. CASE Sync
    BY <1>31 DEF Sync, Alive, TypeOK, Provenance, Launched
  <1>32. CASE UNCHANGED vars
    BY <1>32 DEF vars, TypeOK, Provenance, Launched
  <1>33. CASE Crash
    BY <1>33 DEF Crash, Done, TypeOK, Provenance, Launched
  <1> QED
    BY <1>1, <1>2, <1>3, <1>4, <1>5, <1>6, <1>7, <1>8, <1>9, <1>10, <1>11, <1>12, <1>13, <1>14,
       <1>15, <1>16, <1>17, <1>18, <1>19, <1>20, <1>21, <1>22, <1>23, <1>24, <1>25, <1>26,
          <1>27, <1>28, <1>29, <1>30, <1>31, <1>32, <1>33
    DEF Next, World, Bus, ServiceRow, ServicePhase, SecondHalf, FirstHalf

(* A table without two rows at one address stays one under the writers.      *)
OneRow(t) == \A m, n \in Node : Has(t, m) /\ Has(t, n) /\ t[m].ip = t[n].ip => m = n

LEMMA KeepsOneRow ==
  ASSUME NEW t, NEW u, OneRow(t), KeepsAddresses(t, u)
  PROVE  OneRow(u)
PROOF
  BY DEF OneRow, KeepsAddresses

LEMMA UpsertOneRow ==
  ASSUME NEW t \in Table, NEW n \in Node, NEW a \in Addr, OneRow(t)
  PROVE  OneRow(Upsert(t, n, a))
PROOF
  <1>1. CASE Conflict(t, n, a)
    BY <1>1 DEF Upsert
  <1>2. CASE ~Conflict(t, n, a)
    <2> DEFINE u == Upsert(t, n, a)
    <2>1. KeepsOthers(t, u, n) /\ (u[n] = t[n] \/ u[n].ip = a)
      BY UpsertRow
    <2>2. \A m \in Node \ {n} : Has(t, m) => t[m].ip # a
      BY <1>2 DEF Conflict
    <2> QED
      BY <2>1, <2>2 DEF OneRow, KeepsOthers, Has
  <1> QED
    BY <1>1, <1>2

LEMMA StoreInfoOneRow ==
  ASSUME NEW t \in Table, NEW n \in Node, NEW who \in Node,
         NEW c \in ComputeStatuses, NEW was \in Statuses, OneRow(t)
  PROVE  OneRow(StoreInfo(t, n, who, c, was))
PROOF
  <1> DEFINE u == StoreInfo(t, n, who, c, was)
  <1>1. CASE ~(Has(t, n) /\ (who = n \/ ~Has(t, who)))
    BY <1>1 DEF StoreInfo
  <1>2. CASE Has(t, n) /\ (who = n \/ ~Has(t, who))
    <2>1. \A m \in Node : m # who => u[m] = t[m] \/ ~Has(u, m)
      BY StoreInfoRow
    <2>2. u[who] = t[who] \/ u[who].ip = t[n].ip
      BY StoreInfoRow
    <2>3. n # who => ~Has(u, n)
      BY <1>2 DEF StoreInfo, Table, Has
    <2>4. OneRow(u)
      <3> HIDE DEF u
      <3> QED
        BY <1>2, <2>1, <2>2, <2>3 DEF OneRow, Has
    <2> QED
      BY <2>4
  <1> QED
    BY <1>1, <1>2

(* Every step preserves OneHolder: an address is given to a new instance     *)
(* when its holder is gone, and the unique keys of the table do the rest; a  *)
(* rescan adds several rows at once, of live instances.                      *)
LEMMA HolderStep ==
  ASSUME TypeOK, Provenance, OneHolder, [Next]_vars
  PROVE  OneHolder'
PROOF
  <1> DEFINE Live == \A m, n \in Node : Alive(m) /\ Alive(n) /\ addr[m] = addr[n] => m = n
  <1>0. row \in Table /\ OneRow(row) /\ Live
    BY DEF TypeOK, OneHolder, OneRow
  <1>a. ASSUME UNCHANGED <<inst, addr>> PROVE Live'
    BY <1>0, <1>a DEF Alive
  <1>b. ASSUME OneRow(row'), Live' PROVE OneHolder'
    BY <1>b DEF OneHolder, OneRow
  <1>c. ASSUME UNCHANGED <<inst, addr, row>> PROVE OneHolder'
    BY <1>0, <1>a, <1>b, <1>c
  <1>d. ASSUME UNCHANGED <<inst, addr>>, KeepsAddresses(row, row') PROVE OneHolder'
    BY <1>0, <1>a, <1>b, <1>d, KeepsOneRow
  <1>e. ASSUME UNCHANGED <<addr, row>>, \A n \in Node : Alive(n)' => Alive(n) PROVE OneHolder'
    BY <1>0, <1>b, <1>e
  <1> HIDE DEF Live
  <1>1. ASSUME NEW n \in Node, NEW a \in Addr, Launch(n, a) PROVE OneHolder'
    <2>1. Live'
      BY <1>0, <1>1 DEF Launch, Live, Alive, TypeOK
    <2> QED
      BY <1>0, <1>1, <1>b, <2>1 DEF Launch
  <1>2. ASSUME NEW n \in Node, WebServerUp(n) PROVE OneHolder'
    BY <1>2, <1>c DEF WebServerUp
  <1>3. ASSUME NEW n \in Node, SlurmdJoins(n) PROVE OneHolder'
    BY <1>3, <1>c DEF SlurmdJoins
  <1>4. ASSUME NEW n \in Node, NodeConfigured(n) PROVE OneHolder'
    BY <1>4, <1>c DEF NodeConfigured
  <1>5. ASSUME NEW n \in Node, InstanceGone(n) PROVE OneHolder'
    BY <1>5, <1>e DEF InstanceGone, Alive, TypeOK
  <1>6. CASE Bus
    BY <1>6, <1>c DEF Bus, VisibilityTimeout, FunctionPuts, FunctionFails
  <1>7. ASSUME NEW n \in Node, HandleStarting(n) PROVE OneHolder'
    <2>1. addr[n] \in Addr
      BY <1>7 DEF HandleStarting, Provenance
    <2>2. OneRow(row')
      BY <1>0, <1>7, <2>1, UpsertOneRow DEF HandleStarting
    <2> QED
      BY <1>7, <1>a, <1>b, <2>2 DEF HandleStarting
  <1>8. ASSUME NEW n \in Node, HandleTerminating(n) PROVE OneHolder'
    <2> DEFINE u == SetController(row, n, "terminating")
    <2>1. "terminating" \in ControllerStatuses /\ "terminating" \in ComputeStatuses
      BY DEF ComputeStatuses, ControllerStatuses
    <2>2. u \in Table /\ KeepsAddresses(row, u)
      BY <1>0, <2>1, SetControllerRow
    <2>3. row' = SetCompute(u, n, "terminating")
      BY <1>8 DEF HandleTerminating
    <2> HIDE DEF u
    <2>4. KeepsAddresses(row, row')
      BY <2>1, <2>2, <2>3, SetComputeRow, KeepsTransitive
    <2> QED
      BY <1>8, <1>d, <2>4 DEF HandleTerminating
  <1>9. CASE Rescan
    <2>1. ASSUME NEW n \in Node, Has(row', n)
          PROVE  \/ Has(row, n) /\ row'[n].ip = row[n].ip
                 \/ Answers(n) /\ row'[n].ip = addr[n] /\ ~Conflict(row, n, addr[n])
      <3>1. CASE row'[n] = row[n]
        BY <2>1, <3>1 DEF Has
      <3>2. CASE Answers(n) /\ ~Has(row, n) /\ row'[n] = Upsert(row, n, addr[n])[n]
        <4>1. addr[n] \in Addr
          BY <3>2 DEF Answers, Alive, Provenance, Launched
        <4>2. ~Conflict(row, n, addr[n])
          BY <2>1, <3>2 DEF Upsert, Has
        <4>3. row'[n].ip = addr[n]
          BY <1>0, <2>1, <3>2, <4>1, UpsertRow DEF Has
        <4> QED
          BY <3>2, <4>2, <4>3
      <3>3. CASE Has(row, n) /\ row'[n] = [row[n] EXCEPT !.status = "unreachable"]
        <4>1. row[n] \in Row
          BY <1>0, <3>3 DEF Has, Table
        <4> QED
          BY <3>3, <4>1 DEF Row
      <3> QED
        BY <1>9, <3>1, <3>2, <3>3 DEF Rescan
    <2>2. OneRow(row')
      <3> SUFFICES ASSUME NEW m \in Node, NEW n \in Node, Has(row', m), Has(row', n),
                          row'[m].ip = row'[n].ip
                   PROVE  m = n
        BY DEF OneRow
      <3>1. CASE Has(row, m) /\ row'[m].ip = row[m].ip /\ Has(row, n) /\ row'[n].ip = row[n].ip
        BY <1>0, <3>1 DEF OneRow
      <3>2. CASE Answers(m) /\ row'[m].ip = addr[m] /\ Answers(n) /\ row'[n].ip = addr[n]
        BY <1>0, <3>2 DEF Answers, Live
      <3>3. ASSUME NEW k \in Node, NEW l \in Node, row'[k].ip = row'[l].ip,
                   Has(row, k), row'[k].ip = row[k].ip,
                   row'[l].ip = addr[l], ~Conflict(row, l, addr[l])
            PROVE  k = l
        BY <3>3 DEF Conflict
      <3> QED
        BY <2>1, <3>1, <3>2, <3>3
    <2> QED
      BY <1>9, <1>a, <1>b, <2>2 DEF Rescan
  <1>10. ASSUME NEW n \in Node, StoreMetadata(n) PROVE OneHolder'
    <2>1. CASE upd[n].kind = "unreachable"
      <3>1. "unreachable" \in Statuses
        BY DEF Statuses
      <3>2. row' = SetStatus(row, n, "unreachable")
        BY <1>10, <2>1 DEF StoreMetadata
      <3>3. KeepsAddresses(row, row')
        BY <1>0, <3>1, <3>2, SetStatusRow
      <3> QED
        BY <1>10, <1>d, <3>3 DEF StoreMetadata
    <2>2. CASE upd[n].kind # "unreachable"
      <3>1. /\ upd[n].ocid \in Node /\ upd[n].was \in Statuses
            /\ upd[n].compute_status \in ComputeStatuses
        BY <1>10, <2>2 DEF StoreMetadata, Updates, ComputeStatuses, Done, TypeOK
      <3>2. row' = StoreInfo(row, n, upd[n].ocid, upd[n].compute_status, upd[n].was)
        BY <1>10, <2>2 DEF StoreMetadata
      <3>3. OneRow(row')
        BY <1>0, <3>1, <3>2, StoreInfoOneRow
      <3> QED
        BY <1>10, <1>a, <1>b, <3>3 DEF StoreMetadata
    <2> QED
      BY <2>1, <2>2
  <1>11. CASE StartPass \/ EndScan \/ Fetch \/ Snapshot \/ Playbook \/ EndPass \/ Crash \/ Sync
    BY <1>11, <1>c DEF StartPass, EndScan, Fetch, Snapshot, Playbook, PlayQuery, PlayDelete,
         PlaySucceeds, PlayFails, EndPass, Crash, Sync
  <1>12. ASSUME NEW n \in Node, MarkConfigured(n) PROVE OneHolder'
    <2>1. KeepsAddresses(row, row')
      BY <1>0, <1>12, SetControllerRow DEF MarkConfigured, ControllerStatuses
    <2> QED
      BY <1>12, <1>d, <2>1 DEF MarkConfigured
  <1>13. ASSUME NEW n \in Node, MoveTerminated(n) \/ DeleteRow(n) PROVE OneHolder'
    <2>1. KeepsAddresses(row, row')
      BY <1>0, <1>13, RemoveRow DEF MoveTerminated, DeleteRow
    <2> QED
      BY <1>13, <1>d, <2>1 DEF MoveTerminated, DeleteRow
  <1>14. ASSUME NEW n \in Node, Terminate(n) PROVE OneHolder'
    <2> DEFINE u == SetStatus(row, n, "terminating")
    <2>1. "terminating" \in Statuses /\ "terminating" \in ControllerStatuses
      BY DEF ControllerStatuses, Statuses
    <2>2. u \in Table /\ KeepsAddresses(row, u)
      BY <1>0, <2>1, SetStatusRow
    <2>3. row' = SetController(u, n, "terminating")
      BY <1>14 DEF Terminate
    <2> HIDE DEF u
    <2>4. KeepsAddresses(row, row')
      BY <2>1, <2>2, <2>3, SetControllerRow, KeepsTransitive
    <2> QED
      BY <1>14, <1>d, <2>4 DEF Terminate
  <1>15. ASSUME NEW n \in Node, Submit(n) \/ ConsoleTerminate(n) PROVE OneHolder'
    BY <1>15, <1>e DEF Submit, ConsoleTerminate, BeginTermination, Alive, TypeOK
  <1>16. ASSUME NEW n \in Node, Reconfigure(n) PROVE OneHolder'
    <2>1. KeepsAddresses(row, row')
      BY <1>0, <1>16, SetControllerRow DEF Reconfigure, ControllerStatuses
    <2> QED
      BY <1>16, <1>d, <2>1 DEF Reconfigure
  <1>17. ASSUME NEW n \in Node, ReconfigureAll(n) PROVE OneHolder'
    <2> DEFINE u == SetController(row, n, "reconfiguring")
    <2>1. "reconfiguring" \in ControllerStatuses /\ "starting" \in ComputeStatuses
      BY DEF ComputeStatuses, ControllerStatuses
    <2>2. u \in Table /\ KeepsAddresses(row, u)
      BY <1>0, <2>1, SetControllerRow
    <2>3. row' = SetCompute(u, n, "starting")
      BY <1>17 DEF ReconfigureAll
    <2> HIDE DEF u
    <2>4. KeepsAddresses(row, row')
      BY <2>1, <2>2, <2>3, SetComputeRow, KeepsTransitive
    <2> QED
      BY <1>17, <1>d, <2>4 DEF ReconfigureAll
  <1>18. ASSUME NEW n \in Node, CloudInit(n) \/ Reboot(n) PROVE OneHolder'
    BY <1>18, <1>c DEF CloudInit, Reboot
  <1>19. ASSUME NEW n \in Node, MarkRebooted(n) PROVE OneHolder'
    <2>1. KeepsAddresses(row, row')
      BY <1>0, <1>19, SetComputeRow DEF MarkRebooted, ComputeStatuses
    <2> QED
      BY <1>19, <1>d, <2>1 DEF MarkRebooted
  <1>20. ASSUME NEW n \in Node, AddRow(n) PROVE OneHolder'
    <2>1. addr[n] \in Addr
      BY <1>20 DEF AddRow, Answers, Alive, Provenance, Launched
    <2>2. OneRow(row')
      BY <1>0, <1>20, <2>1, UpsertOneRow DEF AddRow
    <2> QED
      BY <1>20, <1>a, <1>b, <2>2 DEF AddRow
  <1>21. CASE UNCHANGED vars
    BY <1>21, <1>c DEF vars
  <1> QED
    BY <1>1, <1>2, <1>3, <1>4, <1>5, <1>6, <1>7, <1>8, <1>9, <1>10, <1>11, <1>12, <1>13, <1>14,
       <1>15, <1>16, <1>17, <1>18, <1>19, <1>20, <1>21
    DEF Next, World, ServiceRow, ServicePhase, SecondHalf, FirstHalf

(* Every step preserves Requested: it is here that a stale `terminating`     *)
(* message, a replay or an adopted row could retire a node nobody gave up.   *)
LEMMA RequestedStep ==
  ASSUME TypeOK, Provenance, Requested, [Next]_vars
  PROVE  Requested'
PROOF
  <1>0. row \in Table /\ "terminating" \in ControllerStatuses
    BY DEF TypeOK, ControllerStatuses
  <1>1. ASSUME NEW n \in Node, NEW a \in Addr, Launch(n, a) PROVE Requested'
    BY <1>1 DEF Launch, Provenance, Launched, InState, TypeOK, Requested, AskedAt
  <1>2. ASSUME NEW n \in Node, WebServerUp(n) PROVE Requested'
    BY <1>2 DEF WebServerUp, TypeOK, Requested, AskedAt
  <1>3. ASSUME NEW n \in Node, SlurmdJoins(n) PROVE Requested'
    BY <1>3 DEF SlurmdJoins, TypeOK, Requested, AskedAt
  <1>4. ASSUME NEW n \in Node, NodeConfigured(n) PROVE Requested'
    BY <1>4 DEF NodeConfigured, TypeOK, Requested, AskedAt
  <1>5. ASSUME NEW n \in Node, InstanceGone(n) PROVE Requested'
    BY <1>5 DEF InstanceGone, TypeOK, Requested, AskedAt
  <1>6. ASSUME NEW m \in Message, FunctionPuts(m) PROVE Requested'
    BY <1>6 DEF FunctionPuts, TypeOK, Requested, AskedAt
  <1>7. ASSUME NEW m \in Message, FunctionFails(m) PROVE Requested'
    BY <1>7 DEF FunctionFails, TypeOK, Requested, AskedAt
  <1>8. CASE VisibilityTimeout
    BY <1>8 DEF VisibilityTimeout, TypeOK, Requested, AskedAt
  <1>9. CASE StartPass
    BY <1>9 DEF StartPass, GoTo, TypeOK, Requested, AskedAt
  <1>10. ASSUME NEW n \in Node, HandleStarting(n) PROVE Requested'
    <2>1. addr[n] \in Addr
      BY <1>10 DEF HandleStarting, Provenance, Launched
    <2>2. \A m \in Node : InState(row', m, "terminating") => InState(row, m, "terminating")
      BY <1>0, <1>10, <2>1, UpsertRow DEF HandleStarting, Has, InState, KeepsOthers
    <2> QED
      BY <1>10, <2>2 DEF HandleStarting, Acknowledge, TypeOK, Requested, AskedAt
  <1>11. ASSUME NEW n \in Node, HandleTerminating(n) PROVE Requested'
    <2> DEFINE u == SetController(row, n, "terminating")
    <2>1. "terminating" \in ControllerStatuses /\ "terminating" \in ComputeStatuses
      BY DEF ComputeStatuses, ControllerStatuses
    <2>2. u \in Table
      BY <1>0, <2>1, SetControllerRow
    <2>3. row' = SetCompute(u, n, "terminating")
      BY <1>11 DEF HandleTerminating
    <2>4. \A m \in Node : InState(u, m, "terminating") => InState(row, m,
       "terminating") \/ m = n
      BY <1>0, <2>1, SetControllerRow DEF SameStates
    <2> HIDE DEF u
    <2>5. \A m \in Node : InState(row', m, "terminating") => InState(row, m,
       "terminating") \/ m = n
      BY <1>0, <2>1, <2>2, <2>3, <2>4, SetComputeRow DEF SameStates
    <2> QED
      BY <1>11, <2>5 DEF HandleTerminating, Acknowledge, TypeOK, Requested, AskedAt
  <1>12. CASE EndScan
    BY <1>12 DEF EndScan, GoTo, TypeOK, Requested, AskedAt
  <1>13. CASE Rescan
    <2>1. ASSUME NEW n \in Node, InState(row', n, "terminating")
          PROVE  InState(row, n, "terminating")
      <3>1. CASE row'[n] = row[n]
        BY <2>1, <3>1 DEF InState, Has
      <3>2. CASE Answers(n) /\ ~Has(row, n) /\ row'[n] = Upsert(row, n, addr[n])[n]
        <4>1. addr[n] \in Addr
          BY <3>2 DEF Answers, Alive, Provenance, Launched
        <4> QED
          BY <1>0, <2>1, <3>2, <4>1, UpsertRow DEF InState, Has
      <3>3. CASE Has(row, n) /\ row'[n] = [row[n] EXCEPT !.status = "unreachable"]
        <4>1. row[n] \in Row
          BY <1>0, <3>3 DEF Has, Table
        <4> QED
          BY <2>1, <3>3, <4>1 DEF Row, InState
      <3> QED
        BY <1>13, <3>1, <3>2, <3>3 DEF Rescan
    <2> QED
      BY <1>13, <2>1 DEF Rescan, TypeOK, Requested, AskedAt
  <1>14. CASE Fetch
    BY <1>14 DEF Fetch, TypeOK, Requested, AskedAt
  <1>15. ASSUME NEW n \in Node, StoreMetadata(n) PROVE Requested'
    <2>1. ASSUME NEW m \in Node, InState(row', m, "terminating")
          PROVE  AskedAt(addr[m])
      <3>1. CASE upd[n].kind = "unreachable"
        <4>1. "unreachable" \in Statuses
          BY DEF Statuses
        <4>2. row' = SetStatus(row, n, "unreachable")
          BY <1>15, <3>1 DEF StoreMetadata
        <4>3. SameStates(row, row')
          BY <1>0, <4>1, <4>2, SetStatusRow
        <4> QED
          BY <1>0, <2>1, <4>3 DEF SameStates, Requested
      <3>2. CASE upd[n].kind # "unreachable"
        <4>1. /\ upd[n].kind = "info" /\ upd[n].ocid \in Node /\ upd[n].was \in Statuses
              /\ upd[n].compute_status \in ComputeStatuses
          BY <1>15, <3>2 DEF StoreMetadata, Updates, ComputeStatuses, Done, TypeOK
        <4>2. row' = StoreInfo(row, n, upd[n].ocid, upd[n].compute_status, upd[n].was)
          BY <1>15, <3>2 DEF StoreMetadata
        <4>3. \/ InState(row, m, "terminating")
              \/ m = upd[n].ocid /\ InState(row, n, "terminating")
          BY <1>0, <2>1, <4>1, <4>2, StoreInfoRow DEF InState, Has
        <4> QED
          BY <4>1, <4>3 DEF Provenance, Requested
      <3> QED
        BY <3>1, <3>2
    <2> QED
      BY <1>15, <2>1 DEF StoreMetadata, TypeOK, Requested, AskedAt
  <1>16. CASE Snapshot
    BY <1>16 DEF Snapshot, TypeOK, Requested, AskedAt
  <1>17. CASE Playbook
    BY <1>17 DEF Playbook, PlayQuery, PlayDelete, PlaySucceeds, PlayFails, GoTo, TypeOK, Requested, AskedAt
  <1>18. ASSUME NEW n \in Node, MarkConfigured(n) PROVE Requested'
    <2>1. "configured" \in ControllerStatuses
      BY DEF ControllerStatuses
    <2>2. row' = SetController(row, n, "configured")
      BY <1>18 DEF MarkConfigured
    <2>3. \A m \in Node : InState(row', m, "terminating") => InState(row, m, "terminating")
      BY <1>0, <2>1, <2>2, SetControllerRow
    <2> QED
      BY <1>18, <2>3 DEF MarkConfigured, TypeOK, Requested, AskedAt
  <1>19. ASSUME NEW n \in Node, MoveTerminated(n) PROVE Requested'
    <2>2. row' = Remove(row, n)
      BY <1>19 DEF MoveTerminated
    <2>3. \A m \in Node : InState(row', m, "terminating") => InState(row, m, "terminating")
      BY <1>0, <2>2, RemoveRow DEF KeepsOthers, InState, Has
    <2> QED
      BY <1>19, <2>3 DEF MoveTerminated, TypeOK, Requested, AskedAt
  <1>20. CASE EndPass
    BY <1>20 DEF EndPass, GoTo, TypeOK, Requested, AskedAt
  <1>21. ASSUME NEW n \in Node, Terminate(n) PROVE Requested'
    <2> DEFINE u == SetStatus(row, n, "terminating")
    <2>1. "terminating" \in Statuses /\ "terminating" \in ControllerStatuses
      BY DEF ControllerStatuses, Statuses
    <2>2. u \in Table
      BY <1>0, <2>1, SetStatusRow
    <2>3. row' = SetController(u, n, "terminating")
      BY <1>21 DEF Terminate
    <2>4. \A m \in Node : InState(u, m, "terminating") => InState(row, m,
       "terminating") \/ m = n
      BY <1>0, <2>1, SetStatusRow DEF SameStates
    <2> HIDE DEF u
    <2>5. \A m \in Node : InState(row', m, "terminating") => InState(row, m,
       "terminating") \/ m = n
      BY <1>0, <2>1, <2>2, <2>3, <2>4, SetControllerRow DEF SameStates
    <2> QED
      BY <1>21, <2>5 DEF Terminate, TypeOK, Requested, AskedAt
  <1>22. ASSUME NEW n \in Node, Submit(n) PROVE Requested'
    BY <1>22 DEF Submit, BeginTermination, TypeOK, Requested, AskedAt
  <1>23. ASSUME NEW n \in Node, ConsoleTerminate(n) PROVE Requested'
    BY <1>23 DEF ConsoleTerminate, BeginTermination, TypeOK, Requested, AskedAt
  <1>24. ASSUME NEW n \in Node, Reconfigure(n) PROVE Requested'
    <2>1. "reconfiguring" \in ControllerStatuses
      BY DEF ControllerStatuses
    <2>2. row' = SetController(row, n, "reconfiguring")
      BY <1>24 DEF Reconfigure
    <2>3. \A m \in Node : InState(row', m, "terminating") => InState(row, m, "terminating")
      BY <1>0, <2>1, <2>2, SetControllerRow
    <2> QED
      BY <1>24, <2>3 DEF Reconfigure, TypeOK, Requested, AskedAt
  <1>25. ASSUME NEW n \in Node, ReconfigureAll(n) PROVE Requested'
    <2> DEFINE u == SetController(row, n, "reconfiguring")
    <2>1. "reconfiguring" \in ControllerStatuses /\ "starting" \in ComputeStatuses
      BY DEF ComputeStatuses, ControllerStatuses
    <2>2. u \in Table
      BY <1>0, <2>1, SetControllerRow
    <2>3. row' = SetCompute(u, n, "starting")
      BY <1>25 DEF ReconfigureAll
    <2>4. \A m \in Node : InState(u, m, "terminating") => InState(row, m, "terminating")
      BY <1>0, <2>1, SetControllerRow DEF SameStates
    <2> HIDE DEF u
    <2>5. \A m \in Node : InState(row', m, "terminating") => InState(row, m, "terminating")
      BY <1>0, <2>1, <2>2, <2>3, <2>4, SetComputeRow DEF SameStates
    <2> QED
      BY <1>25, <2>5 DEF ReconfigureAll, TypeOK, Requested, AskedAt
  <1>26. ASSUME NEW n \in Node, CloudInit(n) PROVE Requested'
    BY <1>26 DEF CloudInit, TypeOK, Requested, AskedAt
  <1>27. ASSUME NEW n \in Node, Reboot(n) PROVE Requested'
    BY <1>27 DEF Reboot, TypeOK, Requested, AskedAt
  <1>28. ASSUME NEW n \in Node, MarkRebooted(n) PROVE Requested'
    <2>1. "starting" \in ComputeStatuses
      BY DEF ComputeStatuses
    <2>2. row' = SetCompute(row, n, "starting")
      BY <1>28 DEF MarkRebooted
    <2>3. \A m \in Node : InState(row', m, "terminating") => InState(row, m, "terminating")
      BY <1>0, <2>1, <2>2, SetComputeRow DEF SameStates
    <2> QED
      BY <1>28, <2>3 DEF MarkRebooted, TypeOK, Requested, AskedAt
  <1>29. ASSUME NEW n \in Node, AddRow(n) PROVE Requested'
    <2>1. addr[n] \in Addr
      BY <1>29 DEF AddRow, Answers, Alive, Provenance, Launched
    <2>2. \A m \in Node : InState(row', m, "terminating") => InState(row, m, "terminating")
      BY <1>0, <1>29, <2>1, UpsertRow DEF AddRow, Has, InState, KeepsOthers
    <2> QED
      BY <1>29, <2>2 DEF AddRow, TypeOK, Requested, AskedAt
  <1>30. ASSUME NEW n \in Node, DeleteRow(n) PROVE Requested'
    <2>2. row' = Remove(row, n)
      BY <1>30 DEF DeleteRow
    <2>3. \A m \in Node : InState(row', m, "terminating") => InState(row, m, "terminating")
      BY <1>0, <2>2, RemoveRow DEF KeepsOthers, InState, Has
    <2> QED
      BY <1>30, <2>3 DEF DeleteRow, TypeOK, Requested, AskedAt
  <1>31. CASE Sync
    BY <1>31 DEF Sync, Alive, Provenance, Launched, TypeOK, Requested, AskedAt
  <1>32. CASE UNCHANGED vars
    BY <1>32 DEF vars, TypeOK, Requested, AskedAt
  <1>33. CASE Crash
    BY <1>33 DEF Crash, TypeOK, Requested, AskedAt
  <1> QED
    BY <1>1, <1>2, <1>3, <1>4, <1>5, <1>6, <1>7, <1>8, <1>9, <1>10, <1>11, <1>12, <1>13, <1>14,
       <1>15, <1>16, <1>17, <1>18, <1>19, <1>20, <1>21, <1>22, <1>23, <1>24, <1>25, <1>26,
          <1>27, <1>28, <1>29, <1>30, <1>31, <1>32, <1>33
    DEF Next, World, Bus, ServiceRow, ServicePhase, SecondHalf, FirstHalf

(* Every step preserves SnapshotHolds: whoever writes a row while the pass   *)
(* holds a snapshot either keeps what the snapshot says or is in `late`.     *)
LEMMA SnapshotStep ==
  ASSUME TypeOK, SnapshotHolds, [Next]_vars
  PROVE  SnapshotHolds'
PROOF
  <1> USE DEF Playing
  <1>0. row \in Table
    BY DEF TypeOK
  <1>1. ASSUME NEW n \in Node, NEW a \in Addr, Launch(n, a) PROVE SnapshotHolds'
    BY <1>1 DEF Launch, TypeOK, SnapshotHolds, ToAdd, InState, Has
  <1>2. ASSUME NEW n \in Node, WebServerUp(n) PROVE SnapshotHolds'
    BY <1>2 DEF WebServerUp, TypeOK, SnapshotHolds, ToAdd, InState, Has
  <1>3. ASSUME NEW n \in Node, SlurmdJoins(n) PROVE SnapshotHolds'
    BY <1>3 DEF SlurmdJoins, TypeOK, SnapshotHolds, ToAdd, InState, Has
  <1>4. ASSUME NEW n \in Node, NodeConfigured(n) PROVE SnapshotHolds'
    BY <1>4 DEF NodeConfigured, TypeOK, SnapshotHolds, ToAdd, InState, Has
  <1>5. ASSUME NEW n \in Node, InstanceGone(n) PROVE SnapshotHolds'
    BY <1>5 DEF InstanceGone, TypeOK, SnapshotHolds, ToAdd, InState, Has
  <1>6. ASSUME NEW m \in Message, FunctionPuts(m) PROVE SnapshotHolds'
    BY <1>6 DEF FunctionPuts, TypeOK, SnapshotHolds, ToAdd, InState, Has
  <1>7. ASSUME NEW m \in Message, FunctionFails(m) PROVE SnapshotHolds'
    BY <1>7 DEF FunctionFails, TypeOK, SnapshotHolds, ToAdd, InState, Has
  <1>8. CASE VisibilityTimeout
    BY <1>8 DEF VisibilityTimeout, TypeOK, SnapshotHolds, ToAdd, InState, Has
  <1>9. CASE StartPass
    BY <1>9 DEF StartPass, GoTo, TypeOK, SnapshotHolds, ToAdd, InState, Has
  <1>10. ASSUME NEW n \in Node, HandleStarting(n) PROVE SnapshotHolds'
    BY <1>10 DEF HandleStarting, TypeOK, SnapshotHolds, ToAdd, InState, Has
  <1>11. ASSUME NEW n \in Node, HandleTerminating(n) PROVE SnapshotHolds'
    BY <1>11 DEF HandleTerminating, TypeOK, SnapshotHolds, ToAdd, InState, Has
  <1>12. CASE EndScan
    BY <1>12 DEF EndScan, GoTo, TypeOK, SnapshotHolds, ToAdd, InState, Has
  <1>13. CASE Rescan
    BY <1>13 DEF Rescan, GoTo, TypeOK, SnapshotHolds, ToAdd, InState, Has
  <1>14. CASE Fetch
    BY <1>14 DEF Fetch, GoTo, TypeOK, SnapshotHolds, ToAdd, InState, Has
  <1>15. ASSUME NEW n \in Node, StoreMetadata(n) PROVE SnapshotHolds'
    BY <1>15 DEF StoreMetadata, TypeOK, SnapshotHolds, ToAdd, InState, Has
  <1>16. CASE Snapshot
    BY <1>16 DEF Snapshot, Configuring, TypeOK, SnapshotHolds, ToAdd, InState, Has
  <1>17. CASE Playbook
    <2>1. CASE PlayQuery
      BY <2>1 DEF PlayQuery, GoTo, ToRemove, TypeOK, SnapshotHolds, ToAdd, InState, Has
    <2>2. CASE PlayDelete
      BY <2>2 DEF PlayDelete, GoTo, TypeOK, SnapshotHolds, ToAdd, InState, Has
    <2>3. CASE PlaySucceeds
      BY <2>3 DEF PlaySucceeds, GoTo, TypeOK, SnapshotHolds, ToAdd, InState, Has
    <2>4. CASE PlayFails
      BY <2>4 DEF PlayFails, GoTo, SnapshotHolds
    <2> QED
      BY <1>17, <2>1, <2>2, <2>3, <2>4 DEF Playbook
  <1>18. ASSUME NEW n \in Node, MarkConfigured(n) PROVE SnapshotHolds'
    <2>1. "configured" \in ControllerStatuses
      BY DEF ControllerStatuses
    <2>2. row' = SetController(row, n, "configured")
      BY <1>18 DEF MarkConfigured
    <2>3. KeepsAddresses(row, row') /\ KeepsOthers(row, row', n)
      BY <1>0, <2>1, <2>2, SetControllerRow
    <2>4. \A m \in Node \ {n} : \A c : InState(row', m, c) <=> InState(row, m, c)
      BY <2>3 DEF KeepsOthers, InState, Has
    <2>5. conf' \subseteq conf /\ n \notin conf' /\ n \notin term
      BY <1>18 DEF MarkConfigured, SnapshotHolds
    <2>6. \A m \in conf' : m \in ToAdd' \cup late
      BY <1>18, <2>4, <2>5 DEF MarkConfigured, SnapshotHolds, ToAdd, TypeOK
    <2>7. \A m \in term : InState(row', m, "terminating") \/ m \in late
      BY <1>18, <2>4, <2>5 DEF MarkConfigured, SnapshotHolds, TypeOK
    <2> QED
      BY <1>18, <2>3, <2>5, <2>6, <2>7 DEF MarkConfigured, KeepsAddresses, SnapshotHolds, TypeOK
  <1>19. ASSUME NEW n \in Node, MoveTerminated(n) PROVE SnapshotHolds'
    <2>1. row' = Remove(row, n)
      BY <1>19 DEF MoveTerminated
    <2>2. KeepsAddresses(row, row') /\ KeepsOthers(row, row', n)
      BY <1>0, <2>1, RemoveRow
    <2>3. \A m \in Node \ {n} : \A c : InState(row', m, c) <=> InState(row, m, c)
      BY <2>2 DEF KeepsOthers, InState, Has
    <2> QED
      BY <1>19, <2>2, <2>3 DEF MoveTerminated, KeepsAddresses, SnapshotHolds, TypeOK
  <1>20. CASE EndPass
    BY <1>20 DEF EndPass, GoTo, TypeOK, SnapshotHolds, ToAdd, InState, Has
  <1>21. ASSUME NEW n \in Node, Terminate(n) PROVE SnapshotHolds'
    <2> DEFINE u == SetStatus(row, n, "terminating")
    <2>1. "terminating" \in Statuses /\ "terminating" \in ControllerStatuses
      BY DEF ControllerStatuses, Statuses
    <2>2. u \in Table /\ KeepsOthers(row, u, n)
      BY <1>0, <2>1, SetStatusRow
    <2>3. row' = SetController(u, n, "terminating")
      BY <1>21 DEF Terminate
    <2> HIDE DEF u
    <2>4. KeepsOthers(u, row', n)
      BY <2>1, <2>2, <2>3, SetControllerRow
    <2>5. KeepsOthers(row, row', n)
      BY <2>2, <2>4 DEF KeepsOthers
    <2> QED
      BY <1>21, <2>5
         DEF Terminate, KeepsOthers, Rewrites, TypeOK, SnapshotHolds, ToAdd, InState, Has
  <1>22. ASSUME NEW n \in Node, Submit(n) PROVE SnapshotHolds'
    BY <1>22 DEF Submit, TypeOK, SnapshotHolds, ToAdd, InState, Has
  <1>23. ASSUME NEW n \in Node, ConsoleTerminate(n) PROVE SnapshotHolds'
    BY <1>23 DEF ConsoleTerminate, TypeOK, SnapshotHolds, ToAdd, InState, Has
  <1>24. ASSUME NEW n \in Node, Reconfigure(n) PROVE SnapshotHolds'
    <2>1. "reconfiguring" \in ControllerStatuses
      BY DEF ControllerStatuses
    <2>2. row' = SetController(row, n, "reconfiguring")
      BY <1>24 DEF Reconfigure
    <2>3. KeepsOthers(row, row', n)
      BY <1>0, <2>1, <2>2, SetControllerRow
    <2> QED
      BY <1>24, <2>3
         DEF Reconfigure, KeepsOthers, Rewrites, TypeOK, SnapshotHolds, ToAdd, InState, Has
  <1>25. ASSUME NEW n \in Node, ReconfigureAll(n) PROVE SnapshotHolds'
    <2> DEFINE u == SetController(row, n, "reconfiguring")
    <2>1. "reconfiguring" \in ControllerStatuses /\ "starting" \in ComputeStatuses
      BY DEF ComputeStatuses, ControllerStatuses
    <2>2. u \in Table /\ KeepsOthers(row, u, n)
      BY <1>0, <2>1, SetControllerRow
    <2>3. row' = SetCompute(u, n, "starting")
      BY <1>25 DEF ReconfigureAll
    <2> HIDE DEF u
    <2>4. KeepsOthers(u, row', n)
      BY <2>1, <2>2, <2>3, SetComputeRow
    <2>5. KeepsOthers(row, row', n)
      BY <2>2, <2>4 DEF KeepsOthers
    <2> QED
      BY <1>25, <2>5
         DEF ReconfigureAll, KeepsOthers, Rewrites, TypeOK, SnapshotHolds, ToAdd, InState, Has
  <1>26. ASSUME NEW n \in Node, CloudInit(n) PROVE SnapshotHolds'
    BY <1>26 DEF CloudInit, TypeOK, SnapshotHolds, ToAdd, InState, Has
  <1>27. ASSUME NEW n \in Node, Reboot(n) PROVE SnapshotHolds'
    BY <1>27 DEF Reboot, TypeOK, SnapshotHolds, ToAdd, InState, Has
  <1>28. ASSUME NEW n \in Node, MarkRebooted(n) PROVE SnapshotHolds'
    <2>1. "starting" \in ComputeStatuses
      BY DEF ComputeStatuses
    <2>2. row' = SetCompute(row, n, "starting")
      BY <1>28 DEF MarkRebooted
    <2>3. KeepsAddresses(row, row') /\ SameStates(row, row')
      BY <1>0, <2>1, <2>2, SetComputeRow
    <2>4. ToAdd' = ToAdd
      BY <2>3 DEF ToAdd, SameStates, ControllerStatuses
    <2>5. \A m \in Node : InState(row, m, "terminating") => InState(row', m, "terminating")
      BY <2>3 DEF SameStates, ControllerStatuses
    <2> QED
      BY <1>28, <2>3, <2>4, <2>5 DEF MarkRebooted, KeepsAddresses, SnapshotHolds, TypeOK
  <1>29. ASSUME NEW n \in Node, AddRow(n) PROVE SnapshotHolds'
    <2>1. KeepsOthers(row, row', n)
      BY <1>29 DEF AddRow, Upsert, KeepsOthers, TypeOK, Table
    <2> QED
      BY <1>29, <2>1
         DEF AddRow, KeepsOthers, Rewrites, TypeOK, SnapshotHolds, ToAdd, InState, Has
  <1>30. ASSUME NEW n \in Node, DeleteRow(n) PROVE SnapshotHolds'
    <2>2. row' = Remove(row, n)
      BY <1>30 DEF DeleteRow
    <2>3. KeepsOthers(row, row', n)
      BY <1>0, <2>2, RemoveRow
    <2> QED
      BY <1>30, <2>3
         DEF DeleteRow, KeepsOthers, Rewrites, TypeOK, SnapshotHolds, ToAdd, InState, Has
  <1>31. CASE Sync
    BY <1>31 DEF Sync, TypeOK, SnapshotHolds, ToAdd, InState, Has
  <1>32. CASE UNCHANGED vars
    BY <1>32 DEF vars, TypeOK, SnapshotHolds, ToAdd, InState, Has
  <1>33. CASE Crash
    BY <1>33 DEF Crash, SnapshotHolds
  <1> QED
    BY <1>1, <1>2, <1>3, <1>4, <1>5, <1>6, <1>7, <1>8, <1>9, <1>10, <1>11, <1>12, <1>13, <1>14,
       <1>15, <1>16, <1>17, <1>18, <1>19, <1>20, <1>21, <1>22, <1>23, <1>24, <1>25, <1>26,
          <1>27, <1>28, <1>29, <1>30, <1>31, <1>32, <1>33
    DEF Next, World, Bus, ServiceRow, ServicePhase, SecondHalf, FirstHalf

\* The action of ConfiguredByPlaybook.
ByPlaybook ==
  \A n \in Node :
    (Has(row, n) /\ ~InState(row, n, "configured") /\ InState(row', n, "configured"))
      => (n \in added \/ n \in late)

(* No step but the pass's last writes `configured`.                          *)
LEMMA ConfiguredStep ==
  ASSUME TypeOK, Provenance, SnapshotHolds, [Next]_vars
  PROVE  ByPlaybook
PROOF
  <1>0. row \in Table /\ "configured" \in ControllerStatuses
    BY DEF TypeOK, ControllerStatuses
  <1>1. ASSUME NEW n \in Node, NEW a \in Addr, Launch(n, a) PROVE ByPlaybook
    BY <1>1 DEF Launch, ByPlaybook
  <1>2. ASSUME NEW n \in Node, WebServerUp(n) PROVE ByPlaybook
    BY <1>2 DEF WebServerUp, ByPlaybook
  <1>3. ASSUME NEW n \in Node, SlurmdJoins(n) PROVE ByPlaybook
    BY <1>3 DEF SlurmdJoins, ByPlaybook
  <1>4. ASSUME NEW n \in Node, NodeConfigured(n) PROVE ByPlaybook
    BY <1>4 DEF NodeConfigured, ByPlaybook
  <1>5. ASSUME NEW n \in Node, InstanceGone(n) PROVE ByPlaybook
    BY <1>5 DEF InstanceGone, ByPlaybook
  <1>6. ASSUME NEW m \in Message, FunctionPuts(m) PROVE ByPlaybook
    BY <1>6 DEF FunctionPuts, ByPlaybook
  <1>7. ASSUME NEW m \in Message, FunctionFails(m) PROVE ByPlaybook
    BY <1>7 DEF FunctionFails, ByPlaybook
  <1>8. CASE VisibilityTimeout
    BY <1>8 DEF VisibilityTimeout, ByPlaybook
  <1>9. CASE StartPass
    BY <1>9 DEF StartPass, ByPlaybook
  <1>10. ASSUME NEW n \in Node, HandleStarting(n) PROVE ByPlaybook
    <2>1. addr[n] \in Addr
      BY <1>10 DEF HandleStarting, Provenance, Launched
    <2>2. \A m \in Node : InState(row', m, "configured") => InState(row, m, "configured")
      BY <1>0, <1>10, <2>1, UpsertRow DEF HandleStarting, Has, InState, KeepsOthers
    <2> QED
      BY <2>2 DEF ByPlaybook
  <1>11. ASSUME NEW n \in Node, HandleTerminating(n) PROVE ByPlaybook
    <2> DEFINE u == SetController(row, n, "terminating")
    <2>1. "terminating" \in ControllerStatuses /\ "terminating" \in ComputeStatuses
      BY DEF ComputeStatuses, ControllerStatuses
    <2>2. u \in Table
      BY <1>0, <2>1, SetControllerRow
    <2>3. row' = SetCompute(u, n, "terminating")
      BY <1>11 DEF HandleTerminating
    <2>4. \A m \in Node : InState(u, m, "configured") => InState(row, m, "configured")
      BY <1>0, <2>1, SetControllerRow DEF SameStates
    <2> HIDE DEF u
    <2>5. \A m \in Node : InState(row', m, "configured") => InState(row, m, "configured")
      BY <1>0, <2>1, <2>2, <2>3, <2>4, SetComputeRow DEF SameStates
    <2> QED
      BY <2>5 DEF ByPlaybook
  <1>12. CASE EndScan
    BY <1>12 DEF EndScan, ByPlaybook
  <1>13. CASE Rescan
    <2>1. ASSUME NEW n \in Node, Has(row, n), InState(row', n, "configured")
          PROVE  InState(row, n, "configured")
      <3>1. CASE row'[n] = row[n]
        BY <2>1, <3>1 DEF InState, Has
      <3>2. CASE row'[n] = [row[n] EXCEPT !.status = "unreachable"]
        <4>1. row[n] \in Row
          BY <1>0, <2>1 DEF Has, Table
        <4> QED
          BY <2>1, <3>2, <4>1 DEF Row, InState
      <3> QED
        BY <1>13, <2>1, <3>1, <3>2 DEF Rescan
    <2> QED
      BY <2>1 DEF ByPlaybook
  <1>14. CASE Fetch
    BY <1>14 DEF Fetch, ByPlaybook
  <1>15. ASSUME NEW n \in Node, StoreMetadata(n) PROVE ByPlaybook
    <2>1. ASSUME NEW m \in Node, Has(row, m), InState(row', m, "configured")
          PROVE  InState(row, m, "configured")
      <3>1. CASE upd[n].kind = "unreachable"
        <4>1. "unreachable" \in Statuses
          BY DEF Statuses
        <4>2. row' = SetStatus(row, n, "unreachable")
          BY <1>15, <3>1 DEF StoreMetadata
        <4>3. SameStates(row, row')
          BY <1>0, <4>1, <4>2, SetStatusRow
        <4> QED
          BY <1>0, <2>1, <4>3 DEF SameStates
      <3>2. CASE upd[n].kind # "unreachable"
        <4>1. /\ upd[n].ocid \in Node /\ upd[n].was \in Statuses
              /\ upd[n].compute_status \in ComputeStatuses
          BY <1>15, <3>2 DEF StoreMetadata, Updates, ComputeStatuses, Done, TypeOK
        <4>2. row' = StoreInfo(row, n, upd[n].ocid, upd[n].compute_status, upd[n].was)
          BY <1>15, <3>2 DEF StoreMetadata
        <4> QED
          BY <1>0, <2>1, <4>1, <4>2, StoreInfoRow DEF InState, Has
      <3> QED
        BY <3>1, <3>2
    <2> QED
      BY <2>1 DEF ByPlaybook
  <1>16. CASE Snapshot
    BY <1>16 DEF Snapshot, ByPlaybook
  <1>17. CASE Playbook
    BY <1>17 DEF Playbook, PlayQuery, PlayDelete, PlaySucceeds, PlayFails, ByPlaybook
  <1>18. ASSUME NEW n \in Node, MarkConfigured(n) PROVE ByPlaybook
    <2>1. row' = SetController(row, n, "configured")
      BY <1>18 DEF MarkConfigured
    <2>2. \A m \in Node \ {n} : InState(row', m, "configured") => InState(row, m, "configured")
      BY <1>0, <2>1, SetControllerRow
    <2>3. n \in added \/ n \in late
      BY <1>18 DEF MarkConfigured, SnapshotHolds
    <2> QED
      BY <2>2, <2>3 DEF ByPlaybook
  <1>19. ASSUME NEW n \in Node, MoveTerminated(n) PROVE ByPlaybook
    <2>2. row' = Remove(row, n)
      BY <1>19 DEF MoveTerminated
    <2>3. \A m \in Node : InState(row', m, "configured") => InState(row, m, "configured")
      BY <1>0, <2>2, RemoveRow DEF KeepsOthers, InState, Has
    <2> QED
      BY <2>3 DEF ByPlaybook
  <1>20. CASE EndPass
    BY <1>20 DEF EndPass, ByPlaybook
  <1>21. ASSUME NEW n \in Node, Terminate(n) PROVE ByPlaybook
    <2> DEFINE u == SetStatus(row, n, "terminating")
    <2>1. "terminating" \in Statuses /\ "terminating" \in ControllerStatuses
      BY DEF ControllerStatuses, Statuses
    <2>2. u \in Table
      BY <1>0, <2>1, SetStatusRow
    <2>3. row' = SetController(u, n, "terminating")
      BY <1>21 DEF Terminate
    <2>4. \A m \in Node : InState(u, m, "configured") => InState(row, m, "configured")
      BY <1>0, <2>1, SetStatusRow DEF SameStates
    <2> HIDE DEF u
    <2>5. \A m \in Node : InState(row', m, "configured") => InState(row, m, "configured")
      BY <1>0, <2>1, <2>2, <2>3, <2>4, SetControllerRow DEF SameStates
    <2> QED
      BY <2>5 DEF ByPlaybook
  <1>22. ASSUME NEW n \in Node, Submit(n) PROVE ByPlaybook
    BY <1>22 DEF Submit, ByPlaybook
  <1>23. ASSUME NEW n \in Node, ConsoleTerminate(n) PROVE ByPlaybook
    BY <1>23 DEF ConsoleTerminate, ByPlaybook
  <1>24. ASSUME NEW n \in Node, Reconfigure(n) PROVE ByPlaybook
    <2>1. "reconfiguring" \in ControllerStatuses
      BY DEF ControllerStatuses
    <2>2. row' = SetController(row, n, "reconfiguring")
      BY <1>24 DEF Reconfigure
    <2>3. \A m \in Node : InState(row', m, "configured") => InState(row, m, "configured")
      BY <1>0, <2>1, <2>2, SetControllerRow
    <2> QED
      BY <2>3 DEF ByPlaybook
  <1>25. ASSUME NEW n \in Node, ReconfigureAll(n) PROVE ByPlaybook
    <2> DEFINE u == SetController(row, n, "reconfiguring")
    <2>1. "reconfiguring" \in ControllerStatuses /\ "starting" \in ComputeStatuses
      BY DEF ComputeStatuses, ControllerStatuses
    <2>2. u \in Table
      BY <1>0, <2>1, SetControllerRow
    <2>3. row' = SetCompute(u, n, "starting")
      BY <1>25 DEF ReconfigureAll
    <2>4. \A m \in Node : InState(u, m, "configured") => InState(row, m, "configured")
      BY <1>0, <2>1, SetControllerRow DEF SameStates
    <2> HIDE DEF u
    <2>5. \A m \in Node : InState(row', m, "configured") => InState(row, m, "configured")
      BY <1>0, <2>1, <2>2, <2>3, <2>4, SetComputeRow DEF SameStates
    <2> QED
      BY <2>5 DEF ByPlaybook
  <1>26. ASSUME NEW n \in Node, CloudInit(n) PROVE ByPlaybook
    BY <1>26 DEF CloudInit, ByPlaybook
  <1>27. ASSUME NEW n \in Node, Reboot(n) PROVE ByPlaybook
    BY <1>27 DEF Reboot, ByPlaybook
  <1>28. ASSUME NEW n \in Node, MarkRebooted(n) PROVE ByPlaybook
    <2>1. "starting" \in ComputeStatuses
      BY DEF ComputeStatuses
    <2>2. row' = SetCompute(row, n, "starting")
      BY <1>28 DEF MarkRebooted
    <2>3. \A m \in Node : InState(row', m, "configured") => InState(row, m, "configured")
      BY <1>0, <2>1, <2>2, SetComputeRow DEF SameStates
    <2> QED
      BY <2>3 DEF ByPlaybook
  <1>29. ASSUME NEW n \in Node, AddRow(n) PROVE ByPlaybook
    <2>1. addr[n] \in Addr
      BY <1>29 DEF AddRow, Answers, Alive, Provenance, Launched
    <2>2. \A m \in Node : InState(row', m, "configured") => InState(row, m, "configured")
      BY <1>0, <1>29, <2>1, UpsertRow DEF AddRow, Has, InState, KeepsOthers
    <2> QED
      BY <2>2 DEF ByPlaybook
  <1>30. ASSUME NEW n \in Node, DeleteRow(n) PROVE ByPlaybook
    <2>2. row' = Remove(row, n)
      BY <1>30 DEF DeleteRow
    <2>3. \A m \in Node : InState(row', m, "configured") => InState(row, m, "configured")
      BY <1>0, <2>2, RemoveRow DEF KeepsOthers, InState, Has
    <2> QED
      BY <2>3 DEF ByPlaybook
  <1>31. CASE Sync
    BY <1>31 DEF Sync, ByPlaybook
  <1>32. CASE UNCHANGED vars
    BY <1>32 DEF vars, ByPlaybook
  <1>33. CASE Crash
    BY <1>33 DEF Crash, ByPlaybook
  <1> QED
    BY <1>1, <1>2, <1>3, <1>4, <1>5, <1>6, <1>7, <1>8, <1>9, <1>10, <1>11, <1>12, <1>13, <1>14,
       <1>15, <1>16, <1>17, <1>18, <1>19, <1>20, <1>21, <1>22, <1>23, <1>24, <1>25, <1>26,
          <1>27, <1>28, <1>29, <1>30, <1>31, <1>32, <1>33
    DEF Next, World, Bus, ServiceRow, ServicePhase, SecondHalf, FirstHalf

(***************************************************************************)

LEMMA Initially == Init => IInv
PROOF
  <1> SUFFICES ASSUME Init PROVE IInv
    OBVIOUS
  <1> USE DEF Init
  <1>1. TypeOK
    BY DEF TypeOK, Table, Updates, Done
  <1>2. Provenance
    BY DEF Provenance, Launched, Has, Done
  <1>3. Requested
    BY DEF Requested, InState, Has
  <1>4. SnapshotHolds
    BY DEF SnapshotHolds
  <1>5. OneHolder
    BY DEF OneHolder, Alive, Has
  <1> QED
    BY <1>1, <1>2, <1>3, <1>4, <1>5 DEF IInv

(* IInv holds in every reachable state: the type invariant, where messages,  *)
(* rows and pass data come from, that every trace of a termination goes back *)
(* to a request, and what the pass's snapshot still guarantees.              *)
THEOREM Inductive == Spec => []IInv
PROOF
  <1>1. IInv /\ [Next]_vars => IInv'
    BY TypeStep, ProvenanceStep, HolderStep, RequestedStep, SnapshotStep DEF IInv
  <1> QED
    BY <1>1, Initially, PTL DEF Spec

(* Type correctness of the table, the queue, the pass and the commands.      *)
THEOREM TypeCorrect == Spec => []TypeOK
PROOF
  <1>1. IInv => TypeOK
    BY DEF IInv
  <1> QED
    BY <1>1, Inductive, PTL

(* No OCID reaches terminated_nodes unless somebody asked to terminate the   *)
(* instance or an earlier holder of its address.                             *)
THEOREM NobodyRetiredUnasked == Spec => []ArchivedByRequest
PROOF
  <1>1. IInv => ArchivedByRequest
    BY DEF IInv, Requested, ArchivedByRequest
  <1> QED
    BY <1>1, Inductive, PTL

(* db_move_terminated_node only archives rows that the successful playbook   *)
(* run removed from Slurm, that an operator rewrote, or that never reported. *)
THEOREM PlaybookBeforeArchive == Spec => ClearedBeforeArchived
PROOF
  <1>1. IInv => [\A n \in Node :
           (n \in term \ term' /\ pc = "write" /\ Has(row, n))
             => (n \in cleared \/ n \in late \/ ~row[n].contacted)]_vars
    BY DEF IInv, SnapshotHolds
  <1> QED
    BY <1>1, Inductive, PTL DEF ClearedBeforeArchived

(* A row becomes configured only after a successful playbook run listed it,  *)
(* or an operator rewrote it during the pass.                                *)
THEOREM PlaybookBeforeConfigured == Spec => ConfiguredByPlaybook
PROOF
  <1>1. IInv /\ [Next]_vars => [\A n \in Node :
           (Has(row, n) /\ ~InState(row, n, "configured") /\ InState(row', n, "configured"))
             => (n \in added \/ n \in late)]_vars
    BY ConfiguredStep DEF IInv, ByPlaybook
  <1> QED
    BY <1>1, Inductive, PTL DEF ConfiguredByPlaybook, Spec

(***************************************************************************)
(* The life of an address.                                                 *)
(***************************************************************************)

(* What StageAt makes of an address with and without a row.                  *)
LEMMA StageOfRow ==
  ASSUME NEW t, OneRow(t), NEW n \in Node, Has(t, n)
  PROVE  StageAt(t, t[n].ip) = Stage(t[n].controller_status)
PROOF
  <1> DEFINE holders == {m \in Node : Has(t, m) /\ t[m].ip = t[n].ip}
  <1>1. holders = {n}
    BY DEF OneRow
  <1>2. (CHOOSE m \in holders : TRUE) = n
    BY <1>1
  <1> QED
    BY <1>1, <1>2 DEF StageAt

LEMMA StageOfNone ==
  ASSUME NEW t, NEW a, \A n \in Node : Has(t, n) => t[n].ip # a
  PROVE  StageAt(t, a) = "absent"
PROOF
  BY DEF StageAt

(* Addresses whose rows keep their stage keep it.                            *)
LEMMA StageKept ==
  ASSUME NEW t, NEW u, OneRow(t), OneRow(u), NEW a,
         \A n \in Node : Has(t, n) /\ t[n].ip = a =>
           \E m \in Node : Has(u, m) /\ u[m].ip = a
                           /\ Stage(u[m].controller_status) = Stage(t[n].controller_status),
         \A m \in Node : Has(u, m) /\ u[m].ip = a => \E n \in Node : Has(t, n) /\ t[n].ip = a
  PROVE  StageAt(u, a) = StageAt(t, a)
PROOF
  <1>1. CASE \A n \in Node : Has(t, n) => t[n].ip # a
    BY <1>1, StageOfNone
  <1>2. ASSUME NEW n \in Node, Has(t, n), t[n].ip = a PROVE StageAt(u, a) = StageAt(t, a)
    <2>1. PICK m \in Node : Has(u, m) /\ u[m].ip = a
                           /\ Stage(u[m].controller_status) = Stage(t[n].controller_status)
      BY <1>2
    <2> QED
      BY <1>2, <2>1, StageOfRow
  <1> QED
    BY <1>1, <1>2

(* A rewritten row moves its own address and no other; on the way there, at  *)
(* most the row of one instance changed.                                     *)
LEMMA Rewritten ==
  ASSUME NEW t, NEW u, OneRow(t), OneRow(u), NEW n \in Node, NEW a,
         KeepsOthers(t, u, n), Has(t, n) => t[n].ip = a, Has(u, n) => u[n].ip = a
  PROVE  /\ \A b : b # a => StageAt(u, b) = StageAt(t, b)
         /\ Has(t, n) => StageAt(t, a) = Stage(t[n].controller_status)
         /\ Has(u, n) => StageAt(u, a) = Stage(u[n].controller_status)
         /\ Has(t, n) /\ ~Has(u, n) => StageAt(u, a) = "absent"
         /\ u[n] = t[n] => StageAt(u, a) = StageAt(t, a)
PROOF
  <1>0. \A m \in Node \ {n} : u[m] = t[m] /\ (Has(u, m) <=> Has(t, m))
    BY DEF KeepsOthers, Has
  <1>1. ASSUME NEW b, b # a PROVE StageAt(u, b) = StageAt(t, b)
    <2>1. \A m \in Node : Has(t, m) /\ t[m].ip = b => Has(u, m) /\ u[m] = t[m]
      BY <1>0, <1>1
    <2>2. \A m \in Node : Has(u, m) /\ u[m].ip = b => Has(t, m) /\ u[m] = t[m]
      BY <1>0, <1>1
    <2> QED
      BY <2>1, <2>2, StageKept
  <1>2. Has(t, n) => StageAt(t, a) = Stage(t[n].controller_status)
    BY StageOfRow
  <1>3. Has(u, n) => StageAt(u, a) = Stage(u[n].controller_status)
    BY StageOfRow
  <1>4. ASSUME Has(t, n), ~Has(u, n) PROVE StageAt(u, a) = "absent"
    <2>1. \A m \in Node : Has(u, m) => u[m].ip # a
      BY <1>0, <1>4 DEF OneRow
    <2> QED
      BY <2>1, StageOfNone
  <1>5. ASSUME u[n] = t[n] PROVE StageAt(u, a) = StageAt(t, a)
    <2>1. \A m \in Node : u[m] = t[m] /\ (Has(u, m) <=> Has(t, m))
      BY <1>0, <1>5 DEF Has
    <2> QED
      BY <2>1, StageKept
  <1> QED
    BY <1>1, <1>2, <1>3, <1>4, <1>5

(* Writes to the other columns leave every address where it is.              *)
LEMMA SameStages ==
  ASSUME NEW t \in Table, NEW u \in Table, OneRow(t), OneRow(u),
         KeepsAddresses(t, u), SameStates(t, u), NEW a
  PROVE  StageAt(u, a) = StageAt(t, a)
PROOF
  <1>1. ASSUME NEW n \in Node, Has(t, n)
        PROVE  Has(u, n) /\ u[n].ip = t[n].ip /\ u[n].controller_status = t[n].controller_status
    <2>1. t[n].controller_status \in ControllerStatuses
      BY <1>1 DEF Table, Row, Has
    <2>2. InState(u, n, t[n].controller_status)
      BY <1>1, <2>1 DEF SameStates, InState
    <2> QED
      BY <2>2 DEF InState, KeepsAddresses
  <1>2. \A n \in Node : Has(u, n) => Has(t, n) /\ u[n].ip = t[n].ip
    BY DEF KeepsAddresses
  <1> QED
    BY <1>1, <1>2, StageKept

(* From stages to the steps of Membership.                                   *)
LEMMA MovedFrom ==
  ASSUME NEW S, NEW s,
         \A a \in Addr : StageAt(row', a) = IF a \in S THEN s ELSE StageAt(row, a)
  PROVE  Life!Moved(S, s)
PROOF
  BY DEF Life!Moved

LEMMA NotMoved ==
  ASSUME \A a \in Addr : StageAt(row', a) = StageAt(row, a)
  PROVE  [a \in Addr |-> StageAt(row', a)] = [a \in Addr |-> StageAt(row, a)]
PROOF
  OBVIOUS

(* What IInv says of a row that one step rewrites.                           *)
LEMMA RowMoves ==
  ASSUME IInv, IInv', UNCHANGED addr, NEW n \in Node, KeepsOthers(row, row', n), Has(row, n), NEW s,
         IF Has(row', n) THEN Stage(row'[n].controller_status) = s ELSE s = "absent"
  PROVE  /\ Life!Moved({addr[n]}, s) /\ addr[n] \in Addr
         /\ StageAt(row, addr[n]) = Stage(row[n].controller_status)
PROOF
  <1>1. OneRow(row) /\ OneRow(row')
    BY DEF IInv, OneHolder, OneRow
  <1>2. row[n].ip = addr[n] /\ addr[n] \in Addr /\ (Has(row', n) => row'[n].ip = addr[n])
    BY DEF IInv, Provenance, Launched
  <1>3. /\ \A b : b # addr[n] => StageAt(row', b) = StageAt(row, b)
        /\ StageAt(row, addr[n]) = Stage(row[n].controller_status)
        /\ StageAt(row', addr[n]) = s
    BY <1>1, <1>2, Rewritten
  <1> QED
    BY <1>2, <1>3, MovedFrom

(* A row in some state is at the stage of that state, at the instance's      *)
(* address.                                                                  *)
LEMMA StageOfState ==
  ASSUME IInv, NEW n \in Node, NEW c, InState(row, n, c)
  PROVE  addr[n] \in Addr /\ StageAt(row, addr[n]) = Stage(c) /\ row[n].ip = addr[n]
PROOF
  <1>1. OneRow(row) /\ Has(row, n) /\ row[n].ip = addr[n] /\ addr[n] \in Addr
    BY DEF IInv, OneHolder, OneRow, InState, Provenance, Launched
  <1> QED
    BY <1>1, StageOfRow DEF InState

LEMMA PresentStage ==
  ASSUME IInv, NEW n \in Node, Has(row, n)
  PROVE  StageAt(row, addr[n]) # "absent"
PROOF
  <1>1. row[n].controller_status \in ControllerStatuses
    BY DEF IInv, TypeOK, Table, Row, Has
  <1>2. StageAt(row, addr[n]) = Stage(row[n].controller_status)
    BY StageOfState DEF InState
  <1> QED
    BY <1>1, <1>2 DEF Stage, ControllerStatuses

(* The history variables as Membership sees them.                            *)
GivenUp == {addr[n] : n \in asked}
Touched == {addr[n] : n \in late}

LEMMA Histories ==
  ASSUME UNCHANGED addr
  PROVE  /\ UNCHANGED asked => UNCHANGED GivenUp
         /\ \A n : asked' = asked \cup {n} => GivenUp' = GivenUp \cup {addr[n]}
         /\ UNCHANGED late => UNCHANGED Touched
         /\ late' = {} => Touched' = {}
         /\ \A n : Rewrites(n) => Touched' \in {Touched, Touched \cup {addr[n]}}
PROOF
  <1>1. \A n : late' = late \cup {n} => Touched' = Touched \cup {addr[n]}
    BY DEF Touched
  <1>2. /\ UNCHANGED asked => UNCHANGED GivenUp
        /\ \A n : asked' = asked \cup {n} => GivenUp' = GivenUp \cup {addr[n]}
    BY DEF GivenUp
  <1>3. (UNCHANGED late => UNCHANGED Touched) /\ (late' = {} => Touched' = {})
    BY DEF Touched
  <1> QED
    BY <1>1, <1>2, <1>3 DEF Rewrites

\* The step as Membership sees it.
LifeStep == [Life!Next]_(Life!vars)

StageFunction == [a \in Addr |-> StageAt(row, a)]

LEMMA LifeUnchanged ==
  ASSUME UNCHANGED <<StageFunction, GivenUp, Touched, slurm>>
  PROVE  LifeStep
PROOF
  BY DEF LifeStep, Life!vars, StageFunction, GivenUp, Touched

LEMMA LifeJoin ==
  ASSUME NEW S \in SUBSET Addr, Life!Moved(S, "joining"), UNCHANGED <<GivenUp, Touched, slurm>>
  PROVE  LifeStep
PROOF
  BY DEF LifeStep, Life!Next, Life!Join, GivenUp, Touched

LEMMA LifeOperate ==
  ASSUME NEW a \in Addr, UNCHANGED slurm, Touched' \in {Touched, Touched \cup {a}},
         \/ /\ GivenUp' = GivenUp \cup {a}
            /\ \/ UNCHANGED StageFunction
               \/ StageAt(row, a) # "absent" /\ Life!Moved({a}, "leaving")
         \/ /\ UNCHANGED GivenUp
            /\ \/ UNCHANGED StageFunction
               \/ \E s \in {"joining", "absent"} : Life!Moved({a}, s)
  PROVE  LifeStep
PROOF
  <1>1. Life!Operate(a)
    BY DEF Life!Operate, GivenUp, Touched, StageFunction
  <1> QED
    BY <1>1 DEF LifeStep, Life!Next

(* Every step is one of Membership, or none that it sees.                    *)
LEMMA MembershipStep ==
  ASSUME IInv, IInv', [Next]_vars
  PROVE  LifeStep
PROOF
  <1> USE DEF Playing
  <1>0. /\ TypeOK /\ Provenance /\ SnapshotHolds /\ row \in Table /\ row' \in Table
        /\ OneRow(row) /\ OneRow(row')
    BY DEF IInv, TypeOK, OneHolder, OneRow
  <1>a. ASSUME UNCHANGED <<row, addr, asked, late, slurm>> PROVE LifeStep
    BY <1>a, Histories, LifeUnchanged DEF StageFunction
  <1>b. ASSUME UNCHANGED <<addr, asked, late, slurm>>,
               \A a \in Addr : StageAt(row', a) = StageAt(row, a)
        PROVE  LifeStep
    BY <1>b, Histories, LifeUnchanged, NotMoved DEF StageFunction
  <1>1. ASSUME NEW n \in Node, NEW a \in Addr, Launch(n, a) PROVE LifeStep
    <2>1. \A m \in Launched : addr'[m] = addr[m]
      BY <1>0, <1>1 DEF Launch, Launched, TypeOK
    <2>2. GivenUp' = GivenUp /\ Touched' = Touched
      BY <1>0, <1>1, <2>1 DEF Launch, Provenance, GivenUp, Touched
    <2> QED
      BY <1>1, <2>2, LifeUnchanged DEF Launch, StageFunction
  <1>2. ASSUME NEW n \in Node, WebServerUp(n) \/ NodeConfigured(n) \/ InstanceGone(n) PROVE LifeStep
    BY <1>2, <1>a DEF WebServerUp, NodeConfigured, InstanceGone
  <1>3. ASSUME NEW n \in Node, SlurmdJoins(n) PROVE LifeStep
    <2>1. addr[n] \in Addr
      BY <1>0, <1>3 DEF SlurmdJoins, Alive, Provenance, Launched
    <2>2. UNCHANGED <<StageFunction, GivenUp, Touched>>
      BY <1>3, Histories DEF SlurmdJoins, StageFunction
    <2>3. Life!Register(addr[n])
      BY <1>3, <2>2 DEF SlurmdJoins, Life!Register, StageFunction, GivenUp, Touched
    <2> QED
      BY <2>1, <2>3 DEF LifeStep, Life!Next
  <1>4. CASE Bus
    BY <1>4, <1>a DEF Bus, VisibilityTimeout, FunctionPuts, FunctionFails
  <1>5. ASSUME NEW n \in Node, HandleStarting(n) PROVE LifeStep
    <2>1. addr[n] \in Addr /\ UNCHANGED <<addr, asked, late, slurm>>
      BY <1>0, <1>5 DEF HandleStarting, Provenance
    <2>2. /\ KeepsOthers(row, row', n)
          /\ row'[n] = row[n] \/ (InState(row', n, "configuring") /\ row'[n].ip = addr[n])
      BY <1>0, <1>5, <2>1, UpsertRow DEF HandleStarting
    <2>3. UNCHANGED <<GivenUp, Touched>>
      BY <2>1, Histories
    <2>4. /\ Has(row, n) => row[n].ip = addr[n]
          /\ Has(row', n) => row'[n].ip = addr[n]
      BY <1>0, <2>2 DEF Provenance, Has
    <2>5. CASE row'[n] = row[n]
      BY <1>0, <1>b, <2>1, <2>2, <2>4, <2>5, Rewritten
    <2>6. CASE InState(row', n, "configuring")
      <3>1. \A a : StageAt(row', a) = IF a \in {addr[n]} THEN "joining" ELSE StageAt(row, a)
        BY <1>0, <2>2, <2>4, <2>6, Rewritten DEF InState, Stage
      <3>2. Life!Moved({addr[n]}, "joining")
        BY <3>1, MovedFrom
      <3> QED
        BY <2>1, <2>3, <3>2, LifeJoin
    <2> QED
      BY <2>2, <2>5, <2>6
  <1>6. ASSUME NEW n \in Node, HandleTerminating(n) PROVE LifeStep
    <2> DEFINE u == SetController(row, n, "terminating")
    <2>1. "terminating" \in ControllerStatuses /\ "terminating" \in ComputeStatuses
      BY DEF ComputeStatuses, ControllerStatuses
    <2>2. u \in Table /\ KeepsOthers(row, u, n) /\ (Has(row, n) => InState(u, n, "terminating"))
      BY <1>0, <2>1, SetControllerRow
    <2>3. row' = SetCompute(u, n, "terminating")
      BY <1>6 DEF HandleTerminating
    <2>4. ~Has(row, n) => u = row
      BY DEF SetController
    <2> HIDE DEF u
    <2>5. KeepsOthers(u, row', n) /\ SameStates(u, row')
      BY <2>1, <2>2, <2>3, SetComputeRow
    <2>6. KeepsOthers(row, row', n) /\ (Has(row, n) => InState(row', n, "terminating"))
      BY <2>1, <2>2, <2>5 DEF KeepsOthers, SameStates
    <2>7. UNCHANGED <<addr, asked, late, slurm>>
      BY <1>6 DEF HandleTerminating
    <2>8. CASE ~Has(row, n)
      <3>1. row' = row
        BY <2>3, <2>4, <2>8 DEF SetCompute
      <3> QED
        BY <1>a, <2>7, <3>1
    <2>9. CASE Has(row, n)
      <3>1. n \in asked
        BY <1>6 DEF HandleTerminating, IInv, Requested
      <3>2. Life!Moved({addr[n]}, "leaving") /\ addr[n] \in Addr /\ StageAt(row, addr[n]) # "absent"
        BY <2>6, <2>7, <2>9, RowMoves, PresentStage DEF InState, Stage
      <3>3. Life!Leave(addr[n])
        BY <2>7, <3>1, <3>2, Histories DEF Life!Leave, GivenUp, Touched
      <3> QED
        BY <3>2, <3>3 DEF LifeStep, Life!Next
    <2> QED
      BY <2>8, <2>9
  <1>7. CASE Rescan
    <2> DEFINE S == {a \in Addr : StageAt(row', a) # StageAt(row, a)}
    <2>1. UNCHANGED <<addr, asked, late, slurm>>
      BY <1>7 DEF Rescan
    <2>2. ASSUME NEW n \in Node
          PROVE  \/ row'[n] = row[n]
                 \/ ~Has(row, n) /\ (Has(row', n) => InState(row', n, "configuring"))
                 \/ /\ Has(row, n) /\ Has(row', n) /\ row'[n].ip = row[n].ip
                    /\ row'[n].controller_status = row[n].controller_status
      <3>1. CASE Answers(n) /\ ~Has(row, n) /\ row'[n] = Upsert(row, n, addr[n])[n]
        <4>1. addr[n] \in Addr
          BY <1>0, <3>1 DEF Answers, Alive, Provenance, Launched
        <4> QED
          BY <1>0, <3>1, <4>1, UpsertRow DEF Has, InState
      <3>2. CASE Has(row, n) /\ row'[n] = [row[n] EXCEPT !.status = "unreachable"]
        <4>1. row[n] \in Row
          BY <1>0, <3>2 DEF Has, Table
        <4>2. row'[n] \in Row
          BY <3>2, <4>1 DEF Row, Statuses
        <4> QED
          BY <3>2, <4>1, <4>2, NoRowAssumption DEF Row, Has
      <3> QED
        BY <1>7, <3>1, <3>2 DEF Rescan
    <2>3. ASSUME NEW a \in Addr, StageAt(row', a) # StageAt(row, a) PROVE StageAt(row', a) = "joining"
      <3>1. ASSUME NEW n \in Node, ~Has(row, n), Has(row', n), row'[n].ip = a
            PROVE  StageAt(row', a) = "joining"
        <4>1. InState(row', n, "configuring")
          BY <2>2, <3>1 DEF Has
        <4> QED
          BY <1>0, <3>1, <4>1, StageOfRow DEF InState, Stage
      <3>2. CASE \A n \in Node : Has(row', n) /\ row'[n].ip = a => Has(row, n)
        <4>1. \A n \in Node : Has(row, n) =>
                 /\ Has(row', n) /\ row'[n].ip = row[n].ip
                 /\ row'[n].controller_status = row[n].controller_status
          BY <2>2 DEF Has
        <4>2. StageAt(row', a) = StageAt(row, a)
          BY <1>0, <3>2, <4>1, StageKept
        <4> QED
          BY <2>3, <4>2
      <3> QED
        BY <3>1, <3>2
    <2>4. Life!Moved(S, "joining")
      BY <2>3, MovedFrom
    <2> QED
      BY <2>1, <2>4, Histories, LifeJoin
  <1>8. ASSUME NEW n \in Node, StoreMetadata(n) PROVE LifeStep
    <2>0. UNCHANGED <<addr, asked, late, slurm>>
      BY <1>8 DEF StoreMetadata
    <2>1. CASE upd[n].kind = "unreachable"
      <3>1. "unreachable" \in Statuses
        BY DEF Statuses
      <3>2. row' = SetStatus(row, n, "unreachable")
        BY <1>8, <2>1 DEF StoreMetadata
      <3>3. KeepsAddresses(row, row') /\ SameStates(row, row')
        BY <1>0, <3>1, <3>2, SetStatusRow
      <3> QED
        BY <1>0, <1>b, <2>0, <3>3, SameStages
    <2>2. CASE upd[n].kind # "unreachable"
      <3> DEFINE who == upd[n].ocid
                 a   == row[n].ip
      <3>1. /\ who \in Node /\ upd[n].was \in Statuses
            /\ upd[n].compute_status \in ComputeStatuses
        BY <1>0, <1>8, <2>2 DEF StoreMetadata, Updates, ComputeStatuses, Done, TypeOK
      <3>2. row' = StoreInfo(row, n, who, upd[n].compute_status, upd[n].was)
        BY <1>8, <2>2 DEF StoreMetadata
      <3>3. CASE ~(Has(row, n) /\ (who = n \/ ~Has(row, who)))
        BY <1>a, <2>0, <3>2, <3>3 DEF StoreInfo
      <3>4. CASE Has(row, n) /\ (who = n \/ ~Has(row, who))
        <4>1. /\ \A m \in Node \ {n, who} : row'[m] = row[m] /\ (Has(row', m) <=> Has(row, m))
              /\ n # who => ~Has(row', n)
          BY <1>0, <3>1, <3>2, <3>4 DEF StoreInfo, Table, Has
        <4>2. Has(row', who)
          <5>1. row' \in Table /\ row[n] \in Row
            BY <1>0, <3>4 DEF Table, Has
          <5>2. row'[who] \in Row
            BY <1>0, <3>1, <3>2, <3>4, <5>1 DEF StoreInfo, Table, Row, Statuses, ControllerStatuses
          <5> QED
            BY <5>2, NoRowAssumption DEF Has
        <4>3. row'[who].ip = a /\ row'[who].controller_status \in {"configuring", row[n].controller_status}
          BY <1>0, <3>1, <3>2, <3>4, <4>2, StoreInfoRow DEF Has
        <4>4. \A b : b # a => StageAt(row', b) = StageAt(row, b)
          <5> SUFFICES ASSUME NEW b, b # a PROVE StageAt(row', b) = StageAt(row, b)
            OBVIOUS
          <5>1. \A m \in Node : Has(row, m) /\ row[m].ip = b => Has(row', m) /\ row'[m] = row[m]
            BY <3>4, <4>1
          <5>2. \A m \in Node : Has(row', m) /\ row'[m].ip = b => Has(row, m) /\ row'[m] = row[m]
            BY <3>4, <4>1, <4>3
          <5> QED
            BY <1>0, <5>1, <5>2, StageKept
        <4>5. a \in Addr
          BY <1>0, <3>4 DEF Provenance, Launched
        <4>6. StageAt(row', a) = Stage(row'[who].controller_status)
          BY <1>0, <3>1, <4>2, <4>3, StageOfRow
        <4>7. StageAt(row, a) = Stage(row[n].controller_status)
          BY <1>0, <3>4, StageOfRow
        <4>8. CASE row'[who].controller_status = row[n].controller_status
          <5>1. \A b : StageAt(row', b) = StageAt(row, b)
            BY <4>4, <4>6, <4>7, <4>8
          <5> QED
            BY <1>b, <2>0, <5>1
        <4>9. CASE row'[who].controller_status = "configuring"
          <5>1. \A b : StageAt(row', b) = IF b \in {a} THEN "joining" ELSE StageAt(row, b)
            BY <4>4, <4>6, <4>9 DEF Stage
          <5>2. Life!Moved({a}, "joining")
            BY <5>1, MovedFrom
          <5> QED
            BY <2>0, <4>5, <5>2, Histories, LifeJoin
        <4> QED
          BY <4>3, <4>8, <4>9
      <3> QED
        BY <3>3, <3>4
    <2> QED
      BY <2>1, <2>2
  <1>9. CASE StartPass \/ EndScan \/ Fetch \/ Snapshot
    BY <1>9, <1>a DEF StartPass, EndScan, Fetch, Snapshot
  <1>10. CASE Playbook
    <2>1. CASE PlayQuery \/ PlaySucceeds
      BY <1>a, <2>1 DEF PlayQuery, PlaySucceeds
    <2>2. CASE PlayDelete
      <3>1. PICK stuck \in SUBSET (Hosts \cap slurm) : slurm' = slurm \ (Hosts \ stuck)
        BY <2>2 DEF PlayDelete
      <3>2. UNCHANGED <<row, addr, asked, late>>
        BY <2>2 DEF PlayDelete
      <3>3. UNCHANGED <<StageFunction, GivenUp, Touched>>
        BY <3>2, Histories DEF StageFunction
      <3>4. ASSUME NEW a \in Hosts
            PROVE  a \in Addr /\ (StageAt(row, a) = "leaving" \/ a \in Touched)
        <4>1. PICK n \in cleared : a = addr[n]
          BY DEF Hosts
        <4>2. n \in Node /\ addr[n] \in Addr
          BY <1>0, <4>1 DEF TypeOK, Provenance
        <4>3. InState(row, n, "terminating") \/ n \in late
          BY <1>0, <2>2, <4>1 DEF PlayDelete, GoTo, SnapshotHolds
        <4>4. CASE InState(row, n, "terminating")
          BY <4>1, <4>2, <4>4, StageOfState DEF Stage
        <4>5. CASE n \in late
          BY <4>1, <4>2, <4>5 DEF Touched
        <4> QED
          BY <4>3, <4>4, <4>5
      <3>5. PICK S \in SUBSET Addr : S = Hosts \ stuck
        BY <3>4
      <3>6. \A a \in S : StageFunction[a] = "leaving" \/ a \in Touched
        BY <3>4, <3>5 DEF StageFunction
      <3>7. Life!Unregister(S)
        BY <3>1, <3>3, <3>5, <3>6 DEF Life!Unregister, StageFunction, GivenUp, Touched
      <3> QED
        BY <3>7 DEF LifeStep, Life!Next
    <2>3. CASE PlayFails
      <3>1. UNCHANGED <<row, addr, asked, slurm>> /\ late' = {}
        BY <2>3 DEF PlayFails
      <3>2. UNCHANGED <<StageFunction, GivenUp>> /\ Touched' = {}
        BY <3>1, Histories DEF StageFunction
      <3>3. Life!EndPass
        BY <3>1, <3>2 DEF Life!EndPass, StageFunction, GivenUp, Touched
      <3> QED
        BY <3>3 DEF LifeStep, Life!Next
    <2> QED
      BY <1>10, <2>1, <2>2, <2>3 DEF Playbook
  <1>11. ASSUME NEW n \in Node, MarkConfigured(n) PROVE LifeStep
    <2>0. UNCHANGED <<addr, asked, late, slurm>> /\ row' = SetController(row, n, "configured")
      BY <1>11 DEF MarkConfigured
    <2>1. CASE ~Has(row, n)
      BY <1>a, <2>0, <2>1 DEF SetController
    <2>2. CASE Has(row, n)
      <3>1. KeepsOthers(row, row', n) /\ InState(row', n, "configured")
        BY <1>0, <2>0, <2>2, SetControllerRow DEF ControllerStatuses
      <3>2. Life!Moved({addr[n]}, "member") /\ addr[n] \in Addr
        BY <2>0, <2>2, <3>1, RowMoves DEF InState, Stage
      <3>3. UNCHANGED <<GivenUp, Touched>>
        BY <2>0, Histories
      <3>4. CASE n \in late
        <4>1. Life!Override(addr[n])
          BY <2>0, <2>2, <3>2, <3>3, <3>4, PresentStage DEF Life!Override, GivenUp, Touched
        <4> QED
          BY <3>2, <4>1 DEF LifeStep, Life!Next
      <3>5. CASE n \notin late
        <4>1. n \in ToAdd
          BY <1>0, <1>11, <3>5 DEF MarkConfigured, SnapshotHolds
        <4>2. StageAt(row, addr[n]) = "joining"
          BY <4>1, StageOfState DEF ToAdd, Stage
        <4>3. Life!Configure(addr[n])
          BY <2>0, <3>2, <3>3, <4>2 DEF Life!Configure, GivenUp, Touched
        <4> QED
          BY <3>2, <4>3 DEF LifeStep, Life!Next
      <3> QED
        BY <3>4, <3>5
    <2> QED
      BY <2>1, <2>2
  <1>12. ASSUME NEW n \in Node, MoveTerminated(n) PROVE LifeStep
    <2>0. UNCHANGED <<addr, asked, late, slurm>> /\ row' = Remove(row, n)
      BY <1>12 DEF MoveTerminated
    <2>1. CASE ~Has(row, n)
      <3>1. row' = row
        BY <1>0, <2>0, <2>1 DEF Remove, Has, Table
      <3> QED
        BY <1>a, <2>0, <3>1
    <2>2. CASE Has(row, n)
      <3>1. KeepsOthers(row, row', n) /\ ~Has(row', n)
        BY <1>0, <2>0, RemoveRow
      <3>2. Life!Moved({addr[n]}, "absent") /\ addr[n] \in Addr
        BY <2>0, <2>2, <3>1, RowMoves
      <3>3. UNCHANGED <<GivenUp, Touched>>
        BY <2>0, Histories
      <3>4. CASE n \in late
        <4>1. Life!Override(addr[n])
          BY <2>0, <2>2, <3>2, <3>3, <3>4, PresentStage DEF Life!Override, GivenUp, Touched
        <4> QED
          BY <3>2, <4>1 DEF LifeStep, Life!Next
      <3>5. CASE n \notin late
        <4>1. InState(row, n, "terminating")
          BY <1>0, <1>12, <3>5 DEF MoveTerminated, SnapshotHolds
        <4>2. StageAt(row, addr[n]) = "leaving"
          BY <4>1, StageOfState DEF Stage
        <4>3. Life!Depart(addr[n])
          BY <2>0, <3>2, <3>3, <4>2 DEF Life!Depart, GivenUp, Touched
        <4> QED
          BY <3>2, <4>3 DEF LifeStep, Life!Next
      <3> QED
        BY <3>4, <3>5
    <2> QED
      BY <2>1, <2>2
  <1>13. CASE EndPass \/ Crash
    <2>1. UNCHANGED <<row, addr, asked, slurm>> /\ late' = {}
      BY <1>13 DEF EndPass, Crash
    <2>2. UNCHANGED <<StageFunction, GivenUp>> /\ Touched' = {}
      BY <2>1, Histories DEF StageFunction
    <2>3. Life!EndPass
      BY <2>1, <2>2 DEF Life!EndPass, StageFunction, GivenUp, Touched
    <2> QED
      BY <2>3 DEF LifeStep, Life!Next
  <1>14. ASSUME NEW n \in Node, Terminate(n) PROVE LifeStep
    <2> DEFINE u == SetStatus(row, n, "terminating")
    <2>1. "terminating" \in Statuses /\ "terminating" \in ControllerStatuses
      BY DEF ControllerStatuses, Statuses
    <2>2. u \in Table /\ KeepsOthers(row, u, n) /\ SameStates(row, u)
      BY <1>0, <2>1, SetStatusRow
    <2>3. row' = SetController(u, n, "terminating")
      BY <1>14 DEF Terminate
    <2> HIDE DEF u
    <2>4. Has(row, n) /\ UNCHANGED <<addr, slurm>> /\ asked' = asked \cup {n} /\ Rewrites(n)
      BY <1>14 DEF Terminate
    <2>5. InState(u, n, row[n].controller_status)
      BY <1>0, <2>2, <2>4 DEF SameStates, InState, Table, Row, Has
    <2>6. KeepsOthers(u, row', n) /\ InState(row', n, "terminating")
      BY <2>1, <2>2, <2>3, <2>5, SetControllerRow DEF InState
    <2>7. KeepsOthers(row, row', n)
      BY <2>2, <2>6 DEF KeepsOthers
    <2>8. Life!Moved({addr[n]}, "leaving") /\ addr[n] \in Addr /\ StageAt(row, addr[n]) # "absent"
      BY <2>4, <2>6, <2>7, RowMoves, PresentStage DEF InState, Stage
    <2> QED
      BY <2>4, <2>8, Histories, LifeOperate
  <1>15. ASSUME NEW n \in Node, Submit(n) \/ CloudInit(n) \/ Reboot(n) PROVE LifeStep
    BY <1>15, <1>a DEF Submit, CloudInit, Reboot
  <1>16. ASSUME NEW n \in Node, ConsoleTerminate(n) PROVE LifeStep
    <2>1. UNCHANGED <<row, addr, late, slurm>> /\ asked' = asked \cup {n}
      BY <1>16 DEF ConsoleTerminate
    <2>2. addr[n] \in Addr
      BY <1>0, <1>16 DEF ConsoleTerminate, Provenance, Launched
    <2>3. UNCHANGED StageFunction
      BY <2>1 DEF StageFunction
    <2> QED
      BY <2>1, <2>2, <2>3, Histories, LifeOperate
  <1>17. ASSUME NEW n \in Node, Reconfigure(n) \/ ReconfigureAll(n) PROVE LifeStep
    <2> DEFINE u == SetController(row, n, "reconfiguring")
    <2>1. "reconfiguring" \in ControllerStatuses /\ "starting" \in ComputeStatuses
      BY DEF ComputeStatuses, ControllerStatuses
    <2>2. Has(row, n) /\ UNCHANGED <<addr, asked, slurm>> /\ Rewrites(n)
      BY <1>17 DEF Reconfigure, ReconfigureAll
    <2>3. u \in Table /\ KeepsOthers(row, u, n) /\ InState(u, n, "reconfiguring")
      BY <1>0, <2>1, <2>2, SetControllerRow
    <2>4. row' = u \/ row' = SetCompute(u, n, "starting")
      BY <1>17 DEF Reconfigure, ReconfigureAll
    <2> HIDE DEF u
    <2>5. KeepsOthers(row, row', n) /\ InState(row', n, "reconfiguring")
      BY <2>1, <2>3, <2>4, SetComputeRow DEF KeepsOthers, SameStates
    <2>6. Life!Moved({addr[n]}, "joining") /\ addr[n] \in Addr
      BY <2>2, <2>5, RowMoves DEF InState, Stage
    <2> QED
      BY <2>2, <2>6, Histories, LifeOperate
  <1>18. ASSUME NEW n \in Node, MarkRebooted(n) PROVE LifeStep
    <2>1. KeepsAddresses(row, row') /\ SameStates(row, row')
      BY <1>0, <1>18, SetComputeRow DEF MarkRebooted, ComputeStatuses
    <2> QED
      BY <1>0, <1>18, <1>b, <2>1, SameStages DEF MarkRebooted
  <1>19. ASSUME NEW n \in Node, AddRow(n) PROVE LifeStep
    <2>1. addr[n] \in Addr /\ UNCHANGED <<addr, asked, slurm>> /\ Rewrites(n)
      BY <1>0, <1>19 DEF AddRow, Answers, Alive, Provenance, Launched
    <2>2. /\ KeepsOthers(row, row', n)
          /\ row'[n] = row[n] \/ (InState(row', n, "configuring") /\ row'[n].ip = addr[n])
      BY <1>0, <1>19, <2>1, UpsertRow DEF AddRow
    <2>3. /\ Has(row, n) => row[n].ip = addr[n]
          /\ Has(row', n) => row'[n].ip = addr[n]
      BY <1>0, <2>2 DEF Provenance, Has
    <2>4. CASE row'[n] = row[n]
      <3>1. \A a : StageAt(row', a) = StageAt(row, a)
        BY <1>0, <2>2, <2>3, <2>4, Rewritten
      <3>2. UNCHANGED StageFunction
        BY <3>1 DEF StageFunction
      <3> QED
        BY <2>1, <3>2, Histories, LifeOperate
    <2>5. CASE InState(row', n, "configuring")
      <3>1. \A a : StageAt(row', a) = IF a \in {addr[n]} THEN "joining" ELSE StageAt(row, a)
        BY <1>0, <2>2, <2>3, <2>5, Rewritten DEF InState, Stage
      <3>2. Life!Moved({addr[n]}, "joining")
        BY <3>1, MovedFrom
      <3> QED
        BY <2>1, <3>2, Histories, LifeOperate
    <2> QED
      BY <2>2, <2>4, <2>5
  <1>20. ASSUME NEW n \in Node, DeleteRow(n) PROVE LifeStep
    <2>1. Has(row, n) /\ UNCHANGED <<addr, asked, slurm>> /\ Rewrites(n) /\ row' = Remove(row, n)
      BY <1>20 DEF DeleteRow
    <2>2. KeepsOthers(row, row', n) /\ ~Has(row', n)
      BY <1>0, <2>1, RemoveRow
    <2>3. Life!Moved({addr[n]}, "absent") /\ addr[n] \in Addr
      BY <2>1, <2>2, RowMoves
    <2> QED
      BY <2>1, <2>3, Histories, LifeOperate
  <1>21. CASE Sync
    BY <1>21, <1>a DEF Sync
  <1>22. CASE UNCHANGED vars
    BY <1>22, <1>a DEF vars
  <1> QED
    BY <1>1, <1>2, <1>3, <1>4, <1>5, <1>6, <1>7, <1>8, <1>9, <1>10, <1>11, <1>12, <1>13, <1>14,
       <1>15, <1>16, <1>17, <1>18, <1>19, <1>20, <1>21, <1>22
    DEF Next, World, ServiceRow, ServicePhase, SecondHalf, FirstHalf

(* Seen by addresses, NodeLifecycle is Membership, for any number of         *)
(* instances, addresses, commands and failures: no order of messages, passes *)
(* and commands makes the service skip a stage or retire an address that     *)
(* nobody gave up, except where an operator acted beside the pass.           *)
THEOREM LifecycleImplements == Spec => ImplementsMembership
PROOF
  <1>1. Init => Life!Init
    BY StageOfNone DEF Init, Life!Init, Has
  <1>2. IInv /\ IInv' /\ [Next]_vars => [Life!Next]_(Life!vars)
    BY MembershipStep DEF LifeStep
  <1> QED
    BY <1>1, <1>2, Inductive, PTL DEF Spec, ImplementsMembership, Life!Spec

=============================================================================
