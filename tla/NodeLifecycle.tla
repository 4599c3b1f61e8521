--------------------------- MODULE NodeLifecycle ---------------------------
(* How an instance enters and leaves the cluster: OCI launches and           *)
(* terminates instances and calls the event function, which puts messages    *)
(* on the queue; the management service, one pass per minute, takes them,    *)
(* reads every node's web server, runs the Ansible playbook and writes the   *)
(* outcome back; operators run `mgmt` commands beside it at any time.        *)
(* Only the database serialises them: every service step below works on      *)
(* what an earlier step of the pass read.                                    *)
EXTENDS NodeTable, Naturals, FiniteSets

CONSTANTS NoAddr,      \* the address of an instance that has none yet
          Ops,         \* the operator commands of this instance of the model
          ManageHosts, \* mgmt.ini manage_hosts: rescan the VCN and prune
          MaxOps,      \* bound on operator commands
          MaxFaults    \* bound on failures of any kind

ASSUME ParameterAssumption ==
  /\ NoAddr \notin Addr
  /\ ManageHosts \in BOOLEAN
  /\ MaxOps \in Nat /\ MaxFaults \in Nat
  /\ Ops \subseteq {"terminate", "console", "reconfigure", "reconfigureAll",
                    "reboot", "add", "delete", "sync"}

VARIABLES
  inst,      \* lifecycle state of each instance in OCI
  addr,      \* its private IP
  web,       \* what its web server says: down, or a compute_status
  booting,   \* instances whose slurmd is still to start
  slurm,     \* addresses whose hostname is registered in Slurm
  events,    \* invocations of the event function not yet finished
  queue,     \* messages on the OCI queue
  hidden,    \* those delivered and not deleted, within the visibility timeout
  row,       \* the table nodes
  archived,  \* the OCIDs in the table terminated_nodes
  pc,        \* where the service's pass is
  upd,       \* the pass's update_dict, per row it read
  conf,      \* the pass's nodes_configuring
  term,      \* the pass's nodes_terminating
  added,     \* the playbook's new_compute_info and new_hosts_info
  cleared,   \* the playbook's remove_compute_info
  cli,       \* second halves of operator commands still to run
  asked,     \* history: instances somebody asked to terminate
  late,      \* history: rows an operator rewrote while the pass holds a snapshot
  ops, faults

cloud  == <<inst, addr, web, booting>>
bus    == <<events, queue, hidden>>
db     == <<row, archived>>
svc    == <<pc, upd, conf, term, added, cleared>>
person == <<cli, asked, late, ops>>
vars   == <<cloud, slurm, bus, db, svc, person, faults>>

Message == {"starting", "terminating"} \X Node
Done    == [kind |-> "done"]
Updates == {Done, [kind |-> "unreachable"]}
           \cup [kind : {"info"}, ocid : Node, compute_status : {"configuring", "configured"},
                 was : Statuses]

TypeOK ==
  /\ inst \in [Node -> {"none", "running", "terminating", "terminated"}]
  /\ addr \in [Node -> Addr \cup {NoAddr}]
  /\ web \in [Node -> {"down", "configuring", "configured"}]
  /\ booting \subseteq Node
  /\ slurm \subseteq Addr
  /\ events \subseteq Message
  /\ queue \subseteq Message /\ hidden \subseteq queue
  /\ row \in Table
  /\ archived \subseteq Node
  /\ pc \in {"idle", "scan", "rescan", "fetch", "store", "play", "delete",
            "verify", "write"}
  /\ upd \in [Node -> Updates]
  /\ conf \subseteq Node /\ term \subseteq Node
  /\ added \subseteq Node /\ cleared \subseteq Node
  /\ cli \subseteq {"submit", "cloudinit", "mark"} \X Node
  /\ asked \subseteq Node /\ late \subseteq Node
  /\ ops \in 0..MaxOps /\ faults \in 0..MaxFaults

Init ==
  /\ inst = [n \in Node |-> "none"]
  /\ addr = [n \in Node |-> NoAddr]
  /\ web = [n \in Node |-> "down"]
  /\ booting = {} /\ slurm = {}
  /\ events = {} /\ queue = {} /\ hidden = {}
  /\ row = [n \in Node |-> NoRow]
  /\ archived = {}
  /\ pc = "idle"
  /\ upd = [n \in Node |-> Done]
  /\ conf = {} /\ term = {} /\ added = {} /\ cleared = {}
  /\ cli = {} /\ asked = {} /\ late = {}
  /\ ops = 0 /\ faults = 0

Fault == faults < MaxFaults /\ faults' = faults + 1

(***************************************************************************)
(* OCI and the nodes.                                                      *)
(***************************************************************************)

Alive(n) == inst[n] \in {"running", "terminating"}

(* A launch takes an address no live instance holds, and ends in the event   *)
(* launchinstance.end.                                                       *)
Launch(n, a) ==
  /\ inst[n] = "none"
  /\ \A m \in Node : addr[m] = a => ~Alive(m)
  /\ inst' = [inst EXCEPT ![n] = "running"]
  /\ addr' = [addr EXCEPT ![n] = a]
  /\ booting' = booting \cup {n}
  /\ events' = events \cup {<<"starting", n>>}
  /\ UNCHANGED <<web, slurm, queue, hidden, db, svc, person, faults>>

(* cloud-init: the web server comes up before the roles run ...              *)
WebServerUp(n) ==
  /\ Alive(n) /\ web[n] = "down"
  /\ web' = [web EXCEPT ![n] = "configuring"]
  /\ UNCHANGED <<inst, addr, booting, slurm, bus, db, svc, person, faults>>

(* ... slurmd registers itself as a dynamic node ...                         *)
SlurmdJoins(n) ==
  /\ Alive(n) /\ web[n] # "down" /\ n \in booting
  /\ booting' = booting \ {n}
  /\ slurm' = slurm \cup {addr[n]}
  /\ UNCHANGED <<inst, addr, web, bus, db, svc, person, faults>>

(* ... and the last role reports the node configured.                        *)
NodeConfigured(n) ==
  /\ Alive(n) /\ web[n] = "configuring" /\ n \notin booting
  /\ web' = [web EXCEPT ![n] = "configured"]
  /\ UNCHANGED <<inst, addr, booting, slurm, bus, db, svc, person, faults>>

(* The instance is gone, and its address is free again.                      *)
InstanceGone(n) ==
  /\ inst[n] = "terminating"
  /\ inst' = [inst EXCEPT ![n] = "terminated"]
  /\ web' = [web EXCEPT ![n] = "down"]
  /\ booting' = booting \ {n}
  /\ UNCHANGED <<addr, slurm, bus, db, svc, person, faults>>

(* terminateinstance.begin.                                                  *)
BeginTermination(n) ==
  /\ inst' = IF inst[n] = "running" THEN [inst EXCEPT ![n] = "terminating"] ELSE inst
  /\ events' = IF inst[n] = "running" THEN events \cup {<<"terminating", n>>} ELSE events

(* The event function ends by putting its message; for a launch it needs the *)
(* instance's network interface and raises without it.  Two invocations are  *)
(* not ordered.                                                              *)
FunctionPuts(m) ==
  /\ m \in events
  /\ events' = events \ {m}
  /\ queue' = IF m[1] = "starting" /\ ~Alive(m[2]) THEN queue ELSE queue \cup {m}
  /\ UNCHANGED <<cloud, slurm, hidden, db, svc, person, faults>>

FunctionFails(m) ==
  /\ m \in events /\ Fault
  /\ events' = events \ {m}
  /\ UNCHANGED <<cloud, slurm, queue, hidden, db, svc, person>>

(* A message delivered and not deleted becomes visible again.                *)
VisibilityTimeout ==
  /\ hidden # {} /\ hidden' = {}
  /\ UNCHANGED <<cloud, slurm, events, queue, db, svc, person, faults>>

(***************************************************************************)
(* The management service: one pass.                                       *)
(***************************************************************************)

GoTo(from, to) == pc = from /\ pc' = to

StartPass ==
  /\ GoTo("idle", "scan")
  /\ UNCHANGED <<cloud, slurm, bus, db, upd, conf, term, added, cleared, person, faults>>

\* Mutant: the deleted message is also put aside for redelivery.
AcknowledgeTwice(m) ==
  /\ queue' = queue \ {m} /\ hidden' = hidden \cup {m}
  /\ UNCHANGED faults

(* A message whose handling or deletion raised stays on the queue.           *)
Acknowledge(m) ==
  \/ queue' = queue \ {m} /\ UNCHANGED <<hidden, faults>>
  \/ hidden' = hidden \cup {m} /\ Fault /\ UNCHANGED queue

HandleStarting(n) ==
  /\ pc = "scan" /\ <<"starting", n>> \in queue \ hidden
  /\ row' = Upsert(row, n, addr[n])
  /\ Acknowledge(<<"starting", n>>)
  /\ UNCHANGED <<cloud, slurm, events, archived, svc, person>>

\* Mutant: only the compute status is written.
HandleTerminatingHalf(n) ==
  /\ pc = "scan" /\ <<"terminating", n>> \in queue \ hidden
  /\ row' = SetCompute(row, n, "terminating")
  /\ Acknowledge(<<"terminating", n>>)
  /\ UNCHANGED <<cloud, slurm, events, archived, svc, person>>

(* The status column keeps its value.                                        *)
HandleTerminating(n) ==
  /\ pc = "scan" /\ <<"terminating", n>> \in queue \ hidden
  /\ row' = SetCompute(SetController(row, n, "terminating"), n, "terminating")
  /\ Acknowledge(<<"terminating", n>>)
  /\ UNCHANGED <<cloud, slurm, events, archived, svc, person>>

EndScan ==
  /\ queue \subseteq hidden
  /\ GoTo("scan", IF ManageHosts THEN "rescan" ELSE "fetch")
  /\ UNCHANGED <<cloud, slurm, bus, db, upd, conf, term, added, cleared, person, faults>>

Answers(n) == Alive(n) /\ web[n] # "down"

(* scan_vcn_logic: every ten minutes, a row for each node that answers and   *)
(* has none; a row whose address does not answer becomes unreachable.        *)
Rescan ==
  /\ GoTo("rescan", "fetch")
  /\ \/ UNCHANGED <<row, faults>>
     \/ \E found \in SUBSET {n \in Node : Answers(n)} :
          /\ IF \A n \in Node : Answers(n) => n \in found THEN UNCHANGED faults ELSE Fault
          /\ row' = [n \in Node |->
               CASE n \in found /\ ~Has(row, n) -> Upsert(row, n, addr[n])[n]
                 [] Has(row, n) /\ \A m \in found : addr[m] # row[n].ip
                      -> [row[n] EXCEPT !.status = "unreachable"]
                 [] OTHER -> row[n]]
  /\ UNCHANGED <<cloud, slurm, bus, archived, upd, conf, term, added, cleared, person>>

\* Mutant: rows that never reported are not asked.
UpdateForKnown(n, mute, aged) ==
  LET answering == {m \in Node : Answers(m) /\ addr[m] = row[n].ip} \ mute
      who       == CHOOSE m \in answering : TRUE
  IN CASE ~Has(row, n) \/ row[n].status = "starting" -> Done
       [] Has(row, n) /\ row[n].status # "starting" /\ answering # {} ->
            [kind |-> "info", ocid |-> who, compute_status |-> web[who], was |-> row[n].status]
       [] OTHER -> IF n \in aged THEN [kind |-> "unreachable"] ELSE Done

(* What get_updates_based_on_url makes of row n: `mute` nodes do not answer  *)
(* this time, `aged` rows were last reached more than six hours ago.         *)
UpdateFor(n, mute, aged) ==
  LET answering == {m \in Node : Answers(m) /\ addr[m] = row[n].ip} \ mute
      who       == CHOOSE m \in answering : TRUE
  IN CASE ~Has(row, n) -> Done
       [] Has(row, n) /\ answering # {} ->
            [kind |-> "info", ocid |-> who, compute_status |-> web[who], was |-> row[n].status]
       [] OTHER -> IF n \in aged THEN [kind |-> "unreachable"] ELSE Done

Fetch ==
  /\ GoTo("fetch", "store")
  /\ \E mute \in SUBSET {n \in Node : Answers(n)} :
       /\ IF mute = {} THEN UNCHANGED faults ELSE Fault
       /\ \E aged \in SUBSET {n \in Node : Has(row, n) /\ row[n].contacted
                                            /\ row[n].status # "starting"} :
            upd' = [n \in Node |-> UpdateFor(n, mute, aged)]
  /\ UNCHANGED <<cloud, slurm, bus, db, conf, term, added, cleared, person>>

(* db_update_node, one node at a time, with what was fetched before.         *)
StoreMetadata(n) ==
  /\ pc = "store" /\ upd[n] # Done
  /\ upd' = [upd EXCEPT ![n] = Done]
  /\ row' = IF upd[n].kind = "unreachable" THEN SetStatus(row, n, "unreachable")
            ELSE StoreInfo(row, n, upd[n].ocid, upd[n].compute_status, upd[n].was)
  /\ UNCHANGED <<cloud, slurm, bus, archived, pc, conf, term, added, cleared, person, faults>>

Configuring(n) ==
  /\ \E cs \in {"configuring", "reconfiguring"} : InState(row, n, cs)
  /\ row[n].compute_status \in {"configuring", "configured"}

\* Mutant: nodes that went silent are treated as terminating ones.
SnapshotSilent ==
  /\ pc = "store" /\ \A n \in Node : upd[n] = Done
  /\ conf' = {n \in Node : Configuring(n)}
  /\ term' = {n \in Node : InState(row, n, "terminating")
                            \/ (Has(row, n) /\ row[n].status = "unreachable")}
  /\ pc' = IF conf' \cup term' = {} THEN "idle" ELSE "play"
  /\ UNCHANGED <<cloud, slurm, bus, db, upd, added, cleared, person, faults>>

(* ansible_logic reads who is configuring and terminating; with nobody the   *)
(* pass is over (for this module).                                           *)
Snapshot ==
  /\ pc = "store" /\ \A n \in Node : upd[n] = Done
  /\ conf' = {n \in Node : Configuring(n)}
  /\ term' = {n \in Node : InState(row, n, "terminating")}
  /\ pc' = IF conf' \cup term' = {} THEN "idle" ELSE "play"
  /\ UNCHANGED <<cloud, slurm, bus, db, upd, added, cleared, person, faults>>

\* Mutants: the playbook forgets the reconfiguring nodes; it goes by the
\* status column, which only `mgmt nodes terminate` sets.
ToAddNew       == {n \in Node : InState(row, n, "configuring")}
ToRemoveMarked == {n \in Node : Has(row, n) /\ row[n].status = "terminating" /\ row[n].contacted}

(* The playbook asks the database again: it will add every configuring node  *)
(* and remove every terminating one known to be a compute node.              *)
ToAdd    == {n \in Node : \E cs \in {"configuring", "reconfiguring"} : InState(row, n, cs)}
ToRemove == {n \in Node : InState(row, n, "terminating") /\ row[n].contacted}

PlayQuery ==
  /\ GoTo("play", "delete")
  /\ added' = ToAdd /\ cleared' = ToRemove
  /\ UNCHANGED <<cloud, slurm, bus, db, upd, conf, term, person, faults>>

\* The addresses of the rows the query returned (a hostname follows them).
Hosts == {addr[n] : n \in cleared}

(* Minutes later it deletes those hosts from Slurm; a refusal is ignored ... *)
PlayDelete ==
  /\ GoTo("delete", "verify")
  /\ \E stuck \in SUBSET (Hosts \cap slurm) :
       /\ slurm' = slurm \ (Hosts \ stuck)
       /\ IF stuck = {} THEN UNCHANGED faults ELSE Fault
  /\ UNCHANGED <<cloud, bus, db, upd, conf, term, added, cleared, person>>

(* ... because Slurm is asked again what is left: the run has succeeded if   *)
(* none of them is, whether it was never deleted or its slurmd came back.    *)
PlaySucceeds ==
  /\ GoTo("verify", "write") /\ Hosts \cap slurm = {}
  /\ UNCHANGED <<cloud, slurm, bus, db, upd, conf, term, added, cleared, person, faults>>

PlayFails ==
  /\ GoTo("verify", "idle")
  /\ IF Hosts \cap slurm = {} THEN Fault ELSE UNCHANGED faults
  /\ conf' = {} /\ term' = {} /\ added' = {} /\ cleared' = {} /\ late' = {}
  /\ UNCHANGED <<cloud, slurm, bus, db, upd, cli, asked, ops>>

Playbook == PlayQuery \/ PlayDelete \/ PlaySucceeds \/ PlayFails

MarkConfigured(n) ==
  /\ pc = "write" /\ n \in conf
  /\ row' = SetController(row, n, "configured")
  /\ conf' = conf \ {n}
  /\ UNCHANGED <<cloud, slurm, bus, archived, pc, upd, term, added, cleared, person, faults>>

MoveTerminated(n) ==
  /\ pc = "write" /\ conf = {} /\ n \in term
  /\ archived' = IF Has(row, n) THEN archived \cup {n} ELSE archived
  /\ row' = Remove(row, n)
  /\ term' = term \ {n}
  /\ UNCHANGED <<cloud, slurm, bus, pc, upd, conf, added, cleared, person, faults>>

EndPass ==
  /\ GoTo("write", "idle") /\ conf = {} /\ term = {}
  /\ added' = {} /\ cleared' = {} /\ late' = {}
  /\ UNCHANGED <<cloud, slurm, bus, db, upd, conf, term, cli, asked, ops, faults>>

(* The service dies in the middle of a pass (an exception nothing catches, a *)
(* reboot of the controller); the timer starts the next pass from nothing.   *)
Crash ==
  /\ pc # "idle" /\ pc' = "idle" /\ Fault
  /\ upd' = [n \in Node |-> Done]
  /\ conf' = {} /\ term' = {} /\ added' = {} /\ cleared' = {} /\ late' = {}
  /\ UNCHANGED <<cloud, slurm, bus, db, cli, asked, ops>>

(***************************************************************************)
(* Operators.                                                              *)
(***************************************************************************)

Command(c) == c \in Ops /\ ops < MaxOps /\ ops' = ops + 1

\* The pass holds a snapshot from Snapshot to EndPass.
Playing == pc \in {"play", "delete", "verify", "write"}

Rewrites(n) == late' = IF Playing THEN late \cup {n} ELSE late

(* mgmt nodes terminate: the row is marked first ...                         *)
Terminate(n) ==
  /\ Command("terminate") /\ Has(row, n)
  /\ row' = SetController(SetStatus(row, n, "terminating"), n, "terminating")
  /\ cli' = cli \cup {<<"submit", n>>}
  /\ asked' = asked \cup {n} /\ Rewrites(n)
  /\ UNCHANGED <<cloud, slurm, bus, archived, svc, faults>>

(* ... the request to OCI follows; its error is only logged.                 *)
Submit(n) ==
  /\ <<"submit", n>> \in cli
  /\ cli' = cli \ {<<"submit", n>>}
  /\ \/ BeginTermination(n) /\ UNCHANGED faults
     \/ Fault /\ UNCHANGED <<inst, events>>
  /\ UNCHANGED <<addr, web, booting, slurm, queue, hidden, db, svc, asked, late, ops>>

(* Somebody terminates the instance outside mgmt.                            *)
ConsoleTerminate(n) ==
  /\ Command("console") /\ inst[n] = "running"
  /\ BeginTermination(n)
  /\ asked' = asked \cup {n}
  /\ UNCHANGED <<addr, web, booting, slurm, queue, hidden, db, svc, cli, late, faults>>

(* mgmt nodes reconfigure --action controller                                *)
Reconfigure(n) ==
  /\ Command("reconfigure") /\ Has(row, n)
  /\ row' = SetController(row, n, "reconfiguring")
  /\ Rewrites(n)
  /\ UNCHANGED <<cloud, slurm, bus, archived, svc, cli, asked, faults>>

(* --action all: cloud-init runs again once the row is marked.               *)
ReconfigureAll(n) ==
  /\ Command("reconfigureAll") /\ Has(row, n)
  /\ row' = SetCompute(SetController(row, n, "reconfiguring"), n, "starting")
  /\ Rewrites(n)
  /\ cli' = cli \cup {<<"cloudinit", n>>}
  /\ UNCHANGED <<cloud, slurm, bus, archived, svc, asked, faults>>

CloudInit(n) ==
  /\ <<"cloudinit", n>> \in cli
  /\ cli' = cli \ {<<"cloudinit", n>>}
  /\ IF Answers(n)
     THEN web' = [web EXCEPT ![n] = "configuring"] /\ booting' = booting \cup {n}
     ELSE UNCHANGED <<web, booting>>
  /\ UNCHANGED <<inst, addr, slurm, bus, db, svc, asked, late, ops, faults>>

(* mgmt nodes reboot: OCI first, the row after it.                           *)
Reboot(n) ==
  /\ Command("reboot") /\ Has(row, n)
  /\ booting' = IF Answers(n) THEN booting \cup {n} ELSE booting
  /\ cli' = cli \cup {<<"mark", n>>}
  /\ UNCHANGED <<inst, addr, web, slurm, bus, db, svc, asked, late, faults>>

MarkRebooted(n) ==
  /\ <<"mark", n>> \in cli
  /\ cli' = cli \ {<<"mark", n>>}
  /\ row' = SetCompute(row, n, "starting")
  /\ UNCHANGED <<cloud, slurm, bus, archived, svc, asked, late, ops, faults>>

(* mgmt database add                                                         *)
AddRow(n) ==
  /\ Command("add") /\ Answers(n)
  /\ row' = Upsert(row, n, addr[n])
  /\ Rewrites(n)
  /\ UNCHANGED <<cloud, slurm, bus, archived, svc, cli, asked, faults>>

(* mgmt database delete                                                      *)
DeleteRow(n) ==
  /\ Command("delete") /\ Has(row, n)
  /\ row' = Remove(row, n)
  /\ Rewrites(n)
  /\ UNCHANGED <<cloud, slurm, bus, archived, svc, cli, asked, faults>>

(* mgmt database fn-invoke --sync                                            *)
Sync ==
  /\ Command("sync")
  /\ LET start     == {n \in Node : Alive(n) /\ ~Has(row, n)}
         terminate == {n \in Node : ~Alive(n) /\ Has(row, n)}
     IN /\ start \cup terminate # {}
        /\ events' = events \cup ({"starting"} \X start) \cup ({"terminating"} \X terminate)
  /\ UNCHANGED <<cloud, slurm, queue, hidden, db, svc, cli, asked, late, faults>>

(***************************************************************************)

World(n) ==
  \/ \E a \in Addr : Launch(n, a)
  \/ WebServerUp(n) \/ SlurmdJoins(n) \/ NodeConfigured(n) \/ InstanceGone(n)

Bus == VisibilityTimeout \/ \E m \in Message : FunctionPuts(m) \/ FunctionFails(m)

ServiceRow(n) ==
  HandleStarting(n) \/ HandleTerminating(n) \/ StoreMetadata(n) \/ MarkConfigured(n) \/ MoveTerminated(n)

ServicePhase == StartPass \/ EndScan \/ Rescan \/ Fetch \/ Snapshot \/ Playbook \/ EndPass

SecondHalf(n) == Submit(n) \/ CloudInit(n) \/ MarkRebooted(n)

FirstHalf(n) ==
  \/ Terminate(n) \/ ConsoleTerminate(n) \/ Reconfigure(n) \/ ReconfigureAll(n)
  \/ Reboot(n) \/ AddRow(n) \/ DeleteRow(n)

Next ==
  \/ \E n \in Node : World(n) \/ ServiceRow(n) \/ SecondHalf(n) \/ FirstHalf(n)
  \/ Bus \/ ServicePhase \/ Crash \/ Sync

Spec == Init /\ [][Next]_vars

(* The timer starts a pass every minute and a pass runs to its end; OCI, the *)
(* nodes and a started command go on by themselves.  Nothing makes an        *)
(* operator act, an instance start, or anything fail.                        *)
Fairness ==
  /\ \A n \in Node :
       /\ WF_vars(WebServerUp(n)) /\ WF_vars(SlurmdJoins(n))
       /\ WF_vars(NodeConfigured(n)) /\ WF_vars(InstanceGone(n))
       /\ WF_vars(ServiceRow(n)) /\ WF_vars(SecondHalf(n))
  /\ \A m \in Message : WF_vars(FunctionPuts(m))
  /\ WF_vars(VisibilityTimeout)
  /\ WF_vars(ServicePhase)

FairSpec == Spec /\ Fairness

(***************************************************************************)
(* The invariant the proofs need.                                          *)
(***************************************************************************)

AskedAt(a) == \E m \in asked : addr[m] = a

Launched == {n \in Node : inst[n] # "none"}

(* Messages, rows and what the pass remembers are about launched instances,  *)
(* and a row always carries the address of the instance it names.            *)
Provenance ==
  /\ \A n \in Launched : addr[n] \in Addr
  /\ \A m \in events \cup queue : m[2] \in Launched
  /\ \A n \in Node : Has(row, n) => n \in Launched /\ row[n].ip = addr[n]
  /\ \A n \in Node : upd[n].kind = "info" =>
       n \in Launched /\ upd[n].ocid \in Launched /\ addr[upd[n].ocid] = addr[n]
  /\ term \subseteq Launched /\ archived \subseteq Launched /\ cleared \subseteq Launched
  /\ asked \subseteq Launched /\ late \subseteq Launched

(* Nobody shares an address: no two live instances, no two rows.             *)
OneHolder ==
  /\ \A m, n \in Node : Alive(m) /\ Alive(n) /\ addr[m] = addr[n] => m = n
  /\ \A m, n \in Node : Has(row, m) /\ Has(row, n) /\ row[m].ip = row[n].ip => m = n

(* Every trace of a termination goes back to a request.                      *)
Requested ==
  /\ \A n \in Node : inst[n] \in {"terminating", "terminated"} => n \in asked
  /\ \A n \in Node : <<"terminating", n>> \in events \cup queue => n \in asked
  /\ \A n \in Node : <<"submit", n>> \in cli => n \in asked
  /\ \A n \in Node : InState(row, n, "terminating") => AskedAt(addr[n])
  /\ \A n \in term \cup archived : AskedAt(addr[n])

(* What the pass's snapshot still guarantees when it is used.                *)
SnapshotHolds ==
  /\ ~Playing => conf = {} /\ term = {} /\ late = {}
  /\ Playing =>
       /\ conf \cap term = {}
       /\ \A n \in conf : n \in ToAdd \cup late
       /\ \A n \in term : InState(row, n, "terminating") \/ n \in late
  /\ pc \in {"delete", "verify"} => \A n \in cleared : InState(row, n, "terminating") \/ n \in late
  /\ pc \in {"delete", "verify", "write"} =>
       /\ \A n \in conf : n \in added \cup late
       /\ \A n \in term : Has(row, n) /\ row[n].contacted => n \in cleared \cup late

IInv == TypeOK /\ Provenance /\ OneHolder /\ Requested /\ SnapshotHolds

(***************************************************************************)
(* The life of an address.                                                 *)
(***************************************************************************)

Stage(controller_status) ==
  CASE controller_status \in {"configuring", "reconfiguring"} -> "joining"
    [] controller_status = "configured" -> "member"
    [] controller_status = "terminating" -> "leaving"

StageAt(t, a) ==
  LET holders == {n \in Node : Has(t, n) /\ t[n].ip = a} IN
  IF holders = {} THEN "absent" ELSE Stage(t[CHOOSE n \in holders : TRUE].controller_status)

Life == INSTANCE Membership WITH
  stage <- [a \in Addr |-> StageAt(row, a)],
  givenUp <- {addr[n] : n \in asked},
  touched <- {addr[n] : n \in late},
  registered <- slurm

(***************************************************************************)
(* Properties.                                                             *)
(***************************************************************************)

(* No OCID reaches terminated_nodes unless the termination of an instance    *)
(* that has or had its address was asked for: messages repeated or out of    *)
(* order, stale pass data, rescans and replays never retire a node that      *)
(* nobody gave up.  (The address is what the row follows: see StoreInfo.)    *)
ArchivedByRequest == \A n \in archived : AskedAt(addr[n])

(* A row is archived only after a playbook run that succeeded had it on the  *)
(* list of nodes to take out of Slurm, unless an operator rewrote the row    *)
(* after the pass had read it, or the node never reported a role.            *)
ClearedBeforeArchived ==
  [][\A n \in Node :
       (n \in term \ term' /\ pc = "write" /\ Has(row, n))
         => (n \in cleared \/ n \in late \/ ~row[n].contacted)]_vars

(* A row becomes configured only after a successful playbook run had it on   *)
(* the list of nodes to add, unless an operator rewrote it meanwhile: a      *)
(* pass never declares configured what no playbook has configured.           *)
ConfiguredByPlaybook ==
  [][\A n \in Node :
       (Has(row, n) /\ ~InState(row, n, "configured") /\ InState(row', n, "configured"))
         => (n \in added \/ n \in late)]_vars

(* Seen by addresses, every behaviour of the service, of OCI and of the      *)
(* operators is one of Membership: the row may pass from one OCID to another *)
(* and messages come late or twice, but the service retires no address and   *)
(* takes none out of Slurm that is not leaving, makes no member of one that  *)
(* is not joining, and marks none that nobody gave up; the exceptions are    *)
(* the addresses an operator changed beside a pass: what the pass read       *)
(* before, and its playbook's query, still decide their stage and whether    *)
(* they are deleted from Slurm.                                              *)
ImplementsMembership == Life!Spec

(* A running instance whose `starting` message is on the queue is eventually *)
(* configured in the table, or somebody asks to terminate it or the earlier  *)
(* holder of its address: redeliveries, unanswered requests, failed playbook *)
(* runs and reboots only delay it.                                           *)
QueuedIsConfigured ==
  \A n \in Node :
    (inst[n] = "running" /\ <<"starting", n>> \in queue)
      ~> (InState(row, n, "configured") \/ AskedAt(addr[n]))

(* A row past its first contact whose instance's `terminating` message is on *)
(* the queue leaves the table, or a late `starting` message registers it     *)
(* anew: from then on neither failed playbook runs nor the stale writes of   *)
(* a pass take the mark back.                                                *)
TerminatedLeaves ==
  \A n \in Node :
    (<<"terminating", n>> \in queue /\ Has(row, n) /\ row[n].status # "starting")
      ~> (~Has(row, n) \/ row[n].status = "starting")
=============================================================================
