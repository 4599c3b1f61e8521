--------------------------- MODULE MemoryClusters ---------------------------
(* A cluster of GPU memory clusters over its life: an operator creates it,   *)
(* adds and deletes memory clusters, changes their instance configuration    *)
(* and deletes it, command by command; and each pass of the management       *)
(* service adds the memory fabrics that have become available.  OCI takes    *)
(* its time with both.  One HPC island, one shape; writing the inventory     *)
(* file is taken to succeed.                                                 *)
EXTENDS Integers, FiniteSets, SequencesExt

CONSTANTS Fabric,   \* the GPU memory fabrics, numbered
          Hosts,    \* how many hosts each has
          Minimum,  \* minimum_available_nodes
          MaxGmcs, MaxConfigs, Commands, MaxCreates, MaxOps, Faults, MaxFaults

ASSUME ParameterAssumption ==
  /\ Fabric \subseteq Nat /\ IsFiniteSet(Fabric) /\ Hosts \in [Fabric -> Nat]
  /\ Minimum \in Nat \ {0}
  /\ {MaxGmcs, MaxConfigs, MaxCreates, MaxOps, MaxFaults} \subseteq Nat
  /\ Commands \subseteq {"create", "add", "delete", "delete some", "update"}
  /\ Faults \subseteq {"oci", "limited", "slow", "host"}

VARIABLES
  inventory, \* inventory_<cluster> exists
  ccs,       \* the compute clusters of that name
  gmc,       \* the compute GPU memory clusters
  free,      \* each fabric's AVAILABLE hosts
  rows,      \* the memory clusters with nodes in the database
  images,    \* the image of each instance configuration
  op,        \* the operator's command
  svc,       \* the service's pass
  twice,     \* history: there were two compute clusters of the name at once
  mistaken,  \* history: since it was last written the inventory was removed by
             \* a deletion to which the compute clusters could not be listed
  creates, ops, faults

oci  == <<ccs, gmc, free, images>>
vars == <<inventory, oci, rows, op, svc, twice, mistaken, creates, ops, faults>>

Gmc == 1..MaxGmcs
Cc  == 1..MaxCreates

Absent == [state |-> "absent", fabric |-> 0, cc |-> 0, size |-> 0, config |-> 0]
Live == {g \in Gmc : gmc[g].state \in {"creating", "active", "deleting"}}

NoCommand == [cmd |-> "none", pc |-> "done", todo |-> <<>>, cc |-> 0, config |-> 0,
              seen |-> <<>>, made |-> <<>>, failed |-> FALSE]

Idle == op.pc \in {"done", "failed", "skipped"}

Init ==
  /\ inventory = FALSE /\ ccs = {} /\ gmc = [g \in Gmc |-> Absent]
  /\ free = Hosts /\ rows = {} /\ images = <<>>
  /\ op = NoCommand
  /\ svc = [pc |-> "wait", todo |-> <<>>, first |-> 0, cc |-> 0, config |-> 0]
  /\ twice = FALSE /\ mistaken = FALSE /\ creates = 0 /\ ops = 0 /\ faults = 0

Fault(f) == f \in Faults /\ faults < MaxFaults /\ faults' = faults + 1

(***************************************************************************)
(* OCI and the nodes.                                                      *)
(***************************************************************************)

(* The memory cluster is provisioned with the hosts there still are.         *)
Activate(g) ==
  LET f == gmc[g].fabric
      n == IF gmc[g].size < free[f] THEN gmc[g].size ELSE free[f] IN
  /\ gmc[g].state = "creating"
  /\ gmc' = [gmc EXCEPT ![g].state = "active", ![g].size = n]
  /\ free' = [free EXCEPT ![f] = @ - n]
  /\ UNCHANGED <<inventory, ccs, images, rows, op, svc, twice, mistaken, creates, ops, faults>>

Gone(g) ==
  /\ gmc[g].state = "deleting"
  /\ gmc' = [gmc EXCEPT ![g].state = "deleted"]
  /\ free' = [free EXCEPT ![gmc[g].fabric] = @ + gmc[g].size]
  /\ UNCHANGED <<inventory, ccs, images, rows, op, svc, twice, mistaken, creates, ops, faults>>

(* Its nodes report to the service with their memory cluster (at first it may *)
(* be missing), and are archived after they are gone.                        *)
Unregistered == {g \in Gmc : gmc[g].state = "active" /\ gmc[g].size > 0} \ rows

Register(g) ==
  /\ g \in Unregistered
  /\ rows' = rows \cup {g}
  /\ UNCHANGED <<inventory, oci, op, svc, twice, mistaken, creates, ops, faults>>

Archive(g) ==
  /\ gmc[g].state = "deleted" \/ gmc[g].size = 0
  /\ g \in rows /\ rows' = rows \ {g}
  /\ UNCHANGED <<inventory, oci, op, svc, twice, mistaken, creates, ops, faults>>

(* A host goes to repair.                                                    *)
Break(f) ==
  /\ free[f] > 0 /\ Fault("host")
  /\ free' = [free EXCEPT ![f] = @ - 1]
  /\ UNCHANGED <<inventory, ccs, gmc, images, rows, op, svc, twice, mistaken, creates, ops>>

(***************************************************************************)
(* Fabrics and launches, for the operator and the service.                 *)
(***************************************************************************)

(* Only memory clusters that are ACTIVE already count as use.                *)
Unused(f) ==
  free[f] > 0 /\ ~\E g \in Gmc : gmc[g].state = "active" /\ gmc[g].fabric = f

(* get_available_memory_fabric_targets, most hosts first, with their counts. *)
Targets ==
  LET before(f, h) == free[f] > free[h] \/ (free[f] = free[h] /\ f < h)
      fs == SetToSortSeq({f \in Fabric : Unused(f)}, before)
  IN [i \in DOMAIN fs |-> [fabric |-> fs[i], count |-> free[fs[i]]]]

(* resolve_fabric_targets refuses when nothing can be had.                   *)
SomeTarget == Targets # <<>>

(* The memory clusters that can still be created: a bound of the model.      *)
Slots == {g \in Gmc : gmc[g].state = "absent"}

(* create_compute_gpu_memory_cluster; OCI wants the compute cluster.         *)
Launch(t, cc, config) ==
  /\ cc \in ccs
  /\ \E g \in Slots :
       /\ \A s \in Slots : g <= s
       /\ gmc' = [gmc EXCEPT ![g] = [state |-> "creating", fabric |-> t.fabric, cc |-> cc,
                                     size |-> t.count, config |-> config]]

(***************************************************************************)
(* The service: auto_add_available_nodes for the island.                   *)
(***************************************************************************)

(* The rows of the cluster are read first; there must be one.                *)
Scan ==
  /\ svc.pc = "wait" /\ SomeTarget
  /\ \E g \in rows : svc' = [svc EXCEPT !.pc = "each", !.todo = Targets, !.first = g]
  /\ UNCHANGED <<inventory, oci, rows, op, twice, mistaken, creates, ops, faults>>

Proceed ==
  LET over == Len(svc.todo) = 1 IN
  svc' = [svc EXCEPT !.todo = Tail(@), !.cc = 0, !.config = 0, !.first = IF over THEN 0 ELSE @,
                     !.pc = IF over THEN "wait" ELSE "each"]

\* Mutant: a fabric with just enough hosts is left out.
EligibleAbove(t) == t.count > Minimum

Eligible(t) == t.count >= Minimum

(* run_add_memory_fabric reads the compute cluster and the configuration     *)
(* from the first node's memory cluster, unless that is gone ...             *)
Each ==
  /\ svc.pc = "each"
  /\ LET t == Head(svc.todo)
         first == gmc[svc.first] IN
     IF Eligible(t) /\ first.state # "deleted"
     THEN svc' = [svc EXCEPT !.pc = "launch", !.cc = first.cc, !.config = first.config]
     ELSE Proceed
  /\ UNCHANGED <<inventory, oci, rows, op, twice, mistaken, creates, ops, faults>>

(* ... and creates the new one; whatever goes wrong, the next fabric follows. *)
AutoLaunch ==
  /\ svc.pc = "launch" /\ Slots # {}
  /\ \/ Launch(Head(svc.todo), svc.cc, svc.config) /\ faults' = faults
     \/ svc.cc \notin ccs /\ gmc' = gmc /\ faults' = faults
     \/ Fault("oci") /\ gmc' = gmc
  /\ Proceed
  /\ UNCHANGED <<inventory, ccs, free, images, rows, op, twice, mistaken, creates, ops>>

Pass == Scan \/ Each \/ AutoLaunch

(***************************************************************************)
(* The operator's commands.                                                *)
(***************************************************************************)

Command(c, first) ==
  /\ Idle /\ c \in Commands /\ ops < MaxOps /\ ops' = ops + 1
  /\ op' = [first EXCEPT !.cmd = c]

Finish(pc) == op' = [op EXCEPT !.pc = pc, !.todo = <<>>]

AfterThis == IF Len(op.todo) = 1 THEN "done" ELSE op.pc

(* clusters create: the check looks at the rows; then the inventory, the     *)
(* instance configuration, the compute cluster and each memory cluster.      *)
Create ==
  /\ rows = {} /\ SomeTarget /\ creates < MaxCreates /\ creates' = creates + 1
  /\ inventory' = TRUE
  /\ \/ /\ Len(images) < MaxConfigs /\ images' = Append(images, "old") /\ faults' = faults
        /\ Command("create", [NoCommand EXCEPT !.pc = "cc", !.todo = Targets, !.config = Len(images) + 1])
     \/ Fault("oci") /\ images' = images /\ Command("create", [NoCommand EXCEPT !.pc = "failed"])
  /\ mistaken' = FALSE
  /\ UNCHANGED <<ccs, gmc, free, rows, svc, twice>>

CreateCc ==
  /\ op.pc = "cc"
  /\ \/ /\ ccs' = ccs \cup {creates} /\ faults' = faults
        /\ op' = [op EXCEPT !.pc = "launch", !.cc = creates]
     \/ Fault("oci") /\ ccs' = ccs /\ Finish("failed")
  /\ twice' = (twice \/ \E c, d \in ccs' : c # d)
  /\ UNCHANGED <<inventory, gmc, free, images, rows, svc, mistaken, creates, ops>>

(* clusters add memory-fabric --all: the compute cluster and configuration   *)
(* of a node's memory cluster; without nodes, the only compute cluster of    *)
(* that name and a new configuration for each fabric.                        *)
Add ==
  /\ SomeTarget
  /\ \/ \E g \in rows : gmc[g].state # "deleted" /\
          Command("add", [NoCommand EXCEPT !.pc = "launch", !.todo = Targets,
                                           !.cc = gmc[g].cc, !.config = gmc[g].config])
     \/ rows = {} /\ Cardinality(ccs) = 1 /\
          Command("add", [NoCommand EXCEPT !.pc = "launch", !.todo = Targets,
                                           !.cc = CHOOSE c \in ccs : TRUE])
  /\ UNCHANGED <<inventory, oci, rows, svc, twice, mistaken, creates, faults>>

OpLaunch ==
  /\ op.pc = "launch" /\ Slots # {}
  /\ \/ /\ IF op.config # 0 THEN images' = images /\ Launch(Head(op.todo), op.cc, op.config)
           ELSE /\ Len(images) < MaxConfigs /\ images' = Append(images, "old")
                /\ Launch(Head(op.todo), op.cc, Len(images) + 1)
        /\ op' = [op EXCEPT !.todo = Tail(@), !.pc = AfterThis] /\ faults' = faults
     \/ /\ Fault("oci") \/ (op.cc \notin ccs /\ faults' = faults)
        /\ Finish("failed") /\ UNCHANGED <<gmc, images>>
  /\ UNCHANGED <<inventory, ccs, free, rows, svc, twice, mistaken, creates, ops>>

Listings(gs) == {s \in [1..Cardinality(gs) -> gs] : IsInjective(s)}

(* clusters delete --cluster: the memory clusters of the rows, sorted.       *)
DeleteCluster ==
  /\ rows # {}
  /\ \E gs \in Listings(rows) :
       /\ \A i, j \in DOMAIN gs : i < j => gs[i] < gs[j]
       /\ Command("delete", [NoCommand EXCEPT !.pc = "delete", !.todo = gs])
  /\ UNCHANGED <<inventory, oci, rows, svc, twice, mistaken, creates, faults>>

(* The same when the first node's row has no memory cluster: the deletion of *)
(* a cluster of nodes, looking for what they belong to.  That the compute    *)
(* clusters could not be listed is taken for there being none (cc 0).        *)
DeleteNodes ==
  /\ \E blank \in SUBSET Unregistered : \E first \in blank : \E cc \in {0, gmc[first].cc} :
       /\ Command("delete", [NoCommand EXCEPT !.pc = "terminate", !.cc = cc,
                               !.seen = SetToSeq(rows \cup blank)])
       /\ IF cc = 0 THEN Fault("oci") ELSE faults' = faults
  /\ UNCHANGED <<inventory, oci, rows, svc, twice, mistaken, creates>>

(* Instances end, of some memory clusters or of all, which stay without.     *)
End(gs) ==
  /\ gmc' = [g \in Gmc |-> IF g \in gs /\ gmc[g].state = "active" THEN [gmc[g] EXCEPT !.size = 0] ELSE gmc[g]]
  /\ LET size(g) == gmc[g].size
         on(f) == {g \in gs : gmc[g].state = "active" /\ gmc[g].fabric = f} IN
     free' = [f \in Fabric |-> free[f] + MapThenSumSet(size, on(f))]

(* The instances of the nodes are terminated one by one; then the compute    *)
(* cluster is deleted, or without one the inventory goes at once.            *)
Terminate ==
  /\ op.pc = "terminate"
  /\ \/ /\ End(ToSet(op.seen)) /\ op.cc # 0 /\ UNCHANGED <<inventory, mistaken, faults>>
        /\ op' = [op EXCEPT !.pc = "delete cc", !.seen = <<>>]
     \/ /\ End(ToSet(op.seen)) /\ op.cc = 0 /\ faults' = faults
        /\ inventory' = FALSE /\ mistaken' = TRUE
        /\ op' = [NoCommand EXCEPT !.cmd = "delete"]
     \/ /\ \E gs \in SUBSET ToSet(op.seen) : End(gs)
        /\ Fault("oci") /\ UNCHANGED <<inventory, mistaken>>
        /\ op' = [NoCommand EXCEPT !.cmd = "delete", !.pc = "failed"]
  /\ UNCHANGED <<ccs, images, rows, svc, twice, creates, ops>>

(* clusters delete --memory_cluster: those of the requested that have rows,  *)
(* in the order of the request.                                              *)
DeleteSome ==
  /\ \E some \in SUBSET {g \in rows : gmc[g].state # "deleted"} : some # {} /\
       \E gs \in Listings(some) :
         Command("delete some", [NoCommand EXCEPT !.pc = "delete", !.todo = gs, !.seen = gs])
  /\ UNCHANGED <<inventory, oci, rows, svc, twice, mistaken, creates, faults>>

(* After one memory cluster: the next; then the compute cluster, if all were *)
(* asked for and at least one was deleted.                                   *)
AfterOne(cc) ==
  op' = [op EXCEPT !.todo = Tail(@), !.cc = cc,
           !.pc = IF Len(op.todo) > 1 THEN "delete"
                  ELSE IF op.cmd = "delete some" THEN (IF op.failed THEN "failed" ELSE "done")
                  ELSE IF cc # 0 THEN "delete cc" ELSE "skipped"]

\* Mutant: the failures are not counted.
DeleteErrorSwallowed ==
  op' = [op EXCEPT !.todo = Tail(@), !.pc = IF Len(op.todo) > 1 THEN "delete" ELSE "done"]

(* An error ends the deletion of a cluster; among chosen memory clusters it  *)
(* is counted and the next one follows.                                      *)
DeleteError ==
  IF op.cmd = "delete" THEN Finish("failed")
  ELSE op' = [op EXCEPT !.failed = TRUE, !.todo = Tail(@),
                        !.pc = IF Len(op.todo) > 1 THEN "delete" ELSE "failed"]

(* delete_memory_cluster: three refusals for the rate, or any other, raise.  *)
Delete ==
  /\ op.pc = "delete"
  /\ LET g == Head(op.todo) IN
     \/ gmc[g].state = "deleted" /\ AfterOne(op.cc) /\ UNCHANGED <<gmc, faults>>
     \/ /\ gmc[g].state \in {"creating", "active"}
        /\ gmc' = [gmc EXCEPT ![g].state = "deleting", ![g].size = IF gmc[g].state = "active" THEN @ ELSE 0]
        /\ op' = [op EXCEPT !.pc = "await"] /\ faults' = faults
     \/ gmc[g].state = "deleting" /\ DeleteError /\ UNCHANGED <<gmc, faults>>
     \/ gmc[g].state # "deleted" /\ (Fault("oci") \/ Fault("limited")) /\ DeleteError /\ gmc' = gmc
  /\ UNCHANGED <<inventory, ccs, free, images, rows, svc, twice, mistaken, creates, ops>>

\* Mutant: the deletion is not waited for.
AwaitNothing ==
  /\ op.pc = "await" /\ AfterOne(gmc[Head(op.todo)].cc)
  /\ UNCHANGED <<inventory, oci, rows, svc, twice, mistaken, creates, ops, faults>>

(* wait_for_memory_cluster_deleted, ten attempts.                            *)
Await ==
  /\ op.pc = "await"
  /\ LET g == Head(op.todo) IN
     \/ gmc[g].state = "deleted" /\ AfterOne(gmc[g].cc) /\ faults' = faults
     \/ gmc[g].state = "deleting" /\ Fault("slow") /\ DeleteError
  /\ UNCHANGED <<inventory, oci, rows, svc, twice, mistaken, creates, ops>>

Blocking(cc) == {g \in Live : gmc[g].cc = cc}

\* Mutant: the inventory goes although the compute cluster is refused.
DeleteCcAnyway ==
  /\ op.pc = "delete cc" /\ inventory' = FALSE
  /\ ccs' = IF Blocking(op.cc) = {} THEN ccs \ {op.cc} ELSE ccs
  /\ Finish("done")
  /\ UNCHANGED <<gmc, free, images, rows, svc, twice, mistaken, creates, ops, faults>>

(* delete_compute_cluster: refused by OCI as long as it has a memory         *)
(* cluster; retried ten times while that one is being deleted.               *)
DeleteCc ==
  /\ op.pc = "delete cc"
  /\ \/ /\ Blocking(op.cc) = {} /\ op.cc \in ccs
        /\ ccs' = ccs \ {op.cc} /\ inventory' = FALSE /\ Finish("done") /\ faults' = faults
     \/ /\ \/ \E g \in Blocking(op.cc) : gmc[g].state # "deleting" /\ faults' = faults
           \/ Blocking(op.cc) # {} /\ Fault("slow")
           \/ op.cc \notin ccs /\ faults' = faults
           \/ Fault("oci")
        /\ Finish("failed") /\ UNCHANGED <<ccs, inventory>>
  /\ UNCHANGED <<gmc, free, images, rows, svc, twice, mistaken, creates, ops>>

(* clusters update-instance-config --image-id: the memory clusters of the    *)
(* rows that OCI still knows, with the configurations they have now.         *)
Update ==
  /\ \E gs \in Listings({g \in rows : gmc[g].state # "deleted"}) :
       /\ gs # <<>> /\ \A i, j \in DOMAIN gs : i < j => gs[i] < gs[j]
       /\ Command("update", [NoCommand EXCEPT !.pc = "update", !.todo = gs,
                               !.seen = [i \in DOMAIN gs |-> <<gs[i], gmc[gs[i]].config>>],
                               !.made = [c \in DOMAIN images |-> 0]])
  /\ UNCHANGED <<inventory, oci, rows, svc, twice, mistaken, creates, faults>>

SourceOf(g) == CHOOSE c \in DOMAIN images : <<g, c>> \in ToSet(op.seen)

(* The copy of the source, made when this call has none yet.                 *)
Copy(c) ==
  IF op.made[c] # 0 THEN images' = images
  ELSE Len(images) < MaxConfigs /\ images' = Append(images, "new")

Target(c) == IF op.made[c] # 0 THEN op.made[c] ELSE Len(images) + 1

\* Mutant: the copy of a source is not remembered.
UpdateOneForgets ==
  /\ op.pc = "update"
  /\ LET g == Head(op.todo) IN
     /\ Len(images) < MaxConfigs /\ images' = Append(images, "new") /\ gmc[g].state # "deleted"
     /\ gmc' = [gmc EXCEPT ![g].config = Len(images) + 1]
     /\ op' = [op EXCEPT !.todo = Tail(@), !.pc = AfterThis]
  /\ UNCHANGED <<inventory, ccs, free, rows, svc, twice, mistaken, creates, ops, faults>>

(* One copy is made of each source in this call; the first error ends it,    *)
(* perhaps with a copy that nothing uses.                                    *)
UpdateOne ==
  /\ op.pc = "update"
  /\ LET g == Head(op.todo)
         c == SourceOf(g) IN
     \/ /\ Copy(c) /\ gmc[g].state # "deleted" /\ faults' = faults
        /\ gmc' = [gmc EXCEPT ![g].config = Target(c)]
        /\ op' = [op EXCEPT !.todo = Tail(@), !.pc = AfterThis, !.made[c] = Target(c)]
     \/ /\ op.made[c] = 0 /\ Fault("oci") /\ Finish("failed") /\ UNCHANGED <<gmc, images>>
     \/ /\ Copy(c) /\ Finish("failed") /\ gmc' = gmc
        /\ Fault("oci") \/ (gmc[g].state = "deleted" /\ faults' = faults)
  /\ UNCHANGED <<inventory, ccs, free, rows, svc, twice, mistaken, creates, ops>>

Operator == \/ Create \/ CreateCc \/ Add \/ OpLaunch \/ DeleteCluster \/ DeleteNodes \/ Terminate
            \/ DeleteSome \/ Delete \/ Await \/ DeleteCc \/ Update \/ UpdateOne

World == \/ \E g \in Gmc : Activate(g) \/ Gone(g) \/ Register(g) \/ Archive(g)
         \/ \E f \in Fabric : Break(f)

Next == Operator \/ Pass \/ World

Spec == Init /\ [][Next]_vars

(* The service's timer, OCI's work and the nodes' reports go on; operators   *)
(* need not.                                                                 *)
Fairness ==
  /\ WF_vars(Pass)
  /\ \A g \in Gmc : WF_vars(Activate(g) \/ Gone(g)) /\ WF_vars(Register(g))

FairSpec == Spec /\ Fairness

(***************************************************************************)
(* Properties.                                                             *)
(***************************************************************************)

\* As long as the compute cluster exists its nodes find their inventory: it
\* is there first and goes last, through failures in the middle of commands,
\* repeated creations and memory clusters that the service adds meanwhile.
\* Except: two compute clusters of one name share the inventory, and the
\* deletion of either takes it; and a deletion by nodes without a memory
\* cluster takes it when the compute clusters could not be listed.
InventoryKept == ~twice /\ ~mistaken /\ ccs # {} => inventory

\* A deletion of chosen memory clusters that reports success has outlived
\* all of them, whatever failed or was refused in between.
ReportedDeletes ==
  op.cmd = "delete some" /\ op.pc = "done" =>
    \A i \in DOMAIN op.seen : gmc[op.seen[i]].state = "deleted"

\* An update that gets through leaves every memory cluster it chose and that
\* lives on with the new image, and those that shared a configuration still
\* share one.
UpdatedIsUniform ==
  op.cmd = "update" /\ op.pc = "done" =>
    \A s, t \in ToSet(op.seen) :
      /\ images[gmc[s[1]].config] = "new"
      /\ s[2] = t[2] => gmc[s[1]].config = gmc[t[1]].config

(* A fabric the service is to use: enough hosts, no memory cluster, and      *)
(* nodes of the cluster to take the configuration from.                      *)
Offered(f) ==
  /\ Unused(f) /\ free[f] >= Minimum
  /\ ~\E g \in Live : gmc[g].fabric = f
  /\ rows # {} /\ \A g \in rows : gmc[g].state # "deleted" /\ gmc[g].cc \in ccs
  /\ Slots # {}

\* The service uses every fabric that stays available, also after failures of
\* its own and while operators work on the cluster.
AvailableIsUsed == \A f \in Fabric : Offered(f) ~> ~Offered(f)
=============================================================================
