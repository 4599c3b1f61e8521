# Verification of the OCI HPC management stack

TLA+ models of the control plane in this repository, the TLC configurations
that check them on small instances, and proofs about them for every instance
that TLAPS checks.  The subject is the management service and the commands on
the controller node (`mgmt/`), the event function that feeds the service
(`function/`), the health-check programs on the nodes, and the playbooks as far
as the control plane depends on what they do.

Run from this directory: `tlc -config LifecycleSafety.cfg MCNodeLifecycle.tla`
(and so on, see the table of runs), `tlapm NodeLifecycleProofs.tla`.

## 1. The system

| Part | Code | State it keeps | Operations | What makes it hard | What makes it correct |
|---|---|---|---|---|---|
| OCI and the nodes | outside; `event.tf`, `playbooks/compute.yml` | instances, addresses, a web server per node | launch, terminate, boot, answer `/info`, `/healthchecks` | act on their own | - |
| Event function | `function/func.py` | none of its own; DNS, display name, tag, queue | one invocation per launch or termination | runs in parallel with itself, may die between its steps | an event reaches the queue, the name is set once |
| Queue | `queues.tf` | messages, visibility timeout | put, get, delete | unordered, delivers again what was not deleted | - |
| Database | `mgmt/lib/database.py` | tables `nodes`, `terminated_nodes`, `healthchecks`, `configurations` | upsert, update, move, delete, queries | one session per call: nothing spans two calls | one row per address, rows of instances that exist |
| Management service | `mgmt/lib/cli/services/commands/run.py` | nothing between passes, a snapshot within one | a pass a minute: queue, rescan, metadata, maintenance, playbook, auto-add, health checks, validation | acts on what it read minutes ago; can die anywhere | every launch is configured, every termination archived, nobody else |
| Operator commands | `mgmt/lib/cli/**` | nothing | terminate, reconfigure, reboot, add, delete, sync, ... | write the rows a pass is working on | do what they say, now or after the pass |
| Maintenance events | `mgmt/lib/functions.py` | columns of `nodes`; the drain reason in Slurm | choose, show, move, drain, resume, record | OCI, operators and the node's health check change the same state | maintenance drains, its end resumes, others' drains stay |
| Initial validation | `run.py`, `database.py`, `functions.py`, `playbooks/roles/healthchecks` | reservation, jobs, logs and reports on the nodes, table `healthchecks` | reserve, submit, pair, judge, copy, release | verdicts age and lag, reports are overwritten, calls fail one by one | a sound node comes out, a broken one does not |
| Passive health check | `playbooks/roles/healthchecks/files/check_gpu_setup.py`, `xid_checker.py`, `rdma_*.py` | one JSON file per node, a log | 26 checks in a fixed order, a recommendation, a drain reason | one finding hides another; the host changes while it is looked at | the gravest finding is the recommendation |
| Test programs | `active_healthcheck.py`, `multi_node_active_healthcheck.py`, `gpu_sdc_checker.py` | the same file, a log | collectives, GPU burn, data corruption, RDMA bandwidth and latency | rounds, retries, time limits, silent tools, kills | passed means measured; a failure is not lost |
| Diagnosis | `scripts/diagnostics/ncclscout.py` | none, a log | test in pairs, retest with good nodes, test suspects with each other | a test judges two nodes at once; tests go wrong | sound nodes cleared, others reported |
| Health script | `slurm/templates/healthchecks.sh.j2` | drain reason in Slurm | run the check, grep its log, drain or resume | runs as prolog and from slurmd at once, next to operators | a drain lasts as long as the trouble |
| Auto-add, cluster growth | `mgmt/lib/auto_add.py`, `ociwrap.py` `run_add` | size of OCI pools | count hosts, grow | reads a size and sets another later | grows by what is available, once |
| Clusters, memory clusters | `ociwrap.py`, `cli/clusters` | OCI resources, inventory files | create, grow, delete, update configuration | long sequences over many resources | what is left after a failure can be finished |
| Slurm configuration, topology | `cli/configurations`, `cli/services/commands/topology.py`, `playbooks/slurm_reconcile.yml` | table `configurations`, `slurm.conf`, `topology.yaml`, what slurmctld has loaded | create, update, delete, import, replay | the table is read twice, runs take no lock, the notifications of a run that fails are lost | files and slurmctld follow the table |
| Recommendations | `cli/recommendations` | none | list, run | verdicts are copies of copies; looks twice at moving state | no disruptive action on a busy node or on an old verdict |
| Exporters, other roles, terraform, scripts | `playbooks/roles/**`, `*.tf`, `scripts` | metrics, deployed files | - | - | not part of the control plane |

Nothing but the database serialises these actors.  The service reads it at the
start of a phase, talks to the network or runs a playbook for minutes, and
writes back what it concluded; operators, OCI and the nodes go on meanwhile.
Hence the hazards listed in `PROJECT.json`: stale snapshots, lost updates,
events repeated, lost or out of order, and sequences of calls of which one fails.

    OCI --event--> function --message--> queue --scan--> nodes table <--CLI-- operators
                                                            |  ^
          node web server --/info, /healthchecks--> service pass --playbook--> Slurm, nodes
                                                            |
                    Slurm jobs --report--> node file        +--sbatch, scontrol--> Slurm

## 2. The modules

| Module | Models | Theorems in |
|---|---|---|
| `NodeTable` | the table `nodes` and the functions of `database.py` that write it | `NodeLifecycleProofs` |
| `Membership` | abstract: the stages of an address, and who may move it from one to the next | - |
| `NodeLifecycle` (extends `NodeTable`) | launch to archive: OCI, function, queue, the pass up to the playbook, operator commands; implements `Membership` | `NodeLifecycleProofs` |
| `MaintenanceEvents` | one node's maintenance events | `MaintenanceEventsProofs` |
| `InitialValidation` | the reservation `InitialValidation` and the scheduled health checks | `InitialValidationProofs` |
| `SlurmReconcile` | a change of the table `configurations` on its way through the reconciliation playbook to `slurm.conf`, `topology.yaml` and slurmctld | `SlurmReconcileProofs` |
| `MemoryClusters` | a cluster of GPU memory clusters: create, add, delete, update, auto-add | `MemoryClustersProofs` |
| `XidChecks`, `HostChecks` | what each passive check concludes of a host (operators only) | - |
| `HealthVerdict` | abstract: a recommendation as grave as the gravest finding | - |
| `PassiveCheck` (extends `HostChecks`) | one pass of the passive check over a host that changes; implements `HealthVerdict` | `PassiveCheckProofs` |
| `Recommendations` | which rows `mgmt recommendations run` picks, holds back and acts on (operators only) | - |
| `NodeHealth` (extends `Recommendations`) | one node under health script, checks, operators, the service and recommendations | `NodeHealthProofs` |
| `ActiveTests` | the programs of a test job, on one node or a pair | `DiagnosticsProofs` |
| `NcclScout` | the diagnosis of slow and dead nodes by tests in pairs | `DiagnosticsProofs` |
| `MC...` | small instances for TLC, one per state machine | - |

The components meet in what they share: `NodeLifecycle` and `InitialValidation`
in the rows of the table, `MaintenanceEvents` and `NodeHealth` in the drain
reason, `InitialValidation` and `NodeHealth` in the node's healthchecks file.
Each takes the others' steps as those of an environment that may do more than
the other module lets them: `Passive` in `MaintenanceEvents` drains and resumes
at any time, `NodeHealth` takes any verdict `PassiveCheck` can publish,
`InitialValidation` any result of a test.

Every module comments its variables; `PROJECT.json` maps each definition to the
lines it stands for.  A definition whose comment begins with "Mutant:" is
a deliberately broken variant of a definition after it, used to see that a
property would notice the bug.

### NodeTable, NodeLifecycle, Membership

A row keeps the columns control flow depends on: `status`,
`controller_status`, `compute_status`, the address, and whether it ever
reported a role.  Each function of `database.py` that writes is an operator
from a table to a table.  The table is indexed by the `ocid` column, which
follows `/info`: a row whose address is answered by another instance becomes
that instance's row (`StoreInfo`).

One action per message (`HandleStarting`, `HandleTerminating`), per row of a
loop that writes (`StoreMetadata`, `MarkConfigured`, `MoveTerminated`) and per
phase otherwise: `StartPass`, `EndScan`, `Rescan`, `Fetch` (both HTTP rounds,
with the set of silent nodes chosen), `Snapshot` (`ansible_logic` reads who is
configuring and terminating), the playbook, `EndPass`; `Crash` at any place.
The playbook is three steps, minutes apart: `PlayQuery` asks the table again
which nodes to add and which to remove, `PlayDelete` deletes the latter's names
from Slurm, and `PlaySucceeds` or `PlayFails` follows from what Slurm still has;
everybody else acts in between.  Commands that
write the row and then call OCI are two actions (`Terminate`/`Submit`,
`Reboot`/`MarkRebooted`, `ReconfigureAll`/`CloudInit`), so that a pass can run
in between.  The event function is one step that puts the message or loses it.

`Membership` is the same seen from the addresses, without messages, passes and
OCIDs.  An address is absent, joining, a member or leaving; the service may let
it join at any stage (a late `starting` message and a first answer do take a
mark back), but it makes members only of joining ones, marks as leaving only
what was given up, and retires and takes out of Slurm only what is leaving.
Operators may move an address as they like; when they do so while a pass holds
its snapshot the address is `touched`, and until the pass is over its playbook
may take the address out of Slurm (`Unregister`) and its last writes may go over
what they did (`Override`).  The refinement
(`Life == INSTANCE Membership WITH ...`) reads the stage of an address off the
`controller_status` of the row that has it.

### MaintenanceEvents

One compute node with several events.  A pass is a sequence of actions, one per
call that leaves the process: `ReadSlurm`, `List`, `Detail`, `Reschedule`,
`UpdateSlurm`, `Store`.  `Handle` and `HandleStep` hold the decisions between
the calls, with what the pass saw in `seen` and `copy`.  OCI (`Announce`,
`Approach`, `Lapse`, `Proceed`, `End`), operators (`Others`), the passive
health check (`Passive`) and the node's health-check program (`ScriptReads`,
`ScriptActs`) act between any two of them.  Slurm's answer comes in two calls: `sinfo` says
that a node is drained, `scontrol show node` why, and when the second fails or
leaves the node out (fault "details") the reason is "unknown", which the code
takes for somebody else's.  A window is known by where it
stands on the clock (past, near, far), as the code only compares.  Taken as
given: the list call carries no fault ids, OCI refuses to move an event that
has begun, the time of the end is set when an event ends, a drain by a prolog
or an operator is "other", and the policy file does not change.

### InitialValidation

What a node is really like (`kind`: sound, broken GPUs, broken link) is fixed;
what is believed of it goes through the node's log, its `healthchecks` file and
its row.  `Join` is the end of the compute playbook.  `Fetch`, `Sinfo`,
`ActiveHC`, `MultiNodeHC` and `Release` are the phases of a pass that matter
here.  Jobs are pending until `StartJob` places them or `ExpireJob` removes
them at their deadline, and end in `FinishActive`, `FinishMulti` or `LoseJob`.  A
failed active check writes its report and drains nothing, as its message is
printed and not logged (section 5).
A healthy verdict carries its age against the two thresholds (an hour for
release, a day for repetition); `HourPasses` and `DayPasses` move it.
`Release` follows `remove_nodes_from_reservation` call by call: in bulk, one by
one up to the first failure, and then the whole reservation if what is left
prints as one host-list entry.

Taken as given: passive checks are healthy; a drain by a check takes effect;
operators leave the reservation alone; hostnames differ in their number, in
order; reserving and registering a node is one step; an hour passes within a
pass only while the playbook runs; a released node is busy with users' jobs
unless it is in `Spare`; the health-check records of a pass are written where
the files are fetched (nothing reads the table in between).

### SlurmReconcile

A row of the table is its name, its partition and whether it is permanent; the
files are what they say of the rows (`SlurmConf`: node sets, on-demand nodes,
partitions, healthcheck partitions; `Topology`: roots and on-demand leaves).
The four commands that change the table (`Duplicate`, `Update`, `Delete`,
`ImportFile`) commit the change and begin a run of `slurm_reconcile.yml`;
`Replay` (`mgmt services init`) begins one without a change, and `Members` is
the playbook by which nodes join and leave coming to `topology.yaml`.  A run is
one action per task that reads or writes what others share: `ReadTable`,
`WriteConf` (which notifies "Restart slurm server" if the file changes),
`ReadNodes`, `ReadTableAgain`, `WriteTopology` (which notifies "Reconfigure
slurm"), and the handlers `Restart` and `Reconfigure`.  Any number of runs are
under way at once; `Abort` ends one anywhere, `RestartFails` may leave slurmctld
down, `ReconfigureFails` is a refusal, and `Started` is somebody starting
slurmctld again.  Six history variables say which runs have read the table as
it still is (`since`), that one of them succeeded (`confirmed`), which file was
last written from an older table (`overtaken`), which run nothing crossed
(`alone`, `repaired`) and that a run which may have written failed (`lagging`).

Taken as given: the controller has a row (without one the commands change the
table and skip the playbook); the retries of a task or handler are one attempt;
`scontrol reconfigure` loads all of both files.  That `mgmt services init` marks
the compute rows as reconfiguring belongs to the table `nodes`.

### MemoryClusters

OCI's side (`Activate`, `Gone`, `Register`), the service's pass (`Pass`:
fabrics with available hosts are listed, then launched one by one), and one
operator command at a time, call by call: `Create`/`CreateCc`,
`Add`/`OpLaunch`, `DeleteCluster` and `DeleteSome` with `Delete`, `DeleteError`,
`Await` and `DeleteCc`, `Update`/`UpdateOne`.  When the first row of a cluster
has no memory cluster yet, `DeleteNodes` and `Terminate` delete it by its
instances instead, with or without having found the compute cluster.  Names, addresses and tags are
left out; a memory cluster is its fabric, its compute cluster and its instance
configuration.  `twice` remembers that two compute clusters of one name existed at once:
they share an inventory file, and `InventoryKept` says nothing of it then;
`mistaken` remembers a deletion by instances that could not list the compute
clusters, which it excuses as well (section 5).

### XidChecks, HostChecks, PassiveCheck, HealthVerdict

A host is a record of what can be wrong with it.  `XidChecks` is the decision
table over Xid lines with its resets and reboots; `HostChecks` has an operator
per check that returns the reasons it gives and the action it asks for, in the
order in which `check_gpu_setup.py` runs them.  `PassiveCheck` runs one check
per step while the host may change (troubles and log lines appear, the log is
rotated, `nvidia-smi` starts to hang, the metadata service falls silent), keeps
the recommendation with `RecommendedAction`, and publishes.  `HealthVerdict` is
the promise in a page: `Find` something of a weight, keep the gravest,
`Publish` it.

Where the checks do hide one another by decision of the code, the properties
say so in named exceptions: a row remap that asks for a reboot takes back the
termination that the rows of an earlier GPU asked for (`Curable` in `Singly`),
a remap failure alone says nothing, one unreadable link discards the others'
issues (`Singly`), the interfaces of one shape are unknown to the program
(`Known`), a second reading of the log that fails drops all Xids, of one
Xid code only the highest severity is kept and a reset counts more than a
critical one there.

### Recommendations and NodeHealth

Every program that runs a check is at one of a few places between reading and
writing the shared file (`StartCheck`, `Judge`, `Load`, `Open`, `Dump`), and the
script adds three calls of its own: it greps the log (`Grep`), and then drains
(`Drain`), or asks Slurm for the reason of the drain (`Show`) and resumes
(`Resume`), with anybody's steps in between.  The history `sure` has the scripts
that grepped while the node was drained by the health check.  A reader between `Open` and
`Dump` meets a torn file.  `Fetch` copies file, OCI event and Slurm state into
the row (the newest result by its own time stays), and `Plan`, `AskOci`,
`AskSlurm` and `Act` are `mgmt recommendations run`.  `Befall`, `Crash`,
`Restarted`, `Submit`, `JobEnds`, `Scontrol`, `Announce` and so on are the
world.  The code's clock is three facts: the log is younger than a minute, a
reboot was within two hours, a maintenance window is minutes away.  Taken as
given: a restart takes longer than a minute; Slurm does not kill the health
script; drains for maintenance are `MaintenanceEvents`; an operator does not
run recommendations twice before the node is checked again.

### ActiveTests

A rig is what the tests need (launcher, plugin, rack) and what kind of node it
is.  Every answer of every tool, in every round and on every device, is chosen;
`attempt` is the retry the program is in; the operators `LocalNccl`,
`LocalRccl`, `PairNccl` and `PairRccl` are the four retry policies.  `Killed`
ends a program anywhere.  What a test passes over is in two operators:
`Forgiven` is what the programs let pass on purpose (a cancelled GPU burn, a
checker that is not installed), `Overlooked` what they let pass against their
own messages (GPUs without a checker or whose tests crashed, slow collectives
of two AMD nodes; section 5).

### NcclScout

A cluster is the sequence of the hosts that answered, in the order of their
answers, which is the order of the pairs; who did not answer is left out by the
program from the start.  Each has a condition (sound, slow, dead) and a shape;
what a pair measures follows from the two, except for `MaxGlitches` tests that
go wrong on their own.  `TestPair` and `TestUnpaired` are the first round (in
parallel in any order), `Sort` finds the suspects, `Retest` and `CrossTest` are
the phases after it, and `FinalGood` and `FinalBad` are the summary.  The
suspects of the last phase are a list (`order`) in whatever order their Python
set has, and its tests are pairs of places of that list.

## 3. The runs

| Run | Expect | Instance | Shows |
|---|---|---|---|
| lifecycle_safety | pass | 2 instances, 1 address, all 8 commands; at most 2 commands, or 1 command and 1 failure | `ArchivedByRequest`, `ClearedBeforeArchived`, `ConfiguredByPlaybook`, `ImplementsMembership`, `TypeOK` |
| lifecycle_liveness | pass | 2 instances, 1 address, 1 command, 1 failure, fairness | `QueuedIsConfigured`, `TerminatedLeaves` |
| events_safety | pass | 2 events, one detailed, mixed policy, 1 act of others, 1 failure of any of 7 kinds | `ForeignDrainKept`, `ResumedBeforeStored`, `TypeOK` |
| events_liveness | pass | 2 managed events, one detailed, 1 act of others, no failures, fairness | `ActiveIsDrained`, `CompletionResumes`, `FarIsMoved`, `StoredCatchesUp` |
| validation_safety | pass | 3 nodes, one broken link, perhaps broken GPUs; 1 failure; 2 jobs at a time | `SoundIsNotCondemned`, `BrokenStaysReserved`, `TypeOK` |
| validation_liveness | pass | 2 nodes, perhaps broken GPUs; 1 failure of any of 8 kinds: slow playbook, silent server, failed sinfo or scontrol, crash, lost job, report or log copy; fairness | `SoundIsReleased` |
| slurm_reconcile | pass | 2 runs at once, any number in turn; 2 names, 2 partitions, 2 clusters; 2 changes of the tables, 2 failures | `ReportedIsWritten`, `ReplayRepairs`, `RunningIsOnDisk`, `TypeOK` |
| clusters | pass | 2 fabrics of 1 and 2 hosts, 3 memory clusters, 2 creations, 3 commands, 1 failure, fairness | `InventoryKept`, `ReportedDeletes`, `UpdatedIsUniform`, `AvailableIsUsed` |
| passive_check | pass | hosts of 6 shapes, each with any one or a grave and another trouble or two bad GPUs or links, Xid logs, boots (misdated ones too); 2 changes during the pass | `NoTroubleHidesAnother`, `CriticalXidTerminates`, `EscalatedByReboots`, `RecordIsExplained`, `Implements` |
| node_health | pass | 1 node, 4 programs, 2 happenings, fairness | `JobsSpared`, `RepairIsChecked`, `DrainedUntilWell`, `TroubleIsReported`, `TypeOK` |
| active_tests | pass | every rig, 2 devices, 2 GPUs, fairness | `PassedIsMeasured`, `FailureIsRecorded` |
| nccl_scout | pass | up to 4 hosts of one shape with up to 3 not sound, 5 with up to 2, 5 of two shapes with one slow, up to 5 of which some have an unknown shape; 3 cross tests (the program: 10), 1 test gone wrong | `SoundIsCleared`, `FaultyIsReported` |

**Bounds.**  `MaxOps`, `MaxFaults`, `MaxCreates`, `MaxChanges`,
`MaxHappenings`, `MaxGlitches` and the constraints `Disturbances` and
`FewJobs` are the only bounds on behaviour; passes, messages, redeliveries,
jobs and events are unbounded within finite sets.  Two instances at one address
are the smallest instance in which an address is reused; two events the
smallest in which one hides another; three nodes the smallest reservation in
which a retest with another partner and an odd pair happen.  `FewJobs` keeps at
most two of the jobs Slurm would hold; repeated tests need two.  Two runs are
the smallest number at which one overtakes the other or loses what it notified,
and two names the smallest table with a permanent and an on-demand row; a fabric
of one host and one of two are the smallest in which a launch can be too big
for what is free; two troubles and two changes are the smallest at which one
finding hides another and the log changes between its two readings; of two
happenings on a node one can undo what the other caused; five hosts are the
smallest number with two pairs and an odd one, and with three cross tests of
six or ten some are left out.  Every mutant
is found within these bounds.  The theorems of section 4 hold for any number
of nodes, commands and failures; of the modules without theorems, and of
liveness, only the bounded instances are known.  `CHECK_DEADLOCK`
is off because bounded operators, faults and instances may all be spent.
Symmetry is used for `lifecycle_safety`, where nothing orders OCIDs or
addresses, and for the runs of `slurm_reconcile`; no liveness is checked in
either.  In `events_liveness` mgmt acts upon both events; the four properties
name what an event it does not act upon changes, and also hold with
`Managed = {1}, Detailed = {1}` and with `Managed = {2}`.

**Fairness.**  Weak fairness of the service's steps is the systemd timer
(`mgmt.timer`, every minute) together with a pass that runs to its end; of OCI,
the nodes, the queue's timeout and the second half of a command that they do
not stop by themselves; in `InitialValidation` of the jobs that Slurm can start
and finish and of the clock.  Nothing is assumed of operators, of instances
that are to be launched, of nodes that are to join, or of anything failing or
not failing.  `MaintenanceEvents` assumes of OCI only that windows open when
the clock reaches them (`Lapse`), not that an event ever starts or ends.
`MemoryClusters`: the timer, and that OCI finishes what it accepted.
`NodeHealth`: slurmd runs its health script, programs that were started come to
their next step, and a pass that finds the file whole again and again once
reads it whole (strong fairness of `Fetch`: the file is torn for a moment
within a check that runs for a minute, and a pass comes every minute).
`ActiveTests`: every tool returns or is timed out by its caller.
`NcclScout` has no liveness property.

**Mutants.**  Each property of a passing run has a variant of the code's model
that violates it: a deletion acknowledged twice, a snapshot that includes
silent nodes, a removal list that trusts the other mark, a second failure that
condemns whoever the partner was, a release that forgets the active check, a
file that is not replaced when it exists, a refused reconfiguration taken for
success, an inventory that goes before its compute
cluster, a finding that replaces a graver one, a second look at Slurm that is
answered from the row, a round that leaves out silent devices, ...

## 4. The proofs

All theorems are for every value of the constants that satisfies the
`ParameterAssumption` of the module (types of the bounds, sentinels that are
not elements, finitely many nodes in `InitialValidation`).  The
inductive invariant, a conjunction of named parts, stands next to the
properties of the module or, where a property has one of its own, before its
proof; `Init` implies it, a lemma for each part or action shows that `[Next]_vars` keeps
it, and the theorem concludes.

* `NodeLifecycleProofs` - `TypeCorrect`, `NobodyRetiredUnasked`
  (`ArchivedByRequest`), `PlaybookBeforeArchive` (`ClearedBeforeArchived`),
  `PlaybookBeforeConfigured` (`ConfiguredByPlaybook`), `LifecycleImplements`
  (`ImplementsMembership`).  `IInv` adds
  *Provenance* (messages, rows and the pass's data are about launched
  instances, a row has its instance's address, and what `/info` claims came
  from that address), *OneHolder* (no two live instances and no two rows share
  an address), *Requested* (every trace of a termination, in a message,
  a mark, a half-finished command or the pass's snapshot, goes back to a
  request) and *SnapshotHolds* (what the snapshot still says when the playbook
  runs and when it is written back, unless an operator was late).  The property
  alone is not inductive: a row is archived because of a snapshot, that because
  of a mark, that because of a message.
  The lemmas on the table (its operators preserve types, keep one row at an
  address and change one row) come first.  For the refinement, `Rewritten` and
  `StageKept` say how a changed table moves the stages of addresses, and
  `MembershipStep` gives for every action the step of `Membership` it
  is, or that there is none: a pass that writes back what it decided finds the
  row as it was, and a playbook that deletes a name from Slurm finds its row
  still marked, unless the address is touched (*SnapshotHolds*), and the two
  rows of `StoreInfo` have one address (*Provenance*, *OneHolder*).
* `MaintenanceEventsProofs` - `TypeCorrect`, `ForeignDrainSafe`
  (`ForeignDrainKept`), `SuccessResumes` (`ResumedBeforeStored`).  `IInv` adds
  *Fresh* (until touched, Slurm is as the pass saw it or as the pass set it),
  *Grounds* (a pending drain or resume was decided on what was seen) and
  *Resumed* (a success about to be stored found the node not drained by mgmt, or
  found no reason at all).
* `InitialValidationProofs` - `TypeCorrect`, `SoundNotCondemned`
  (`SoundIsNotCondemned`), `BrokenReserved` (`BrokenStaysReserved`).  `IInv`
  adds *Placed* (jobs run on joined nodes, two-node checks on two), *Grounds*
  (a doubted sound node names a partner with a broken link, and a bad one
  implies two such nodes: the second verdict needs another partner),
  *NoFalsePass* (neither file nor row of a node with broken GPUs is healthy)
  and *RowsHold* (from sinfo to the end of the pass the rows in validation are
  of reserved nodes, since only the pass itself releases).

* `PassiveCheckProofs` - `PassiveImplements`: for every catalog of Xids, set of
  hosts and course of changes, a pass implements `HealthVerdict` (`Implements`);
  `GravestAlwaysWins` and `PassiveTypeOK`.  The argument: `FindingIsReasoned`
  bounds what each of the 26 checks can ask for, whatever host it sees;
  `GraverWins` is the case analysis of `RecommendedAction`; together each check
  is a `Find` of the abstract specification (`ConcludeFinds`, `StepFinds`), and
  the steps of the host are stutters.  The four properties that compare the
  verdict with the host rest on `PassInvariant`: the host is a `Later` form of
  the one the pass began with (troubles stay, tools stop working, the shape is
  the same), and what is published is the verdict and status of what was found.
  `NothingIsHidden` (`NoTroubleHidesAnother`): `SingleIsMilder` and
  `MilderFindsLess` show check by check that a host with one of the troubles
  has no graver finding than the host itself, unless it is `nvidia-smi` that
  fails, and then the PCIe or the fabric check finds enough (`SmiIsMissed`);
  `CountedInv` says that what the checks done so far would find is outweighed.
  `CriticalTerminates` (`CriticalXidTerminates`): in a log that stays the code is
  critical when scanned, in the summary and in the action from then on
  (`CondemnedInv`).  `RebootsEscalate` (`EscalatedByReboots`) compares the
  counting of the program with the clock for histories of any length.
  `RecordsAreExplained` (`RecordIsExplained`): an action comes with a reason
  and a reason leaves a status (`StatusSpeaks`); an untroubled host gives none
  (`SoundInv`).
* `NodeHealthProofs` - all four safety properties of `NodeHealth`, for any
  number of happenings: `TypeCorrect`; `NoJobIsHit` (`JobsSpared`), from *Hung*
  (a node is down for Slurm only while its host hangs) and *Spared* (between
  Slurm's answer and the action the node is drained and without a job, unless
  it was resumed or came back); `RepairedIsChecked` (`RepairIsChecked`), from *Settled* (a
  run that saw a repair finished sees the same event the node has), *Traced*
  (as long as no check was published after the repair, no copy of a result
  claims one: not the file, the row, the plan, nor what the active check has
  read) and *Grounds* (what is about
  to be done has passed the guard against old verdicts); `DrainOutlivesTrouble`
  (`DrainedUntilWell`), from *Occupied* (a prolog belongs to a job),
  *Suspected* (while a drained node has neither a good verdict nor a line in
  the log that says why, nobody is about to grep, and a fresh log was emptied by
  a check of the script that has not judged yet) and *Grounded* (of the scripts
  in `sure`, one about to ask Slurm or to resume does so on a good verdict).
* `MemoryClustersProofs` - all three invariants: `InventoryIsKept`
  (`InventoryKept`), `ReportedIsDeleted` (`ReportedDeletes`) and
  `UpdateIsUniform` (`UpdatedIsUniform`).  For the first, `InventoryInv` adds
  that the inventory is there before the compute cluster is (`op.pc = "cc"`)
  and that there is one compute cluster of the name, unless `twice`; a deletion
  by instances that found none takes the inventory, and is `mistaken`.  For the
  second, `DeleteInv` says that each chosen memory cluster is deleted, still in
  the list, or counted as a failure (`Deleting`); `DeletedStays` shows that no
  step of anybody brings a deleted one back.  For the third, `UpdateInv` says
  that every memory cluster and every launch has a configuration that exists
  (`Configured`), and that an update has moved each memory cluster it chose to
  the copy of the configuration it had, or still has it in its list
  (`Updating`); launches and other commands leave the chosen ones alone
  (`Kept`), because a memory cluster is never made anew in the place of another.

* `DiagnosticsProofs` - of the test programs `PassedWasMeasured`
  (`PassedIsMeasured`).  `MeasureInv`
  adds that the tests ahead are different ones without a verdict (`Ahead`), and
  that of a test that is still running only cases that passed have been noted:
  a retry forgets the round, so what settles a test is one round.
  Of `ncclscout.py`, for clusters of any size, any number of cross tests and of
  tests gone wrong, `FaultyAreReported` (`FaultyIsReported`) and
  `SoundAreCleared` (`SoundIsCleared`).  `ScoutInv` says of the first that
  a fast result is never better than the two hosts allow (*Honest*) and that
  every host is ahead, has a result or was rightly left out (*Covered*,
  *InResults*).  For the second: the good hosts are always those of the fast pairs, and there is
  a partner for whoever waits (*Retested*); a pair of sound hosts that was not
  fast has used up the one test that may go wrong (*Spent*), so that the retest
  of a sound host with a good one tells the truth (*Cleared*), and, without
  anybody good, so does every cross test of two sound hosts (*Unconfirmed*,
  *CrossCleared*).

* `SlurmReconcileProofs` - all four properties of `SlurmReconcile`, for any
  tables and any number of runs, commands and failures: `TypeCorrect`;
  `ReportsAreWritten` (`ReportedIsWritten`), from `Written`: a run whose
  readings the table still is holds the table between reading and writing, and
  what it wrote stays unless it is overtaken (`WrittenBy`), because any other
  run that writes either holds the same table or is noted; `RunsAloneRepair`
  (`ReplayRepairs`), from `Alone`: a run that nothing crossed is the only one,
  and every file it has passed is as the tables say (`AloneWith`), so that the
  reconfiguration at its end loads both whoever left what before;
  `SlurmctldWorksWithTheFiles` (`RunningIsOnDisk`), from `Pending`: as long as
  slurmctld differs from the files a run that has written is still before its
  handlers, or one has failed there.

**What the proofs corrected.**  Some properties held in the runs only because
the instances were too small.  The attempt to prove them showed it, TLC
confirmed it on a larger instance, and the properties, the model of
`NodeHealth` (`judged`, `recom.resumed`) and the hosts of `passive_check` were
changed.

* `JobsSpared`: a node that is down for Slurm when `mgmt recommendations run`
  asks can come back and take a job before the action (three happenings).
* `DrainedUntilWell`: the last judgement may be an operator's without
  `--slurm`, after which the script greps the log of an earlier check (three
  happenings); only checks with `--slurm` count as judgements.
* `NoTroubleHidesAnother`: two GPUs with rows to remap, and a link that cannot
  be read beside a bad one, hide each other (section 2).
* `RecordIsExplained`: on an MI355X-v0.8 of one plane the check of WPA reports an
  unsupported shape of a sound host.
* `EscalatedByReboots`: the equality now names the other reason to give a host
  back, a boot whose date is read as one to come.
* Three conditional expressions had guards that overlap (`Bandwidth` and
  `PartnersOf` in `NcclScout`, `ScriptActs` in `MaintenanceEvents`).  TLC takes
  the first that holds, TLA+ leaves the choice open, and nothing followed from
  them; they are now nested in the order of the code.

Only model-checked: all liveness properties (the prover has no rules for
fairness and `ENABLED`); every safety property of a run is a theorem.
Deadlock is not checked: it would only find instances in which every bounded
command, failure and launch is spent; that nothing is stuck is what the liveness properties say.

## 5. Where code and documentation disagree

Met while modelling, and for the most part found by TLC when the statement
quoted was checked on the models; the properties that remain are stated so that
they hold of the code as it is:

* `db_create_node` reports a duplicate address only by returning False
  (`database.py:1465`); the scan ignores it and deletes the message
  (`ociwrap.py:934`).  The old row, still waiting to be archived, takes the new
  instance's OCID from its `/info` and the running instance is archived, against
  `Background.md:60`.
* `ansible_logic` archives the rows of its own snapshot (`run.py:71,79`), but
  the playbook asks the table again which nodes to remove from Slurm; a
  `reconfigure` of a terminating node in between leaves it in Slurm and archived,
  against `remove-ctld.yml:123`.
* A `terminating` message does not set `status` (`ociwrap.py:943`); if the node
  was never contacted and still answers in the same pass,
  `functions.py:308` writes `configuring` over the mark and the row stays, against
  `documentation/architecture-sequence-diagram.md:191`.
* An operator's drain set after `get_slurm_state` (`run.py:33`) is taken over or
  lifted by the pass, against `Maintenance-Events.md:69,75`.
* `_store_maintenance_event` reads an event without fault ids again
  (`functions.py:1308`); a success in between is recorded and never acted on,
  against `Maintenance-Events.md:74`.
* `get_nodes_validated` does not count reserved nodes that are allocated
  (`database.py:1902`), so a node is released unpaired while its partner runs a
  check, against the docstring (`database.py:1886`).
* When `scontrol show node` fails or omits a drained node, the reason of the
  drain is None (`functions.py:666`), mgmt's own drain counts as somebody
  else's, and the success of the event is recorded (`functions.py:1230`): no
  later pass resumes the node, against `Maintenance-Events.md:74`
  (`ResumedBeforeStored` excuses it).
* An event mgmt does not act upon hides those it does: a planned one whose
  window has passed is chosen before a managed one far in the future
  (`functions.py:885` makes the detour only for managed ones), which is then not
  moved, against `Maintenance-Events.md:60`, and one under way keeps a managed
  one from draining the node, against `:67` (`FarIsMoved` and `ActiveIsDrained`
  excuse it).
* The commands on configurations take no lock, nor does the playbook they run
  (`functions.py:237`): a run that read the table before a change may write
  `slurm.conf` after the change's own run reported success, against
  `Slurm-Partition-Runbook.md:88` (`overtaken`).
* A run killed or failed between writing `slurm.conf` and its handlers, or whose
  restart fails, loses the notification of "Restart slurm server"
  (`reconcile-ctld.yml:61`).  A replay (`Slurm-Partition-Runbook.md:89`) finds
  the file as it should be and does not restart: it repairs a slurmctld that
  runs, by `scontrol reconfigure`, but fails on one that is down.
* The healthcheck partitions are one for each configuration, named after it, and
  only in partitions without on-demand configurations
  (`slurm.conf.j2:194`), not `${PARTITION_NAME}-healthcheck`
  (`Slurm-Partition-Runbook.md:104`); the default partition is that of the first
  row (`display.py:140`), whatever the column `default_partition` says.
* Whether a run succeeded is read off the last recap line that begins with the
  controller's name (`functions.py:253`): a backup controller that failed is not
  noticed unless its name begins with it.
* When `list_compute_clusters` fails, `get_instance_type` takes it that there
  are none (`ociwrap.py:883`); a deletion of a cluster whose first row has no
  memory cluster yet then terminates the instances and removes the inventory,
  and the compute cluster stays (`InventoryKept` excuses it through `mistaken`).
* The health script greps the log, asks Slurm and resumes in three calls
  (`healthchecks.sh.j2:42-56`): a drain that a prolog sets in between is lifted
  unseen (`DrainedUntilWell` speaks of the drain the script saw).
* A check is dated when it writes its verdict (`check_gpu_setup.py:3226`), so a
  verdict judged before the end of a repair and written after it counts as one
  about the repaired node (`RepairIsChecked` counts it, too).
* `clusters create` refuses a name by the rows of the table (`create.py:104`):
  before the first node reports, or after a compute cluster could not be
  deleted, a second one of that name is made, against "already exists" (`:107`).
* `check_bad_pages` logs pending pages and falls off its end
  (`check_gpu_setup.py:2000`): the caller takes None for a pass.
* In `run_multi_node_rccl_test` the `continue` for a bandwidth below the
  threshold (`multi_node_active_healthcheck.py:762`) goes on with the next line
  of the output instead of the next attempt, so that a slow collective succeeds
  in the first three attempts, against the message of line 765.
* A GPU whose every test of `gpu_sdc_checker.py` crashed has the error count
  -1 and is among the healthy ones (`:462`); a GPU whose checker could not be
  made is left out (`:430`), while the message counts all as passed
  (`active_healthcheck.py:678`); a checker that cannot be imported counts as a
  success (`active_healthcheck.py:653`).
* `ncclscout.py` judges every node by the threshold of the first pair: a slow
  node of a faster shape is called good and a sound one of a slower shape bad,
  against its header ("automatically detects GPU shape/model to apply the correct
  expected bandwidth threshold", `:15`).  Of its cross tests only the first ten
  are run (`:753`), so that with more than five suspects a sound node may be
  called bad, and in parallel nobody is tested again unless a pair was fast.  A pair that
  measured 0.00 GB/s counts neither as good nor as bad nor as failed (`:724`)
  and can be missing from the summary; the model takes it for failed.
* An active failure is printed, not logged, as `Healthcheck_Active::`, and
  `active_HC.sbatch` greps the log for it: the node is not drained.
* A latency that cannot be parsed raises and ends the pair's program without an
  ERROR in its log, which makes the pair healthy.
* A manual check without `--slurm` leaves a fresh log without `Healthcheck::`;
  within a minute the health script resumes a node it had drained, although
  `Troubleshooting.md:45` calls such checks safe on busy nodes
  (`DrainedUntilWell` excludes them through `log.mute`).
* `FabricManagerRestart`, `Wait_For_OCA`, `Check_nhc_log` and the test
  programs' `Tag_and_Terminate` are in no group of
  `get_recommendation_node_groups` (`database.py:889`): nobody acts on them.
* A failing metadata service makes a multiplanar host look like one of one
  plane, and its checks are skipped; `last reboot` is read without a year, so
  that boots around New Year and on 29 February are misdated
  (`check_gpu_setup.py:3197`).
* A node of the reservation that is Potentially Bad is retested only with nodes
  whose own test is due (`run.py:112`).  With one broken link in a reservation
  of two, both end Potentially Bad, `nodes_healthy_resv` is empty for ever and
  neither is retested or released; `documentation/Troubleshooting.md:274` and
  `documentation/Slurm-Troubleshooting-Runbook.md:762` promise automatic removal
  after ten minutes, of which there is no trace in the code.
* After a removal that fails, the whole reservation is deleted when what is
  left of it prints as one host-list entry (`functions.py:1575`), unvalidated
  nodes included; the docstring (`functions.py:1519`) means the last node.
* The associated node of an unchanged verdict is not refreshed
  (`functions.py:417`), so a retest can exclude a partner of long ago.
* A `reconfigure` typed while the playbook runs is overwritten by
  `configured` (`run.py:78`, `reconfigure.py:128`).
* `Maintenance-Events.md:7` gives an order of selection that
  `functions.py:727` does not follow for ended events; an ended event that is
  recorded may go on being shown (`functions.py:1069`, against `:6`); an
  unmanaged event can hide a managed success (`functions.py:1326`).

## 6. Not modelled

Exporters, display commands, terraform and the other roles change no state the
control plane reads.  Of the parts that do: the growth of instance pools and
cluster networks (`run_add`) and the waiting variant of terminate, the inner
steps of the event function (DNS, display name, tag), the hosts files, what the
reconciliation playbook does besides `slurm.conf` and `topology.yaml`
(`gres.conf`, `job_container.conf`, the copies on a backup controller), the
repair options of `check_gpu_setup.py`, and what nothing calls: `run_nvme_tests`,
`generate_slurm_entries` and `sync_slurm_config`.  Parsing, rendering and logging are data
and left out, except where a value that cannot be parsed changes the course.
Slurm's limit of 60 seconds for its health script, and the renaming of nodes,
are left out too.

## 7. Plan

1. `PoolGrowth` - `run_add` on pools and cluster networks and
   `nodes_to_wait_for_gmc_termination`: the size is read before it is set
   (`ociwrap.py:527`, `terminate.py:42`).
2. `NodeEvents` - the steps of `function/func.py` with retries by the platform,
   as a refinement of the one-step function of `NodeLifecycle`.
