------------------------- MODULE InitialValidation -------------------------
(* How a new GPU node earns its place: the compute playbook puts it in the   *)
(* Slurm reservation InitialValidation, the management service submits an    *)
(* active health check on it and a two-node check on it and another one,     *)
(* the jobs write their verdicts into the file the node's web server serves, *)
(* each pass copies the files and the Slurm states into the database, and    *)
(* the last phase of the pass takes out of the reservation the nodes whose   *)
(* rows say that they passed.  Passive checks are taken to be healthy,       *)
(* operators are left out, and a drain always takes effect.                  *)
EXTENDS Integers, FiniteSets, SequencesExt

CONSTANTS Node,      \* the GPU nodes, by the number in their hostnames
          NoNode,    \* healthcheck_associated_node before there is one
          Kinds,     \* what the nodes may really be like
          Spare,     \* those that stay idle when they are released
          Faults,    \* what may go wrong
          MaxFaults  \* bound on how often

ASSUME ParameterAssumption ==
  /\ Node \subseteq Nat /\ IsFiniteSet(Node) /\ NoNode \notin Node
  /\ Spare \subseteq Node
  /\ Kinds \subseteq [Node -> {"sound", "gpu", "network"}]
  /\ Faults \subseteq {"fetch", "sinfo", "scontrol", "job", "copy", "report", "delay", "crash"}
  /\ MaxFaults \in Nat

VARIABLES
  kind,      \* what a node is really like: sound, or what is broken
  joined,    \* the nodes whose slurmd has registered
  resv,      \* the nodes in the reservation; it exists when this is not {}
  drained,   \* the nodes a health check has drained
  jobs,      \* the health-check jobs in Slurm, pending or running
  log,       \* each node's latest_multi_node_active_healthcheck.log
  file,      \* each node's http_server/files/healthchecks
  db,        \* its row: latest health checks and what sinfo said
  pc,        \* the next phase of the service's pass
  uncopied,  \* history: nodes a log did not get copied to
  faults

nodes == <<kind, joined, log, file, uncopied>>
slurm == <<resv, drained, jobs>>
vars  == <<nodes, slurm, db, pc, faults>>

(* A Healthy verdict carries its age: within the hour, within the day (the   *)
(* two health-check frequencies), or beyond.                                 *)
Healthy == {"fresh", "old", "expired"}
Active  == {"none", "failed"} \cup Healthy
Multi   == {"none", "Potentially Bad", "Bad"} \cup Healthy
File    == [active : Active, multi : Multi, with : Node \cup {NoNode}]
Row     == [active : Active, multi : Multi, with : Node \cup {NoNode},
            state : {"unknown", "idle", "allocated", "drain"}, reserved : BOOLEAN]
Job     == [test : {"active", "multi"}, want : SUBSET Node, without : SUBSET Node,
            reserved : BOOLEAN, on : SUBSET Node]

TypeOK ==
  /\ kind \in Kinds
  /\ joined \subseteq Node /\ resv \subseteq joined /\ drained \subseteq joined
  /\ jobs \subseteq Job
  /\ log \in [Node -> {"none", "ok", "ERROR"}]
  /\ file \in [Node -> File]
  /\ db \in [Node -> Row]
  /\ pc \in {"fetch", "sinfo", "active", "multi", "validated"}
  /\ uncopied \subseteq Node
  /\ faults \in 0..MaxFaults

Unchecked == [active |-> "none", multi |-> "none", with |-> NoNode]

Init ==
  /\ kind \in Kinds
  /\ joined = {} /\ resv = {} /\ drained = {}
  /\ jobs = {}
  /\ log = [n \in Node |-> "none"]
  /\ file = [n \in Node |-> Unchecked]
  /\ db = [n \in Node |-> [active |-> "none", multi |-> "none", with |-> NoNode,
                           state |-> "unknown", reserved |-> FALSE]]
  /\ pc = "fetch"
  /\ uncopied = {}
  /\ faults = 0

Fault(f) == f \in Faults /\ faults < MaxFaults /\ faults' = faults + 1

\* Mutant: the node is put in the reservation before its slurmd registers.
ReserveFirst(n) ==
  /\ n \notin resv
  /\ resv' = resv \cup {n}
  /\ UNCHANGED <<kind, joined, log, file, uncopied, drained, jobs, db, pc, faults>>

(* The compute playbook starts slurmd and adds the node to the reservation,  *)
(* which it creates if there is none.                                        *)
Join(n) ==
  /\ n \notin joined
  /\ joined' = joined \cup {n} /\ resv' = resv \cup {n}
  /\ UNCHANGED <<kind, log, file, uncopied, drained, jobs, db, pc, faults>>

(***************************************************************************)
(* The jobs.                                                               *)
(***************************************************************************)

Request(test, want, without, reserved) ==
  [test |-> test, want |-> want, without |-> without, reserved |-> reserved, on |-> {}]

(* A released node that is not spare has users' jobs.                        *)
Busy(n) == (n \notin resv /\ n \notin Spare) \/ \E j \in jobs : n \in j.on

Free(j) == {n \in joined \ (drained \cup j.without) : ~Busy(n) /\ (n \in resv <=> j.reserved)}

(* sbatch -N 1 or -N 2, -w want, -x without, --exclusive, in a partition     *)
(* that spans the cluster.                                                   *)
Fits(j, s) == s \subseteq Free(j) /\ j.want \subseteq s
                /\ Cardinality(s) = (IF j.test = "active" THEN 1 ELSE 2)

StartJob(j) ==
  /\ j \in jobs /\ j.on = {}
  /\ \E s \in SUBSET joined :
       /\ Fits(j, s)
       /\ jobs' = (jobs \ {j}) \cup {[j EXCEPT !.on = s]}
  /\ UNCHANGED <<nodes, resv, drained, db, pc, faults>>

(* --deadline: the nodes did not come free.                                  *)
ExpireJob(j) ==
  /\ j \in jobs /\ j.on = {}
  /\ ~\E s \in SUBSET joined : Fits(j, s)
  /\ jobs' = jobs \ {j}
  /\ UNCHANGED <<nodes, resv, drained, db, pc, faults>>

(* sbatch fails, or the job is cancelled, preempted or out of time, or the   *)
(* script does nothing because the log is less than a minute old.            *)
LoseJob(j) ==
  /\ j \in jobs /\ Fault("job")
  /\ jobs' = jobs \ {j}
  /\ UNCHANGED <<nodes, resv, drained, db, pc>>

(* What the active checks find.  The script prints the line that should      *)
(* drain the node to the job's output, and the job looks for it in the log:  *)
(* a failed check is reported and drains nothing.                            *)
FailsActive(n) == kind[n] = "gpu"

FinishActive(j) ==
  /\ j \in jobs /\ j.test = "active" /\ j.on # {}
  /\ jobs' = jobs \ {j}
  /\ file' = [n \in Node |->
                IF n \in j.on THEN [file[n] EXCEPT !.active = IF FailsActive(n) THEN "failed" ELSE "fresh"]
                ELSE file[n]]
  /\ UNCHANGED <<kind, joined, log, uncopied, resv, drained, db, pc, faults>>

\* Mutant: the second failed test condemns, whoever the partner was.
AnyFailureCondemns(f, bad, partner) ==
  [f EXCEPT !.with = partner,
            !.multi = IF ~bad THEN "fresh"
                      ELSE IF f.multi \in {"Potentially Bad", "Bad"} THEN "Bad"
                      ELSE "Potentially Bad"]

(* write_hc_http_server_file: a failure after a failure with another partner *)
(* is the node's own.                                                        *)
Verdict(f, bad, partner) ==
  [f EXCEPT !.with = partner,
            !.multi = IF ~bad THEN "fresh"
                      ELSE IF f.multi \in {"Potentially Bad", "Bad"} /\ f.with # partner THEN "Bad"
                      ELSE "Potentially Bad"]

Partner(s, n) == CHOOSE m \in s : m # n

(* A log that is not there is an empty one.                                  *)
HasError(l) == l = "ERROR"

Result(s) == IF \E n \in s : kind[n] = "network" THEN "ERROR" ELSE "ok"

VerdictOn(n, s) == Verdict(file[n], HasError(log'[n]), Partner(s, n))

(* Each node of s reads its own log into its verdict, and a node that finds  *)
(* itself Bad drains itself; copied are those that have this test's log,     *)
(* kept those whose report stays in their file.                              *)
Report(s, copied, kept) ==
  /\ log' = [n \in Node |-> IF n \in copied THEN Result(s) ELSE log[n]]
  /\ file' = [n \in Node |-> IF n \in kept THEN VerdictOn(n, s) ELSE file[n]]
  /\ drained' = drained \cup {n \in s : VerdictOn(n, s).multi = "Bad"}
  /\ uncopied' = uncopied \cup (s \ copied)

(* The test runs on the two nodes and fails if the link of either is broken. *)
(* The first of the two has the log, the second a copy unless scp fails.     *)
(* The passive check, which rewrites the same file without a lock, may undo  *)
(* a report.                                                                 *)
FinishMulti(j) ==
  /\ j \in jobs /\ j.test = "multi" /\ j.on # {}
  /\ jobs' = jobs \ {j}
  /\ \/ Report(j.on, j.on, j.on) /\ UNCHANGED faults
     \/ Fault("copy") /\ \E first \in j.on :
          (\A m \in j.on : first <= m) /\ Report(j.on, {first}, j.on)
     \/ Fault("report") /\ \E n \in j.on : Report(j.on, j.on, j.on \ {n})
  /\ UNCHANGED <<kind, joined, resv, db, pc>>

(***************************************************************************)
(* The clock.  An hour goes by if the playbook, which a pass runs after it *)
(* has read the nodes' state, takes that long; a day if no verdict waits   *)
(* to be acted upon.  By then the deadlines of all jobs have passed.       *)
(***************************************************************************)

AgeBy(from, to) ==
  LET a(v) == IF v \in from THEN to ELSE v
      aged(t) == [n \in Node |-> [t[n] EXCEPT !.active = a(@), !.multi = a(@)]]
  IN file' = aged(file) /\ db' = aged(db)

HourPasses ==
  /\ pc = "active" /\ jobs = {} /\ Fault("delay")
  /\ AgeBy({"fresh"}, "old")
  /\ UNCHANGED <<kind, joined, log, uncopied, slurm, pc>>

DayPasses ==
  /\ jobs = {} /\ \E n \in Node : db[n].multi = "old"
  /\ \A n \in Node : file[n].multi # "fresh" /\ db[n].multi # "fresh"
  /\ AgeBy({"fresh", "old"}, "expired")
  /\ UNCHANGED <<kind, joined, log, uncopied, slurm, pc, faults>>

(***************************************************************************)
(* A pass of the service.                                                  *)
(***************************************************************************)

Status(v) == IF v \in Healthy THEN "Healthy" ELSE v

(* append_to_healthchecks: a new status is a new record, an unchanged one    *)
(* only refreshes the last, whose associated node stays.                     *)
AppendToHealthchecks(row, f) ==
  [row EXCEPT !.active = IF f.active # "none" THEN f.active ELSE @,
              !.multi  = IF f.multi # "none" THEN f.multi ELSE @,
              !.with   = IF f.multi # "none" /\ Status(row.multi) # Status(f.multi)
                         THEN f.with ELSE @]

(* The web servers are asked first.  (The records are written after sinfo;   *)
(* nothing reads the table in between.)                                      *)
Fetch ==
  /\ pc = "fetch" /\ pc' = "sinfo"
  /\ \E silent \in SUBSET joined :
       /\ IF silent = {} THEN UNCHANGED faults ELSE Fault("fetch")
       /\ db' = [n \in Node |-> IF n \in joined \ silent
                        THEN AppendToHealthchecks(db[n], file[n]) ELSE db[n]]
  /\ UNCHANGED <<nodes, slurm>>

SlurmState(n) ==
  IF n \notin joined THEN "unknown" ELSE IF n \in drained THEN "drain"
  ELSE IF Busy(n) THEN "allocated" ELSE "idle"

(* get_slurm_state; if sinfo fails every compute node is "unconfigured".     *)
Sinfo ==
  /\ pc = "sinfo" /\ pc' = "active"
  /\ \/ /\ db' = [n \in Node |-> [db[n] EXCEPT !.state = SlurmState(n), !.reserved = n \in resv]]
        /\ UNCHANGED faults
     \/ /\ Fault("sinfo")
        /\ db' = [n \in Node |-> [db[n] EXCEPT !.state = "unknown"]]
  /\ UNCHANGED <<nodes, slurm>>

(* _slurm_state_is_initial_validation, _slurm_state_is_unreserved_idle       *)
InValidation(n) == db[n].state = "idle" /\ db[n].reserved
InService(n)    == db[n].state = "idle" /\ ~db[n].reserved

Passed(n) == db[n].active \in Healthy

(* get_nodes_by_active_hc_expired and active_hc_logic: every reserved node,  *)
(* one of the others.                                                        *)
ActiveHC ==
  /\ pc = "active" /\ pc' = "multi"
  /\ LET idle     == {n \in Node : InService(n) /\ db[n].active \in {"none", "expired"}}
         starting == {n \in Node : InValidation(n) /\ db[n].active \in {"none", "old", "expired"}}
     IN \E s \in SUBSET idle :
          /\ Cardinality(s) = (IF idle = {} THEN 0 ELSE 1)
          /\ jobs' = jobs \cup {Request("active", {n}, {}, FALSE) : n \in s}
                          \cup {Request("active", {n}, {}, TRUE) : n \in starting}
  /\ UNCHANGED <<nodes, resv, drained, db, faults>>

Untested(n) == Passed(n) /\ db[n].multi \in {"none", "expired"}
Doubted(n)  == Passed(n) /\ db[n].multi = "Potentially Bad"

(* Two by two; with an odd number the last takes whom Slurm gives it.        *)
Pairs(h) ==
  {{h[2 * i - 1], h[2 * i]} : i \in 1..(Len(h) \div 2)}
    \cup (IF Len(h) % 2 = 1 THEN {{h[Len(h)]}} ELSE {})

(* Each doubted node with one that is not, in turn, if there is one.         *)
Retests(p, h) ==
  IF h = <<>> THEN {} ELSE {{p[i], h[((i - 1) % Len(h)) + 1]} : i \in 1..Len(p)}

(* multi_node_hc_logic; the queries return their rows in no given order.     *)
(* (For a daily test the active one must be two minutes old: a delay only.)  *)
MultiNodeHC ==
  /\ pc = "multi" /\ pc' = "validated"
  /\ LET daily == {n \in Node : InService(n) /\ Untested(n)}
         again == {n \in Node : InService(n) /\ Doubted(n)}
     IN \E s \in SUBSET daily,
           h \in SetToSeqs({n \in Node : InValidation(n) /\ Untested(n)}),
           p \in SetToSeqs({n \in Node : InValidation(n) /\ Doubted(n)}) :
          /\ Cardinality(s) = (IF daily = {} THEN 0 ELSE 1)
          /\ jobs' = jobs \cup {Request("multi", {n}, {}, FALSE) : n \in s}
                          \cup {Request("multi", {n}, {db[n].with} \cap Node, FALSE) : n \in again}
                          \cup {Request("multi", w, {}, TRUE) : w \in Pairs(h) \cup Retests(p, h)}
  /\ UNCHANGED <<nodes, resv, drained, db, faults>>

\* Mutant: the last node of the reservation needs a partner too.
AlwaysPaired == {n \in Node : InValidation(n) /\ db[n].active = "fresh" /\ db[n].multi = "fresh"}

\* Mutant: the two-node check is enough.
PairedIsEnough ==
  LET reserved == {n \in Node : InValidation(n)}
  IN {n \in reserved : db[n].multi = "fresh" \/ (Cardinality(reserved) = 1 /\ Passed(n))}

(* get_nodes_validated                                                       *)
Validated ==
  LET reserved == {n \in Node : InValidation(n)}
  IN {n \in reserved : db[n].active = "fresh"
                         /\ (Cardinality(reserved) > 1 => db[n].multi = "fresh")}

(* scontrol refuses to leave the reservation without nodes.                  *)
Removable(s) == s \subseteq resv /\ s # resv

(* Hostnames with consecutive numbers print as one host list without comma.  *)
PrintsAsOne(s) == \E a, b \in s : s = a..b

(* remove_nodes_from_reservation: in bulk; else one by one up to the first   *)
(* that fails; and then the whole reservation if one entry is left of it,    *)
(* unless scontrol fails once more.                                          *)
Release ==
  /\ pc = "validated" /\ pc' = "fetch"
  /\ LET given == Validated
         OneByOne(s) ==    \* those of s went, and then one that failed, if any
           IF s = given THEN resv' = resv \ s
           ELSE IF PrintsAsOne(resv \ s) THEN resv' = {}
           ELSE resv' = resv \ s
     IN \/ given = {} /\ UNCHANGED <<resv, faults>>
        \/ given # {} /\ Removable(given) /\ resv' = resv \ given /\ UNCHANGED faults
        \/ /\ given # {} /\ ~Removable(given) /\ UNCHANGED faults
           /\ \E n \in given : OneByOne(given \ {n})
        \/ /\ given # {} /\ Fault("scontrol")
           /\ \E s \in SUBSET given : Removable(s) /\ (OneByOne(s) \/ resv' = resv \ s)
  /\ UNCHANGED <<nodes, drained, jobs, db>>

(* The pass dies; the timer starts the next one.                             *)
Crash ==
  /\ pc # "fetch" /\ Fault("crash")
  /\ pc' = "fetch"
  /\ UNCHANGED <<nodes, slurm, db>>

(***************************************************************************)

Run(j) == StartJob(j) \/ ExpireJob(j) \/ FinishActive(j) \/ FinishMulti(j)

Pass == Fetch \/ Sinfo \/ ActiveHC \/ MultiNodeHC \/ Release

Next ==
  \/ \E n \in Node : Join(n)
  \/ \E j \in jobs : Run(j) \/ LoseJob(j)
  \/ Pass \/ HourPasses \/ DayPasses \/ Crash

Spec == Init /\ [][Next]_vars

Start  == \E j \in jobs : StartJob(j)
Finish == \E j \in jobs : FinishActive(j) \/ FinishMulti(j)

(* The timer, the jobs and the clock go on by themselves; nothing makes a    *)
(* node join.                                                                *)
Fairness == WF_vars(Pass) /\ WF_vars(DayPasses) /\ WF_vars(Start) /\ WF_vars(Finish)

FairSpec == Spec /\ Fairness

(***************************************************************************)
(* The invariant the proofs need.                                          *)
(***************************************************************************)

Pair(s) == \E a, b \in Node : a # b /\ s = {a, b}

(* A job runs on nodes that joined, a two-node check on two of them.         *)
Placed == \A j \in jobs : j.on \subseteq joined /\ (j.on # {} /\ j.test = "multi" => Pair(j.on))

TwoBroken == \E a, b \in Node : a # b /\ kind[a] = "network" /\ kind[b] = "network"

(* A sound node is doubted because of a partner with a broken link, and      *)
(* thought bad because of two.                                               *)
Grounds ==
  \A n \in Node : kind[n] = "sound" /\ n \notin uncopied =>
    /\ file[n].multi = "Potentially Bad" => file[n].with \in Node /\ kind[file[n].with] = "network"
    /\ file[n].multi = "Bad" => TwoBroken

(* No report and no row calls broken GPUs healthy.                           *)
NoFalsePass ==
  \A n \in Node : kind[n] = "gpu" => file[n].active \notin Healthy /\ db[n].active \notin Healthy

(* What the rows say of the reservation holds until the pass ends.           *)
RowsHold ==
  pc \in {"active", "multi", "validated"} => \A n \in Node : InValidation(n) => n \in resv

(***************************************************************************)
(* Properties.                                                             *)
(***************************************************************************)

(* A node with sound links and GPUs is never drained by a health check       *)
(* unless two nodes with broken links were there to fail its tests, or a log *)
(* did not get copied to it: the tests repeated because the database lags,   *)
(* the reports undone and the retests never blame it for one bad partner.    *)
SoundIsNotCondemned ==
  \A n \in drained : kind[n] = "sound" =>
    n \in uncopied \/ TwoBroken

IInv == TypeOK /\ Placed /\ Grounds /\ NoFalsePass /\ RowsHold /\ SoundIsNotCondemned

(* No node with broken GPUs leaves the reservation in a step in which every  *)
(* scontrol call succeeds, whatever of the database is stale by then.        *)
BrokenStaysReserved ==
  [][\A n \in resv \ resv' : kind[n] = "gpu" => faults' # faults]_vars

(* When no link is broken a sound node that joined leaves the reservation:   *)
(* a lost job or report, a failed call, a crash, a delay that outdates one   *)
(* verdict and not the other, and partners that fail only hold it up.        *)
SoundIsReleased ==
  \A n \in Node :
    (n \in resv /\ kind[n] = "sound" /\ \A m \in Node : kind[m] # "network") ~> n \notin resv

=============================================================================
