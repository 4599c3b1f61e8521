----------------------------- MODULE ActiveTests -----------------------------
(* The programs of a test job: active_healthcheck.py on one node,            *)
(* multi_node_active_healthcheck.py on a pair.  Each runs a few tests, some  *)
(* in several rounds, and draws a verdict from what its tools say and from   *)
(* what they do not say.  (What the record of a pair makes of an ERROR in    *)
(* the log, and when jobs are started, is InitialValidation.)                *)
EXTENDS Integers, SequencesExt

CONSTANTS Rigs,     \* [pair, kind, rack, launcher, plugin, rebooted]: in one rack; the image's
                    \* MPI launcher is there; the network plugin is, or none is needed
          Devices,  \* RDMA devices of a node
          Gpus

Kinds == {"nvidia", "gb", "amd"}

ASSUME RigAssumption ==
  /\ Rigs \subseteq [pair : BOOLEAN, kind : Kinds, rack : BOOLEAN, launcher : BOOLEAN,
                     plugin : BOOLEAN, rebooted : BOOLEAN]
  /\ Devices # {} /\ Gpus # {}

Tests == {"collective", "fryer", "sdc", "rvs", "bandwidth", "latency"}

(* What a tool says: enough, too little; nothing that can be read; nothing   *)
(* in time; an exit with an error, with GPUs not found, with a cancellation. *)
Collected == {"good", "slow", "silent", "late", "error", "badgpu"}
Fried     == {"good", "late", "error", "cancelled"}
Validated == {"good", "late", "error"}
Corrupted == {"good", "errors", "crashed", "absent"}
Probed    == {"good", "slow", "silent"}
Outcomes  == Collected \cup Fried \cup Corrupted \cup Probed \cup {"unavailable"}

VARIABLES
  rig,
  todo,     \* the tests to come, the running one first
  attempt,  \* of the running test
  cases,    \* of a collective on a pair: NCCL_MNNVL_ENABLE
  round,    \* what each device or GPU said in this round
  verdict,  \* of the tests that ran
  action,   \* of active_healthcheck.py
  errors,   \* the log of the pair has an ERROR
  died,     \* an exception or a signal ended the program
  record,   \* the recommendation in http_server/files/healthchecks
  seen      \* history: what the tools said in the rounds that settled each test

vars == <<rig, todo, attempt, cases, round, verdict, action, errors, died, record, seen>>

TestsOf(r) ==
  IF r.pair THEN <<"collective", "bandwidth", "latency">>
  ELSE IF r.kind = "amd" THEN <<"collective", "rvs">>
  ELSE <<"collective", "fryer", "sdc">>

(* Nodes of one rack are tested over NVLink and without it; a rack that      *)
(* cannot be read is no rack.                                                *)
CasesOf(r) == IF r.pair /\ r.kind = "gb" THEN (IF r.rack THEN <<1, 0>> ELSE <<0>>) ELSE <<>>

Init ==
  /\ rig \in Rigs
  /\ todo = TestsOf(rig) /\ attempt = 1 /\ cases = CasesOf(rig) /\ round = <<>>
  /\ verdict = [t \in Tests |-> "none"]
  /\ action = "none" /\ errors = FALSE /\ died = FALSE /\ record = "none"
  /\ seen = [t \in Tests |-> {}]

Running(test) == ~died /\ todo # <<>> /\ todo[1] = test

\* Mutant: the last recommendation is the one.
RecommendedLast(current, new) == new

RecommendedAction(current, new) == IF current = "Tag_and_Terminate" THEN current ELSE new

(* The caller's part: silent data corruption asks for a reboot, everything   *)
(* else for the machine to go; on a pair the log is what remains.            *)
Fails(test) ==
  IF rig.pair THEN errors' = TRUE /\ UNCHANGED action
  ELSE /\ action' = RecommendedAction(action, IF test = "sdc" THEN "Reboot" ELSE "Tag_and_Terminate")
       /\ UNCHANGED errors

Over(test, result, outcomes) ==
  /\ todo' = Tail(todo) /\ attempt' = 1 /\ round' = <<>>
  /\ verdict' = [verdict EXCEPT ![test] = result]
  /\ seen' = [seen EXCEPT ![test] = @ \cup outcomes]
  /\ IF result = "fail" THEN Fails(test) ELSE UNCHANGED <<action, errors>>
  /\ UNCHANGED <<rig, cases, died, record>>

Again ==
  /\ attempt' = attempt + 1 /\ round' = <<>>
  /\ UNCHANGED <<rig, todo, cases, verdict, action, errors, died, record, seen>>

Settle(test, result, outcomes) == IF result = "retry" THEN Again ELSE Over(test, result, outcomes)

(***************************************************************************)
(* The collectives.                                                        *)
(***************************************************************************)

RetryUntil(limit, k) == IF k < limit THEN "retry" ELSE "fail"

(* Whatever went wrong is tried three times.                                 *)
LocalNccl(o, k) == IF o = "good" THEN "pass" ELSE RetryUntil(3, k)

LocalRccl(o, k) == IF o = "good" THEN "pass" ELSE "fail"

(* Only a GPU that is not there yet is waited for.                           *)
PairNccl(o, k) ==
  CASE o = "good" -> "pass"
    [] o = "badgpu" -> RetryUntil(5, k)
    [] OTHER -> "fail"

(* The `continue` for a bandwidth below the threshold goes on with the next  *)
(* line of the output, and the bandwidth is not None after the last.         *)
PairRccl(o, k) ==
  CASE o = "good" -> "pass"
    [] o = "slow" -> IF k < 4 THEN "pass" ELSE "fail"
    [] OTHER -> RetryUntil(4, k)

CollectiveOf(o, k) ==
  IF rig.pair THEN (IF rig.kind = "amd" THEN PairRccl(o, k) ELSE PairNccl(o, k))
  ELSE IF rig.kind = "amd" THEN LocalRccl(o, k) ELSE LocalNccl(o, k)

(* No launcher of the image's MPI, or not exactly one network plugin.        *)
Startable == rig.launcher /\ rig.plugin

Refuse == Running("collective") /\ ~Startable /\ Over("collective", "fail", {})

(* The cases of a pair run one after the other; the first failure ends them. *)
NextCase(o) ==
  /\ cases' = Tail(cases) /\ attempt' = 1
  /\ seen' = [seen EXCEPT !["collective"] = @ \cup {o}]
  /\ UNCHANGED <<rig, todo, round, verdict, action, errors, died, record>>

Collective(o) ==
  /\ Running("collective") /\ Startable
  /\ LET result == CollectiveOf(o, attempt)
     IN  IF result = "pass" /\ Len(cases) = 2 THEN NextCase(o) ELSE Settle("collective", result, {o})

(***************************************************************************)
(* GPU fryer, silent data corruption, the ROCm validation suite.           *)
(***************************************************************************)

(* The NVIDIA library of the host cannot be found.                           *)
NoLibrary == Running("fryer") /\ attempt = 1 /\ Over("fryer", "fail", {})

(* The image is pulled, or loaded from a file, twice; then the test is left  *)
(* out.  Attempt 3 is the run of the container.                              *)
PrepareImage(there) ==
  /\ Running("fryer") /\ attempt < 3
  /\ CASE there -> /\ attempt' = 3
                   /\ UNCHANGED <<rig, todo, cases, round, verdict, action, errors, died, record, seen>>
       [] ~there /\ attempt = 1 -> Again
       [] OTHER -> Over("fryer", "skip", {})

(* A run that was cancelled after the fryer found all GPUs healthy counts.   *)
Fry(o) ==
  /\ Running("fryer") /\ attempt = 3
  /\ Over("fryer", IF o \in {"good", "cancelled"} THEN "pass" ELSE "fail", {o})

(* A module that cannot be imported is a success; no GPU that can be used is *)
(* a crash, which the caller only warns of.                                  *)
NoChecker(imported) ==
  /\ Running("sdc") /\ round = <<>>
  /\ IF imported THEN Over("sdc", "skip", {}) ELSE Over("sdc", "pass", {"unavailable"})

(* The GPUs are tested by threads of their own; a checker that cannot be     *)
(* made is left out, a test that crashed has an error count of -1.           *)
TestGpu(g, o) ==
  /\ Running("sdc") /\ g \notin DOMAIN round
  /\ round' = [x \in DOMAIN round \cup {g} |-> IF x = g THEN o ELSE round[x]]
  /\ UNCHANGED <<rig, todo, attempt, cases, verdict, action, errors, died, record, seen>>

Summarize ==
  /\ Running("sdc") /\ DOMAIN round = Gpus
  /\ Over("sdc", IF Range(round) = {"absent"} THEN "skip"
                 ELSE IF "errors" \in Range(round) THEN "fail" ELSE "pass",
          Range(round))

(* RVS not installed is None, which the caller takes for a failure; more     *)
(* than one is one.                                                          *)
NoRvs == Running("rvs") /\ Over("rvs", "fail", {})

Rvs(o) == Running("rvs") /\ Over("rvs", IF o = "good" THEN "pass" ELSE "fail", {o})

(***************************************************************************)
(* The RDMA tests between the nodes of a pair.                             *)
(***************************************************************************)

(* Three rounds over all devices; one without a value is not fast enough.    *)
Probe(test, d, o) ==
  /\ test \in {"bandwidth", "latency"} /\ Running(test) /\ d \notin DOMAIN round
  /\ round' = [x \in DOMAIN round \cup {d} |-> IF x = d THEN o ELSE round[x]]
  /\ UNCHANGED <<rig, todo, attempt, cases, verdict, action, errors, died, record, seen>>

\* Mutant: the devices that gave a value decide.
RoundPassesOfSome == Range(round) \subseteq {"good", "silent"}

RoundPasses == Range(round) = {"good"}

EndRound(test) ==
  /\ test \in {"bandwidth", "latency"} /\ Running(test) /\ DOMAIN round = Devices
  /\ Settle(test, IF RoundPasses THEN "pass" ELSE RetryUntil(3, attempt), Range(round))

(* The other node cannot be reached for a latency: no further round.         *)
Unreachable ==
  /\ Running("latency") /\ DOMAIN round # Devices
  /\ Over("latency", "fail", {})

(***************************************************************************)
(* The end.                                                                *)
(***************************************************************************)

(* Something kills the program, or nothing catches what it raises, as for a  *)
(* latency that is no number: the script of a pair still writes the record.  *)
Killed ==
  /\ ~died /\ todo # <<>> /\ died' = TRUE
  /\ UNCHANGED <<rig, todo, attempt, cases, round, verdict, action, errors, record, seen>>

Finish ==
  /\ record = "none"
  /\ IF rig.pair THEN died \/ todo = <<>> ELSE todo = <<>>
  /\ record' = IF rig.pair THEN (IF errors THEN "Potentially Bad" ELSE "Healthy")
               ELSE IF action = "none" THEN "Healthy"
               ELSE IF action = "Reboot" /\ rig.rebooted THEN "Terminate" ELSE action
  /\ UNCHANGED <<rig, todo, attempt, cases, round, verdict, action, errors, died, seen>>

Next ==
  \/ Refuse
  \/ \E o \in Collected : Collective(o)
  \/ NoLibrary \/ NoRvs \/ Summarize
  \/ \E there \in BOOLEAN : PrepareImage(there)
  \/ \E o \in Fried : Fry(o)
  \/ \E imported \in BOOLEAN : NoChecker(imported)
  \/ \E g \in Gpus, o \in Corrupted : TestGpu(g, o)
  \/ \E o \in Validated : Rvs(o)
  \/ \E test \in {"bandwidth", "latency"}, d \in Devices, o \in Probed : Probe(test, d, o)
  \/ \E test \in {"bandwidth", "latency"} : EndRound(test)
  \/ Unreachable \/ Killed \/ Finish

(* Every tool returns or is timed out.                                       *)
Spec == Init /\ [][Next]_vars /\ WF_vars(Next)

(***************************************************************************)
(* Properties.                                                             *)
(***************************************************************************)

(* What does not count against a test by decision of the code: a container   *)
(* cancelled after its work, a checker that is not installed.                *)
Forgiven(test) ==
  CASE test = "fryer" -> {"cancelled"}
    [] test = "sdc" -> {"unavailable"}
    [] OTHER -> {}

(* What the code overlooks, against its own messages: GPUs without a checker *)
(* and tests on a GPU that crashed; a bandwidth between two AMD nodes that   *)
(* is too low before the last attempt.                                       *)
Overlooked(test) ==
  CASE test = "sdc" -> {"absent", "crashed"}
    [] test = "collective" /\ rig.pair /\ rig.kind = "amd" -> {"slow"}
    [] OTHER -> {}

\* A test that passed measured enough, on every device, in every case and in one and the same round, but
\* for what is forgiven it and what is overlooked. (The test for silent data corruption may pass with no
\* GPU tested to the end, and the collective of two AMD nodes when it was slow.)
PassedIsMeasured ==
  \A t \in Tests :
    verdict[t] = "pass" => /\ seen[t] \ {"absent"} # {}
                           /\ seen[t] \subseteq {"good"} \cup Forgiven(t) \cup Overlooked(t)

\* A test that failed is in the record at the end, as grave as it is, whatever the tests after it say
\* and however the program ends; a killed program leaves no record on a node of its own.
FailureIsRecorded ==
  \A t \in Tests :
    (verdict[t] = "fail") ~>
      \/ died /\ ~rig.pair
      \/ IF rig.pair THEN record = "Potentially Bad"
         ELSE IF t = "sdc" THEN record \in {"Reboot", "Terminate", "Tag_and_Terminate"}
         ELSE record = "Tag_and_Terminate"
=============================================================================
