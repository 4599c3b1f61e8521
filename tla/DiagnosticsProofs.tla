-------------------------- MODULE DiagnosticsProofs --------------------------
(* The programs that measure nodes.  Of the tests of a job: one that passed  *)
(* measured enough, but for what the code forgives or overlooks, on any node *)
(* or pair, with any number of devices and GPUs.                             *)
(* Of ncclscout: among any number of hosts, in whatever condition and with   *)
(* whatever tests going wrong, the sound ones are cleared and no faulty one  *)
(* is forgotten or passed off as good.                                       *)
EXTENDS ActiveTests, NcclScout, SequenceTheorems, FiniteSetTheorems, TLAPS

(***************************************************************************)
(* The tests of a job (ActiveTests).                                       *)
(***************************************************************************)

(* What counts for a test, is forgiven it or overlooked.                     *)
Enough(t) == {"good"} \cup Forgiven(t) \cup Overlooked(t)

(* The tests ahead are different ones and have no verdict yet.               *)
Ahead ==
  /\ todo \in Seq(Tests)
  /\ \A i, j \in DOMAIN todo : todo[i] = todo[j] => i = j
  /\ \A i \in DOMAIN todo : verdict[todo[i]] = "none"

(* Of a test that is still running only cases that passed have been noted,   *)
(* and of the GPUs only what their checker says.                             *)
MeasureInv ==
  /\ DOMAIN verdict = Tests /\ DOMAIN seen = Tests
  /\ Ahead
  /\ \A t \in Tests : verdict[t] = "none" => seen[t] \subseteq Enough(t)
  /\ Running("sdc") => Range(round) \subseteq Corrupted
  /\ PassedIsMeasured

LEMMA RangeOfEmpty == Range(<<>>) = {}
PROOF
  <1>1. \A x \in DOMAIN <<>> : FALSE
    BY SMTT(20)
  <1> QED
    BY <1>1 DEF Range

(* A list without its head.                                                  *)
LEMMA TailFacts ==
  ASSUME NEW S, NEW s \in Seq(S), s # <<>>
  PROVE  /\ Tail(s) \in Seq(S)
         /\ 1 \in DOMAIN s /\ DOMAIN s \subseteq Nat
         /\ \A k \in DOMAIN Tail(s) : k \in Nat /\ k + 1 # 1 /\ k + 1 \in DOMAIN s /\ Tail(s)[k] = s[k + 1]
PROOF
  <1>1. /\ Tail(s) \in Seq(S) /\ Len(Tail(s)) = Len(s) - 1
        /\ \A i \in 1..Len(Tail(s)) : Tail(s)[i] = s[i + 1]
    BY HeadTailProperties
  <1>2. Len(s) \in Nat \ {0} /\ DOMAIN s = 1..Len(s) /\ DOMAIN Tail(s) = 1..Len(Tail(s))
    BY <1>1, EmptySeq, LenProperties
  <1>3. ASSUME NEW k \in DOMAIN Tail(s)
        PROVE  k \in Nat /\ k + 1 # 1 /\ k + 1 \in DOMAIN s /\ Tail(s)[k] = s[k + 1]
    BY <1>1, <1>2, <1>3
  <1> QED
    BY <1>1, <1>2, <1>3

LEMMA TestsAhead == ASSUME NEW r \in Rigs
  PROVE  /\ TestsOf(r) \in Seq(Tests)
         /\ \A i, j \in DOMAIN TestsOf(r) : TestsOf(r)[i] = TestsOf(r)[j] => i = j
PROOF
  <1>1. CASE r.pair
    BY <1>1 DEF TestsOf, Tests
  <1>2. CASE ~r.pair /\ r.kind = "amd"
    BY <1>2 DEF TestsOf, Tests
  <1>3. CASE ~r.pair /\ r.kind # "amd"
    BY <1>3 DEF TestsOf, Tests
  <1> QED
    BY <1>1, <1>2, <1>3

LEMMA MeasureInit == Init => MeasureInv
PROOF
  <1> SUFFICES ASSUME Init PROVE MeasureInv
    OBVIOUS
  <1>1. todo \in Seq(Tests) /\ \A i, j \in DOMAIN todo : todo[i] = todo[j] => i = j
    BY TestsAhead DEF Init
  <1>2. \A i \in DOMAIN todo : todo[i] \in Tests
    BY <1>1, LenProperties
  <1>3. Ahead
    BY <1>1, <1>2 DEF Ahead, Init
  <1>4. Range(round) \subseteq Corrupted
    BY RangeOfEmpty DEF Init
  <1> QED
    BY <1>3, <1>4 DEF Init, MeasureInv, PassedIsMeasured

(* A test ends: what is noted of one that passed must be enough.             *)
LEMMA OverKeeps ==
  ASSUME MeasureInv, NEW test \in Tests, NEW result, NEW outcomes,
         Running(test), Over(test, result, outcomes), result # "none",
         result = "pass" => outcomes \ {"absent"} # {} /\ outcomes \subseteq Enough(test)
  PROVE  MeasureInv'
PROOF
  <1>1. /\ todo \in Seq(Tests) /\ todo # <<>> /\ todo[1] = test
        /\ \A i, j \in DOMAIN todo : todo[i] = todo[j] => i = j
        /\ \A i \in DOMAIN todo : verdict[todo[i]] = "none"
    BY DEF MeasureInv, Ahead, Running
  <1>2. /\ todo' = Tail(todo) /\ round' = <<>> /\ rig' = rig
        /\ verdict' = [verdict EXCEPT ![test] = result]
        /\ seen' = [seen EXCEPT ![test] = @ \cup outcomes]
    BY DEF Over
  <1>3. DOMAIN verdict' = Tests /\ DOMAIN seen' = Tests
    BY <1>2 DEF MeasureInv
  <1>4. /\ verdict'[test] = result /\ seen'[test] = seen[test] \cup outcomes
        /\ \A t \in Tests \ {test} : verdict'[t] = verdict[t] /\ seen'[t] = seen[t]
    BY <1>2 DEF MeasureInv
  <1>5. \A t : Forgiven(t)' = Forgiven(t) /\ Overlooked(t)' = Overlooked(t)
    BY <1>2 DEF Forgiven, Overlooked
  <1>6. verdict[test] = "none" /\ seen[test] \subseteq Enough(test)
    BY <1>1, TailFacts DEF MeasureInv
  <1>7. Ahead'
    <2>1. /\ Tail(todo) \in Seq(Tests) /\ 1 \in DOMAIN todo
          /\ \A k \in DOMAIN Tail(todo) : k \in Nat /\ k + 1 # 1 /\ k + 1 \in DOMAIN todo /\ Tail(todo)[k] = todo[k + 1]
      BY <1>1, TailFacts
    <2>2. ASSUME NEW i \in DOMAIN Tail(todo), NEW j \in DOMAIN Tail(todo), Tail(todo)[i] = Tail(todo)[j]
          PROVE  i = j
      <3>1. i + 1 = j + 1
        BY <1>1, <2>1, <2>2
      <3> QED BY <2>1, <3>1
    <2>3. ASSUME NEW i \in DOMAIN Tail(todo) PROVE verdict'[Tail(todo)[i]] = "none"
      <3>1. Tail(todo)[i] = todo[i + 1] /\ todo[i + 1] # test
        BY <1>1, <2>1, <2>3
      <3>2. Tail(todo)[i] \in Tests
        BY <2>1, <2>3, LenProperties
      <3>3. verdict'[Tail(todo)[i]] = verdict[todo[i + 1]]
        BY <1>4, <3>1, <3>2
      <3>4. i + 1 \in DOMAIN todo
        BY <2>1, <2>3
      <3> QED
        BY <1>1, <3>3, <3>4
    <2> QED
      BY <1>2, <2>1, <2>2, <2>3 DEF Ahead
  <1>8. Range(round') \subseteq Corrupted
    BY <1>2, RangeOfEmpty
  <1>9. ASSUME NEW t \in Tests
        PROVE  /\ verdict'[t] = "none" => seen'[t] \subseteq Enough(t)'
               /\ verdict'[t] = "pass" => /\ seen'[t] \ {"absent"} # {}
                                         /\ seen'[t] \subseteq {"good"} \cup Forgiven(t)' \cup Overlooked(t)'
    BY <1>4, <1>5, <1>6, <1>9 DEF MeasureInv, PassedIsMeasured, Enough
  <1> QED
    BY <1>3, <1>7, <1>8, <1>9 DEF MeasureInv, PassedIsMeasured

(* A collective that passes was fast, or is one of those that pass slowly.   *)
LEMMA CollectivePasses ==
  ASSUME NEW o \in Collected, NEW k, CollectiveOf(o, k) = "pass"
  PROVE  o \in Enough("collective") /\ o # "absent"
BY DEF Collected, CollectiveOf, LocalNccl, LocalRccl, PairNccl, PairRccl, RetryUntil, Enough, Forgiven, Overlooked

LEMMA CollectiveResults ==
  ASSUME NEW o, NEW k
  PROVE  CollectiveOf(o, k) \in {"pass", "fail", "retry"}
BY DEF CollectiveOf, LocalNccl, LocalRccl, PairNccl, PairRccl, RetryUntil

(* Another round begins with nothing noted of the last.                      *)
LEMMA AgainKeeps == MeasureInv /\ Again => MeasureInv'
PROOF
  <1> SUFFICES ASSUME MeasureInv, Again PROVE MeasureInv'
    OBVIOUS
  <1>1. UNCHANGED <<rig, todo, verdict, seen, died>> /\ round' = <<>>
    BY DEF Again
  <1>2. Range(round') \subseteq Corrupted
    BY <1>1, RangeOfEmpty
  <1> QED
    BY <1>1, <1>2 DEF MeasureInv, Ahead, PassedIsMeasured, Enough, Forgiven, Overlooked

(* Nothing but the round changes, and that only by what its tool says.       *)
LEMMA RoundKeeps ==
  ASSUME MeasureInv, UNCHANGED <<rig, todo, verdict, seen>>,
         Running("sdc")' => Range(round') \subseteq Corrupted
  PROVE  MeasureInv'
BY DEF MeasureInv, Ahead, PassedIsMeasured, Enough, Forgiven, Overlooked

LEMMA MeasureStep == MeasureInv /\ [Next]_vars => MeasureInv'
PROOF
  <1> SUFFICES ASSUME MeasureInv, [Next]_vars PROVE MeasureInv'
    OBVIOUS
  <1> USE DEF Tests
  <1>1. CASE Refuse \/ NoLibrary \/ NoRvs \/ Unreachable
    BY <1>1, OverKeeps DEF Refuse, NoLibrary, NoRvs, Unreachable
  <1>2. ASSUME NEW o \in Collected, Collective(o) PROVE MeasureInv'
    <2> DEFINE result == CollectiveOf(o, attempt)
    <2>1. Running("collective") /\ result \in {"pass", "fail", "retry"}
      BY <1>2, CollectiveResults DEF Collective
    <2>2. result = "pass" => o \in Enough("collective") /\ {o} \ {"absent"} # {}
      BY CollectivePasses
    <2> HIDE DEF result
    <2>3. CASE result = "pass" /\ NextCase(o)
      <3>1. /\ UNCHANGED <<rig, todo, round, verdict, died>>
            /\ seen' = [seen EXCEPT !["collective"] = @ \cup {o}]
        BY <2>3 DEF NextCase
      <3>2. verdict["collective"] = "none"
        BY <2>1, TailFacts DEF MeasureInv, Ahead, Running
      <3> QED
        BY <2>2, <2>3, <3>1, <3>2 DEF MeasureInv, Ahead, PassedIsMeasured, Enough, Forgiven, Overlooked, Running
    <2>4. CASE result = "retry" /\ Again
      BY <2>4, AgainKeeps
    <2>5. CASE result # "retry" /\ Over("collective", result, {o})
      BY <2>1, <2>2, <2>5, OverKeeps
    <2> QED
      BY <1>2, <2>1, <2>3, <2>4, <2>5 DEF Collective, Settle, result
  <1>3. ASSUME NEW there \in BOOLEAN, PrepareImage(there) PROVE MeasureInv'
    <2>1. CASE UNCHANGED <<rig, todo, cases, round, verdict, action, errors, died, record, seen>>
      BY <2>1, RoundKeeps DEF Running, MeasureInv
    <2>2. CASE Running("fryer") /\ Over("fryer", "skip", {})
      BY <2>2, OverKeeps
    <2> QED
      BY <1>3, <2>1, <2>2, AgainKeeps DEF PrepareImage
  <1>4. ASSUME NEW o \in Fried, Fry(o) PROVE MeasureInv'
    <2>1. o \in {"good", "cancelled"} => {o} \ {"absent"} # {} /\ {o} \subseteq Enough("fryer")
      BY DEF Enough, Forgiven, Overlooked
    <2> QED
      BY <1>4, <2>1, OverKeeps DEF Fry
  <1>5. ASSUME NEW imported \in BOOLEAN, NoChecker(imported) PROVE MeasureInv'
    <2>1. {"unavailable"} \ {"absent"} # {} /\ {"unavailable"} \subseteq Enough("sdc")
      BY DEF Enough, Forgiven, Overlooked
    <2> QED
      BY <1>5, <2>1, OverKeeps DEF NoChecker
  <1>6. ASSUME NEW g \in Gpus, NEW o \in Corrupted, TestGpu(g, o) PROVE MeasureInv'
    <2>1. Range(round) \subseteq Corrupted
      BY <1>6 DEF TestGpu, MeasureInv
    <2>2. Range(round') \subseteq Corrupted
      BY <1>6, <2>1 DEF TestGpu, Range
    <2> QED
      BY <1>6, <2>2, RoundKeeps DEF TestGpu
  <1>7. CASE Summarize
    <2>1. Running("sdc") /\ Range(round) \subseteq Corrupted /\ Range(round) # {}
      BY <1>7, RigAssumption DEF Summarize, MeasureInv, Range
    <2>2. Range(round) # {"absent"} /\ "errors" \notin Range(round) =>
            Range(round) \ {"absent"} # {} /\ Range(round) \subseteq Enough("sdc")
      BY <2>1 DEF Corrupted, Enough, Forgiven, Overlooked
    <2> QED
      BY <1>7, <2>1, <2>2, OverKeeps DEF Summarize
  <1>8. ASSUME NEW o \in Validated, Rvs(o) PROVE MeasureInv'
    <2>1. {"good"} \ {"absent"} # {} /\ {"good"} \subseteq Enough("rvs")
      BY DEF Enough
    <2> QED
      BY <1>8, <2>1, OverKeeps DEF Rvs
  <1>9. ASSUME NEW test \in {"bandwidth", "latency"}, NEW d \in Devices, NEW o \in Probed, Probe(test, d, o)
        PROVE  MeasureInv'
    <2>1. ~Running("sdc") /\ UNCHANGED <<rig, todo, verdict, seen, died>>
      BY <1>9 DEF Probe, Running
    <2> QED
      BY <2>1, RoundKeeps DEF Running
  <1>10. ASSUME NEW test \in {"bandwidth", "latency"}, EndRound(test) PROVE MeasureInv'
    <2>1. RoundPasses => Range(round) \ {"absent"} # {} /\ Range(round) \subseteq Enough(test)
      BY DEF RoundPasses, Enough
    <2>2. CASE Again
      BY <2>2, AgainKeeps
    <2>3. CASE \E r \in {"pass", "fail"} : Over(test, r, Range(round)) /\ (r = "pass" => RoundPasses)
      BY <1>10, <2>1, <2>3, OverKeeps DEF EndRound
    <2> QED
      BY <1>10, <2>2, <2>3 DEF EndRound, Settle, RetryUntil
  <1>11. CASE Killed \/ Finish \/ UNCHANGED vars
    BY <1>11, RoundKeeps DEF Killed, Finish, vars, MeasureInv, Running
  <1> QED
    BY <1>1, <1>2, <1>3, <1>4, <1>5, <1>6, <1>7, <1>8, <1>9, <1>10, <1>11 DEF Next

(* On every node and pair, whatever its tools say in whichever round, a test *)
(* that passed measured enough in the rounds that settled it, but for what   *)
(* is forgiven it and what the code overlooks.                               *)
THEOREM PassedWasMeasured == Spec => []PassedIsMeasured
PROOF
  <1>1. MeasureInv => PassedIsMeasured
    BY DEF MeasureInv
  <1> QED
    BY <1>1, MeasureInit, MeasureStep, PTL DEF Spec

(***************************************************************************)
(* The bandwidth diagnosis (NcclScout): its inductive invariant.           *)
(***************************************************************************)

(* A bandwidth is what the two hosts allow, or next to nothing.              *)
Honest ==
  \A p \in DOMAIN results :
    /\ p \in Hosts \X Hosts /\ results[p] \in Nat
    /\ results[p] = Bandwidth(p[1], p[2]) \/ results[p] \in {0, 1}

(* What the threshold and the phase are, and who is where.                   *)
Given ==
  /\ mode \in {"serial", "parallel"} /\ cluster \in Clusters
  /\ threshold \in Nat \ {0, 1} /\ glitches \in Nat
  /\ pc \in {"pairs", "retest", "cross", "done"}
  /\ Len(cluster) < 2 => pc = "done"
  /\ Len(cluster) >= 2 /\ Uniform => \A h \in Hosts : ThresholdOf(h) = threshold
  /\ tested \cup failed \subseteq Hosts /\ suspects \subseteq Hosts /\ waiting \subseteq suspects

(* Why a host has no test: its shape, its pair's.                            *)
NotTestable(h) == ~Known(h) \/ \E p \in Pairs \ TestPairs : h \in {p[1], p[2]}

(* Nobody else is forgotten, but the odd one for which there is no partner.  *)
Covered ==
  Len(cluster) >= 2 =>
    \A h \in Hosts :
      \/ h \in tested \cup failed
      \/ pc = "pairs" /\ (h \in odd \/ \E p \in untested : h \in {p[1], p[2]})
      \/ NotTestable(h)
      \/ mode = "parallel" /\ tested \ {h} = {} /\ (pc = "pairs" => untested = {} /\ odd = {})

(* Whoever was tested is in the results.                                     *)
InResults == tested \cup failed \subseteq HostsOf(DOMAIN results)

(* The first round: no pair is tested twice, and who did not fail has a pair *)
(* with a bandwidth.                                                         *)
Positive == {p \in DOMAIN results : results[p] > 0}

FirstRound ==
  pc = "pairs" =>
    /\ untested \subseteq TestPairs /\ untested \cap DOMAIN results = {}
    /\ odd \subseteq Unpaired /\ \A p \in DOMAIN results : p[1] \notin odd /\ p[2] \notin odd
    /\ tested \ failed \subseteq HostsOf(Positive) /\ turn = <<>>
    /\ \A p \in Positive : p[2] \in tested

(* The good hosts are those of the fast pairs, and none of them waits; there *)
(* is a partner for whoever does.                                            *)
Retested ==
  /\ pc # "pairs" => good = HostsOf(FastPairs)
  /\ pc = "retest" =>
       /\ turn \in Seq(good \ suspects) /\ waiting \cap good = {}
       /\ waiting # {} => good \ suspects # {} /\ (turn = <<>> => waiting = suspects)
  /\ pc \in {"cross", "done"} => waiting = {}

(* No cross test is one of a pair known to be fast.                          *)
CrossTested ==
  pc = "cross" =>
    /\ untested \subseteq PairsAmong(order) /\ DOMAIN order \subseteq Nat
    /\ \A i \in DOMAIN order : order[i] \in Hosts
    /\ \A i, j \in DOMAIN order : order[i] = order[j] => i = j
    /\ \A p \in untested : <<order[p[1]], order[p[2]]>> \notin FastPairs

(* A sound pair that was not fast has used up a test gone wrong.             *)
Spent ==
  Uniform =>
    \A p \in TestPairs :
      {p[1], p[2]} \subseteq Sound =>
        \/ pc = "pairs" /\ p \in untested
        \/ {p[1], p[2]} \subseteq HostsOf(FastPairs)
        \/ glitches >= 1

(* A sound host is good or is to be tested with a good one.                  *)
Cleared ==
  Uniform /\ confirmed => \A h \in Sound : h \in HostsOf(FastPairs) \/ h \in waiting \/ ~Excused(h)

(* If nobody was good, everybody is a suspect.                               *)
Unconfirmed ==
  /\ pc = "pairs" => ~confirmed
  /\ pc = "retest" /\ ~confirmed =>
       good = {} /\ waiting = {} /\ (Uniform /\ mode = "serial" => suspects = Hosts)

(* Then the cross tests clear every two sound hosts they bring together.     *)
CrossCleared ==
  pc \in {"cross", "done"} /\ ~confirmed /\ Uniform /\ mode = "serial" /\ Len(cluster) >= 2 =>
    /\ \A h \in Hosts : \E i \in DOMAIN order : order[i] = h
    /\ DOMAIN order \subseteq Nat
    /\ \A p \in PairsAmong(order) \ untested :
         order[p[1]] \in Sound /\ order[p[2]] \in Sound =>
           \A h \in {order[p[1]], order[p[2]]} : h \in HostsOf(FastPairs) \/ ~Excused(h)

ScoutInv ==
  /\ Given /\ Honest /\ Covered /\ InResults /\ FirstRound /\ Retested /\ CrossTested
  /\ Spent /\ Cleared /\ Unconfirmed /\ CrossCleared

(***************************************************************************)
(* The hosts and the bandwidths.                                           *)
(***************************************************************************)

LEMMA Clustered == ASSUME Given
  PROVE  /\ Len(cluster) \in Nat /\ Hosts = 1..Len(cluster)
         /\ \A h \in Hosts : h \in Nat /\ h >= 1 /\ cluster[h] \in [state : Conditions, shape : Shapes]
         /\ \A h \in Hosts : Known(h) => ThresholdOf(h) \in Nat \ {0, 1}
PROOF
  <1>1. cluster \in Seq([state : Conditions, shape : Shapes])
    BY ScoutAssumption DEF Given
  <1>2. Len(cluster) \in Nat /\ Hosts = 1..Len(cluster)
    BY <1>1, LenProperties DEF Hosts
  <1>3. \A h \in Hosts : cluster[h] \in [state : Conditions, shape : Shapes]
    BY <1>1, ElementOfSeq, <1>2
  <1>4. \A h \in Hosts : Known(h) => ThresholdOf(h) \in Nat \ {0, 1}
    BY ScoutAssumption DEF Known, ThresholdOf
  <1> QED
    BY <1>2, <1>3, <1>4

LEMMA AnswersAreNumbers == Answers \subseteq Nat
PROOF
  <1>1. \A n \in Nat \ {0, 1} : n - 1 \in Nat
    OBVIOUS
  <1>2. ASSUME NEW s \in DOMAIN Threshold PROVE {Threshold[s], Threshold[s] - 1} \subseteq Nat
    BY <1>1, ScoutAssumption
  <1> QED
    BY <1>2 DEF Answers

LEMMA InHostsOf == ASSUME NEW S, NEW h PROVE h \in HostsOf(S) <=> \E p \in S : h \in {p[1], p[2]}
BY DEF HostsOf

(* Neighbours are two hosts that answered; the one without is the last.      *)
LEMMA Neighbours == ASSUME Given
  PROVE  /\ \A p \in Pairs : p = <<p[1], p[2]>> /\ p[1] \in Hosts /\ p[2] \in Hosts /\ Len(cluster) >= 2
         /\ \A p \in Pairs : p[1] \notin Unpaired /\ p[2] \notin Unpaired
         /\ \A g, h \in Unpaired : g = h
         /\ \A h \in Hosts \ Unpaired : \E p \in Pairs : h \in {p[1], p[2]}
         /\ Unpaired \subseteq Hosts
PROOF
  <1>1. Len(cluster) \in Nat /\ Hosts = 1..Len(cluster)
    BY Clustered
  <1>2. ASSUME NEW p \in Pairs
        PROVE  /\ p = <<p[1], p[2]>> /\ p[1] \in Hosts /\ p[2] \in Hosts /\ Len(cluster) >= 2
               /\ p[1] \notin Unpaired /\ p[2] \notin Unpaired
    <2>1. PICK h \in Hosts : h % 2 = 1 /\ h + 1 \in Hosts /\ p = <<h, h + 1>>
      BY DEF Pairs
    <2>2. p[1] = h /\ p[2] = h + 1
      BY <2>1
    <2>3. (h + 1) % 2 = 0
      BY <1>1, <2>1
    <2> QED
      BY <1>1, <2>1, <2>2, <2>3 DEF Unpaired
  <1>3. ASSUME NEW g \in Unpaired, NEW h \in Unpaired PROVE g = h
    BY <1>1 DEF Unpaired
  <1>4. ASSUME NEW h \in Hosts, h \notin Unpaired PROVE \E p \in Pairs : h \in {p[1], p[2]}
    <2>1. CASE h % 2 = 1
      <3>1. <<h, h + 1>> \in Pairs
        BY <1>4, <2>1 DEF Unpaired, Pairs
      <3> QED
        BY <3>1
    <2>2. CASE h % 2 # 1
      <3>1. h - 1 \in Hosts /\ (h - 1) % 2 = 1 /\ (h - 1) + 1 = h
        BY <1>1, <2>2
      <3>2. <<h - 1, (h - 1) + 1>> \in Pairs
        BY <3>1 DEF Pairs
      <3>3. <<h - 1, h>> \in Pairs
        BY <3>1, <3>2
      <3> QED
        BY <3>3
    <2> QED
      BY <2>1, <2>2
  <1> QED
    BY <1>2, <1>3, <1>4 DEF Unpaired

(* Two sound hosts of one shape are as fast as the threshold.                *)
LEMMA SoundPair ==
  ASSUME Given, Uniform, Len(cluster) >= 2, NEW a \in Sound, NEW b \in Sound
  PROVE  Bandwidth(a, b) = threshold
PROOF
  <1>1. a \in Hosts /\ b \in Hosts /\ cluster[a].state = "sound" /\ cluster[b].state = "sound"
    BY DEF Sound
  <1>2. Known(a) /\ Known(b) /\ ThresholdOf(a) = threshold /\ ThresholdOf(b) = threshold
    BY <1>1 DEF Given, Uniform
  <1> QED
    BY <1>1, <1>2 DEF Bandwidth, Rate, Smaller

(* A fast pair has no dead host, nor a slow one judged by no less than its   *)
(* own threshold.                                                            *)
LEMMA FastIsHealthy ==
  ASSUME Given, Honest, NEW p \in FastPairs, NEW h \in {p[1], p[2]}
  PROVE  /\ h \in Hosts /\ cluster[h].state # "dead"
         /\ ~(cluster[h].state = "slow" /\ Known(h) /\ ThresholdOf(h) <= threshold)
         /\ Uniform /\ Len(cluster) >= 2 => h \in Sound
PROOF
  <1> DEFINE a == p[1]
  <1> DEFINE b == p[2]
  <1>1. p \in DOMAIN results /\ results[p] >= threshold /\ a \in Hosts /\ b \in Hosts
    BY DEF FastPairs, FastEnough, Honest
  <1>2. Bandwidth(a, b) \in Nat /\ Bandwidth(a, b) >= threshold /\ threshold \in Nat \ {0, 1}
    BY <1>1 DEF Honest, Given
  <1>3. h \in {a, b}
    OBVIOUS
  <1>4. /\ Known(a) => ThresholdOf(a) \in Nat \ {0, 1}
        /\ Known(b) => ThresholdOf(b) \in Nat \ {0, 1}
        /\ cluster[h].state \in Conditions
    BY <1>1, <1>3, Clustered
  <1> HIDE DEF a, b
  <1>5. cluster[a].state # "dead" /\ cluster[b].state # "dead"
    BY <1>2 DEF Bandwidth
  <1>6. Known(a) => Rate(a) \in Nat
    BY <1>4 DEF Rate
  <1>7. Known(b) => Rate(b) \in Nat
    BY <1>4 DEF Rate
  <1>8. Known(a) => Bandwidth(a, b) <= Rate(a)
    BY <1>2, <1>5, <1>6, <1>7 DEF Bandwidth, Smaller
  <1>9. Known(b) => Bandwidth(a, b) <= Rate(b)
    BY <1>2, <1>5, <1>6, <1>7 DEF Bandwidth, Smaller
  <1>10. Known(h) => Rate(h) \in Nat /\ Rate(h) >= threshold /\ ThresholdOf(h) \in Nat
    BY <1>2, <1>3, <1>4, <1>6, <1>7, <1>8, <1>9
  <1>11. ~(cluster[h].state = "slow" /\ Known(h) /\ ThresholdOf(h) <= threshold)
    BY <1>2, <1>10 DEF Rate
  <1>12. Uniform /\ Len(cluster) >= 2 => Known(h) /\ ThresholdOf(h) = threshold
    BY <1>1, <1>3 DEF Given, Uniform
  <1>13. Uniform /\ Len(cluster) >= 2 => cluster[h].state = "sound"
    BY <1>2, <1>3, <1>4, <1>5, <1>11, <1>12 DEF Conditions
  <1> QED
    BY <1>1, <1>3, <1>5, <1>11, <1>13 DEF Sound

(***************************************************************************)
(* A step.                                                                 *)
(***************************************************************************)

(* Nothing changes what the hosts are.                                       *)
LEMMA SameHosts == ASSUME UNCHANGED given
  PROVE  /\ Hosts' = Hosts /\ Pairs' = Pairs /\ TestPairs' = TestPairs /\ Unpaired' = Unpaired
         /\ Sound' = Sound /\ (Uniform' <=> Uniform) /\ Len(cluster)' = Len(cluster)
         /\ mode' = mode /\ cluster' = cluster /\ threshold' = threshold
         /\ \A h : Known(h)' <=> Known(h)
         /\ \A h : ThresholdOf(h)' = ThresholdOf(h)
         /\ \A h : NeighboursOf(h)' = NeighboursOf(h)
         /\ \A a, b : Bandwidth(a, b)' = Bandwidth(a, b)
PROOF
  <1> USE DEF given
  <1>1. Hosts' = Hosts /\ (\A h : (Known(h)' <=> Known(h)) /\ ThresholdOf(h)' = ThresholdOf(h))
    BY DEF Hosts, Known, ThresholdOf
  <1>2. Pairs' = Pairs /\ Unpaired' = Unpaired
    BY <1>1 DEF Pairs, Unpaired
  <1>3. TestPairs' = TestPairs
    BY <1>1, <1>2 DEF TestPairs
  <1>4. Sound' = Sound /\ (Uniform' <=> Uniform)
    BY <1>1 DEF Sound, Uniform
  <1>5. \A h : NeighboursOf(h)' = NeighboursOf(h)
    BY <1>3 DEF NeighboursOf, HostsOf
  <1>6. \A a, b : Bandwidth(a, b)' = Bandwidth(a, b)
    BY <1>1 DEF Bandwidth, Rate, Smaller
  <1> QED
    BY <1>1, <1>2, <1>3, <1>4, <1>5, <1>6

(* What has gone wrong once does not come right again.                       *)
LEMMA ExcusedBefore ==
  ASSUME UNCHANGED given, glitches \in Nat, glitches' \in Nat, glitches <= glitches', NEW h, Excused(h)'
  PROVE  Excused(h) /\ glitches' <= 1
PROOF
  <1>1. NeighboursOf(h)' = NeighboursOf(h) /\ Sound' = Sound
    BY SameHosts
  <1>2. glitches' = 0 \/ (glitches' = 1 /\ NeighboursOf(h) \subseteq Sound /\ NeighboursOf(h) # {})
    BY <1>1 DEF Excused
  <1> QED
    BY <1>2 DEF Excused

(* A test: what it adds to the results.                                      *)
LEMMA TestAdds ==
  ASSUME Given, Honest, UNCHANGED given, NEW a \in Hosts, NEW b \in Hosts, NEW bw \in Answers,
         Measured(a, b, bw), Record(a, b, bw), <<a, b>> \notin FastPairs
  PROVE  /\ Honest'
         /\ DOMAIN results' = DOMAIN results \cup {<<a, b>>} /\ results'[<<a, b>>] = bw
         /\ \A p \in DOMAIN results : p # <<a, b>> => results'[p] = results[p]
         /\ FastPairs' = IF FastEnough(bw) THEN FastPairs \cup {<<a, b>>} ELSE FastPairs
         /\ glitches' \in Nat /\ glitches <= glitches'
         /\ Uniform /\ Len(cluster) >= 2 /\ a \in Sound /\ b \in Sound =>
              FastEnough(bw) \/ glitches' = glitches + 1
         /\ bw \in Nat
PROOF
  <1>1. bw \in Nat
    BY AnswersAreNumbers
  <1>2. /\ DOMAIN results' = DOMAIN results \cup {<<a, b>>} /\ results'[<<a, b>>] = bw
        /\ \A p \in DOMAIN results : p # <<a, b>> => results'[p] = results[p]
    BY DEF Record
  <1>3. glitches' \in Nat /\ glitches <= glitches'
    BY DEF Measured, Given
  <1>4. Honest'
    <2>1. \A p \in DOMAIN results' : Bandwidth(p[1], p[2])' = Bandwidth(p[1], p[2])
      BY SameHosts
    <2>2. Hosts' = Hosts
      BY SameHosts
    <2>3. ASSUME NEW p \in DOMAIN results'
          PROVE  /\ p \in Hosts \X Hosts /\ results'[p] \in Nat
                 /\ results'[p] = Bandwidth(p[1], p[2]) \/ results'[p] \in {0, 1}
      <3>1. CASE p = <<a, b>>
        BY <1>1, <1>2, <3>1 DEF Measured
      <3>2. CASE p # <<a, b>>
        BY <1>2, <3>2 DEF Honest
      <3> QED
        BY <3>1, <3>2
    <2> QED
      BY <2>1, <2>2, <2>3 DEF Honest
  <1>5. FastPairs' = IF FastEnough(bw) THEN FastPairs \cup {<<a, b>>} ELSE FastPairs
    <2>1. threshold' = threshold
      BY SameHosts
    <2> QED
      BY <1>2, <2>1 DEF FastPairs, FastEnough
  <1>6. ASSUME Uniform, Len(cluster) >= 2, a \in Sound, b \in Sound
        PROVE  FastEnough(bw) \/ glitches' = glitches + 1
    <2>1. Bandwidth(a, b) = threshold
      BY <1>6, SoundPair
    <2> QED
      BY <2>1 DEF Measured, FastEnough, Given
  <1> QED
    BY <1>1, <1>2, <1>3, <1>4, <1>5, <1>6

(* What no test changes.                                                     *)
LEMMA Untouched ==
  ASSUME Given, Honest, UNCHANGED <<given, results, glitches>>
  PROVE  /\ Honest' /\ FastPairs' = FastPairs /\ SlowPairs' = SlowPairs
         /\ \A h : Excused(h)' <=> Excused(h)
PROOF
  <1>1. threshold' = threshold /\ Hosts' = Hosts /\ Sound' = Sound
        /\ \A a, b : Bandwidth(a, b)' = Bandwidth(a, b)
    BY SameHosts
  <1>2. FastPairs' = FastPairs /\ SlowPairs' = SlowPairs
    BY <1>1 DEF FastPairs, SlowPairs, FastEnough
  <1>3. Honest'
    BY <1>1 DEF Honest
  <1>4. ASSUME NEW h PROVE Excused(h)' <=> Excused(h)
    <2>1. NeighboursOf(h)' = NeighboursOf(h)
      BY SameHosts
    <2> QED
      BY <1>1, <2>1 DEF Excused
  <1> QED
    BY <1>2, <1>3, <1>4

LEMMA PartnersAreHosts ==
  ASSUME Given, FirstRound, pc = "pairs", NEW h \in odd, NEW c \in PartnersOf(h)
  PROVE  c \in Hosts /\ c # h
PROOF
  <1>1. tested \subseteq Hosts /\ h \in Hosts
    BY Neighbours DEF Given, FirstRound
  <1> QED
    BY <1>1 DEF PartnersOf

LEMMA PartnersAreGood ==
  ASSUME Given, Honest, Retested, pc = "retest", waiting # {}, NEW c \in PartnersInTurn
  PROVE  c \in good \ suspects /\ c \in Hosts
PROOF
  <1> DEFINE partners == good \ suspects
  <1> DEFINE done == Cardinality(suspects \ waiting)
  <1>1. turn \in Seq(partners) /\ partners # {} /\ (turn = <<>> => waiting = suspects)
    BY DEF Retested
  <1>2. good \subseteq Hosts
    BY FastIsHealthy, InHostsOf DEF Retested
  <1>3. IsFiniteSet(Hosts)
    BY Clustered, FS_Interval
  <1>4. IsFiniteSet(partners) /\ IsFiniteSet(suspects \ waiting)
    BY <1>2, <1>3, FS_Subset DEF Given
  <1>5. Cardinality(partners) \in Nat \ {0} /\ done \in Nat
    BY <1>1, <1>4, FS_CardinalityType, FS_EmptySet
  <1>6. c \in IF done < Cardinality(partners) THEN partners \ Range(turn) ELSE {turn[(done % Len(turn)) + 1]}
    BY DEF PartnersInTurn
  <1>7. CASE turn = <<>>
    <2>1. done = 0
      BY <1>1, <1>7, FS_EmptySet
    <2> QED
      BY <1>2, <1>5, <1>6, <2>1
  <1>8. CASE turn # <<>>
    <2>1. Len(turn) \in Nat /\ Len(turn) # 0 /\ \A i \in 1..Len(turn) : turn[i] \in partners
      BY <1>1, <1>8, EmptySeq, LenProperties, ElementOfSeq
    <2>2. \A m \in Nat, n \in Nat \ {0} : (m % n) + 1 \in 1..n
      OBVIOUS
    <2>3. turn[(done % Len(turn)) + 1] \in partners
      BY <1>5, <2>1, <2>2
    <2> QED
      BY <1>2, <1>6, <2>3
  <1> QED
    BY <1>7, <1>8

(***************************************************************************)
(* What a step keeps.                                                      *)
(***************************************************************************)

LEMMA HostsGrow == ASSUME NEW S, NEW T, S \subseteq T PROVE HostsOf(S) \subseteq HostsOf(T)
BY DEF HostsOf

LEMMA GivenKept ==
  ASSUME Given, UNCHANGED given, glitches' \in Nat, pc' \in {"pairs", "retest", "cross", "done"},
         Len(cluster) < 2 => pc' = "done",
         tested' \cup failed' \subseteq Hosts, suspects' \subseteq Hosts, waiting' \subseteq suspects'
  PROVE  Given'
PROOF
  <1>1. /\ Hosts' = Hosts /\ (Uniform' <=> Uniform) /\ Len(cluster)' = Len(cluster)
        /\ mode' = mode /\ cluster' = cluster /\ threshold' = threshold
        /\ \A h : ThresholdOf(h)' = ThresholdOf(h)
    BY SameHosts
  <1> QED
    BY <1>1 DEF Given

LEMMA SpentKept ==
  ASSUME Spent, UNCHANGED given, FastPairs \subseteq FastPairs',
         glitches \in Nat, glitches' \in Nat, glitches <= glitches',
         \A p \in TestPairs : pc = "pairs" /\ p \in untested => pc' = "pairs" /\ p \in untested'
  PROVE  Spent'
PROOF
  <1>1. TestPairs' = TestPairs /\ Sound' = Sound /\ (Uniform' <=> Uniform)
    BY SameHosts
  <1>2. HostsOf(FastPairs) \subseteq HostsOf(FastPairs)'
    BY HostsGrow DEF HostsOf
  <1>3. SUFFICES ASSUME Uniform, NEW p \in TestPairs, {p[1], p[2]} \subseteq Sound
                 PROVE  \/ pc' = "pairs" /\ p \in untested'
                        \/ {p[1], p[2]} \subseteq HostsOf(FastPairs)'
                        \/ glitches' >= 1
    BY <1>1 DEF Spent
  <1> QED
    BY <1>2, <1>3 DEF Spent

LEMMA CoveredKept ==
  ASSUME Covered, UNCHANGED <<given, tested, failed>>, pc = "pairs" => untested = {} /\ odd = {},
         pc' # "pairs"
  PROVE  Covered'
PROOF
  <1>1. /\ Hosts' = Hosts /\ Len(cluster)' = Len(cluster) /\ mode' = mode
        /\ Pairs' = Pairs /\ TestPairs' = TestPairs /\ \A h : Known(h)' <=> Known(h)
    BY SameHosts
  <1>2. \A h : NotTestable(h)' <=> NotTestable(h)
    BY <1>1 DEF NotTestable
  <1> QED
    BY <1>1, <1>2 DEF Covered

LEMMA InResultsKept ==
  ASSUME InResults, tested' \cup failed' \subseteq tested \cup failed \cup HostsOf(DOMAIN results'),
         DOMAIN results \subseteq DOMAIN results'
  PROVE  InResults'
PROOF
  <1>1. HostsOf(DOMAIN results) \subseteq HostsOf(DOMAIN results')
    BY HostsGrow
  <1>2. HostsOf(DOMAIN results)' = HostsOf(DOMAIN results')
    BY DEF HostsOf
  <1> QED
    BY <1>1, <1>2 DEF InResults

(***************************************************************************)
(* One lemma for each action.                                              *)
(***************************************************************************)

LEMMA PairStep ==
  ASSUME ScoutInv, NEW p \in untested, NEW bw \in Answers, TestPair(p, bw)
  PROVE  ScoutInv'
PROOF
  <1> USE DEF ScoutInv
  <1>1. /\ pc = "pairs" /\ UNCHANGED given /\ untested' = untested \ {p}
        /\ UNCHANGED <<pc, odd, good, suspects, waiting, turn, order, confirmed>>
        /\ Measured(p[1], p[2], bw) /\ Record(p[1], p[2], bw)
        /\ IF bw = 0 THEN failed' = failed \cup {p[1], p[2]} /\ tested' = tested
           ELSE tested' = tested \cup {p[1], p[2]} /\ failed' = failed
    BY DEF TestPair
  <1>2. /\ p \in TestPairs /\ p = <<p[1], p[2]>> /\ p[1] \in Hosts /\ p[2] \in Hosts
        /\ p \notin DOMAIN results /\ Len(cluster) >= 2
        /\ p[1] \notin odd /\ p[2] \notin odd
    BY <1>1, Neighbours DEF FirstRound, TestPairs
  <1>3. /\ Honest' /\ DOMAIN results' = DOMAIN results \cup {p} /\ results'[p] = bw /\ bw \in Nat
        /\ \A q \in DOMAIN results : results'[q] = results[q]
        /\ FastPairs' = IF FastEnough(bw) THEN FastPairs \cup {p} ELSE FastPairs
        /\ glitches' \in Nat /\ glitches <= glitches'
        /\ Uniform /\ p[1] \in Sound /\ p[2] \in Sound => FastEnough(bw) \/ glitches' = glitches + 1
    <2> DEFINE key == <<p[1], p[2]>>
    <2>1. key = p /\ key \notin FastPairs
      BY <1>2 DEF FastPairs
    <2>2. /\ Honest' /\ DOMAIN results' = DOMAIN results \cup {key} /\ results'[key] = bw /\ bw \in Nat
          /\ \A q \in DOMAIN results : q # key => results'[q] = results[q]
          /\ FastPairs' = IF FastEnough(bw) THEN FastPairs \cup {key} ELSE FastPairs
          /\ glitches' \in Nat /\ glitches <= glitches'
          /\ Uniform /\ p[1] \in Sound /\ p[2] \in Sound => FastEnough(bw) \/ glitches' = glitches + 1
      BY <1>1, <1>2, <2>1, TestAdds
    <2> HIDE DEF key
    <2> QED
      BY <1>2, <2>1, <2>2
  <1>4. /\ Hosts' = Hosts /\ Len(cluster)' = Len(cluster) /\ mode' = mode
        /\ Pairs' = Pairs /\ TestPairs' = TestPairs /\ Unpaired' = Unpaired
        /\ Sound' = Sound /\ (Uniform' <=> Uniform) /\ \A h : Known(h)' <=> Known(h)
    BY <1>1, SameHosts
  <1>5. Given'
    BY <1>1, <1>2, <1>3, GivenKept DEF Given
  <1>6. Covered'
    <2>1. \A h : NotTestable(h)' <=> NotTestable(h)
      BY <1>4 DEF NotTestable
    <2> QED
      BY <1>1, <1>2, <1>4, <2>1 DEF Covered
  <1>7. InResults'
    <2>1. {p[1], p[2]} \subseteq HostsOf(DOMAIN results')
      BY <1>3, InHostsOf
    <2> QED
      BY <1>1, <1>3, <2>1, InResultsKept
  <1>8. FirstRound'
    <2>1. Positive' = IF bw = 0 THEN Positive ELSE Positive \cup {p}
      BY <1>2, <1>3 DEF Positive
    <2>2. HostsOf(Positive)' = IF bw = 0 THEN HostsOf(Positive) ELSE HostsOf(Positive) \cup {p[1], p[2]}
      BY <2>1 DEF HostsOf
    <2>3. tested' \ failed' \subseteq HostsOf(Positive)'
      BY <1>1, <2>2 DEF FirstRound
    <2>4. \A q \in Positive' : q[2] \in tested'
      BY <1>1, <2>1 DEF FirstRound
    <2>5. untested' \subseteq TestPairs' /\ untested' \cap DOMAIN results' = {}
      BY <1>1, <1>3, <1>4 DEF FirstRound
    <2>6. odd' \subseteq Unpaired' /\ \A q \in DOMAIN results' : q[1] \notin odd' /\ q[2] \notin odd'
      BY <1>1, <1>2, <1>3, <1>4 DEF FirstRound
    <2> QED
      BY <1>1, <2>3, <2>4, <2>5, <2>6 DEF FirstRound
  <1>9. Spent'
    <2>1. HostsOf(FastPairs) \subseteq HostsOf(FastPairs)'
      BY <1>3 DEF HostsOf
    <2>2. FastEnough(bw) => {p[1], p[2]} \subseteq HostsOf(FastPairs)'
      BY <1>3 DEF HostsOf
    <2>3. SUFFICES ASSUME Uniform, NEW q \in TestPairs, {q[1], q[2]} \subseteq Sound
                   PROVE  \/ pc' = "pairs" /\ q \in untested'
                          \/ {q[1], q[2]} \subseteq HostsOf(FastPairs)'
                          \/ glitches' >= 1
      BY <1>4 DEF Spent
    <2>4. glitches \in Nat
      BY DEF Given
    <2>5. CASE q = p
      BY <1>3, <2>2, <2>3, <2>4, <2>5
    <2>6. CASE q # p
      <3>1. q \in untested \/ {q[1], q[2]} \subseteq HostsOf(FastPairs) \/ glitches >= 1
        BY <2>3 DEF Spent
      <3>2. q \in untested => pc' = "pairs" /\ q \in untested'
        BY <1>1, <2>6
      <3>3. glitches >= 1 => glitches' >= 1
        BY <1>3, <2>4
      <3> QED
        BY <2>1, <3>1, <3>2, <3>3
    <2> QED
      BY <2>5, <2>6
  <1>10. Retested' /\ CrossTested' /\ Cleared' /\ Unconfirmed' /\ CrossCleared'
    BY <1>1 DEF Retested, CrossTested, Cleared, Unconfirmed, CrossCleared
  <1> QED
    BY <1>3, <1>5, <1>6, <1>7, <1>8, <1>9, <1>10

LEMMA UnpairedStep ==
  ASSUME ScoutInv, NEW h \in Hosts, NEW partner \in Hosts, NEW bw \in Answers,
         TestUnpaired(h, partner, bw)
  PROVE  ScoutInv'
PROOF
  <1> USE DEF ScoutInv
  <1>1. /\ pc = "pairs" /\ UNCHANGED given /\ untested = {} /\ h \in odd /\ odd' = odd \ {h}
        /\ UNCHANGED <<pc, untested, good, suspects, waiting, turn, order, confirmed>>
        /\ Measured(partner, h, bw) /\ Record(partner, h, bw)
        /\ IF bw = 0 THEN failed' = failed \cup {h} /\ tested' = tested
           ELSE tested' = tested \cup {h} /\ failed' = failed
    BY DEF TestUnpaired
  <1> DEFINE p == <<partner, h>>
  <1>2. p[1] = partner /\ p[2] = h /\ p \notin DOMAIN results /\ odd = {h} /\ h \in Unpaired
    BY <1>1, Neighbours DEF FirstRound
  <1> HIDE DEF p
  <1>3. /\ Honest' /\ DOMAIN results' = DOMAIN results \cup {p} /\ results'[p] = bw /\ bw \in Nat
        /\ \A q \in DOMAIN results : results'[q] = results[q]
        /\ FastPairs' = IF FastEnough(bw) THEN FastPairs \cup {p} ELSE FastPairs
        /\ glitches' \in Nat /\ glitches <= glitches'
    BY <1>1, <1>2, TestAdds DEF FastPairs, p
  <1>4. /\ Hosts' = Hosts /\ Len(cluster)' = Len(cluster) /\ mode' = mode
        /\ Pairs' = Pairs /\ TestPairs' = TestPairs /\ Unpaired' = Unpaired
        /\ \A g : Known(g)' <=> Known(g)
    BY <1>1, SameHosts
  <1>5. Given'
    BY <1>1, <1>3, GivenKept DEF Given
  <1>6. Covered'
    <2>1. \A g : NotTestable(g)' <=> NotTestable(g)
      BY <1>4 DEF NotTestable
    <2> QED
      BY <1>1, <1>2, <1>4, <2>1 DEF Covered
  <1>7. InResults'
    <2>1. h \in HostsOf(DOMAIN results')
      BY <1>2, <1>3, InHostsOf
    <2> QED
      BY <1>1, <1>3, <2>1, InResultsKept
  <1>8. FirstRound'
    <2>1. Positive' = IF bw = 0 THEN Positive ELSE Positive \cup {p}
      BY <1>2, <1>3 DEF Positive
    <2>2. HostsOf(Positive)' = IF bw = 0 THEN HostsOf(Positive) ELSE HostsOf(Positive) \cup {partner, h}
      BY <1>2, <2>1 DEF HostsOf
    <2>3. tested' \ failed' \subseteq HostsOf(Positive)'
      BY <1>1, <2>2 DEF FirstRound
    <2>4. \A q \in Positive' : q[2] \in tested'
      BY <1>1, <1>2, <2>1 DEF FirstRound
    <2> QED
      BY <1>1, <1>2, <1>4, <2>3, <2>4 DEF FirstRound
  <1>9. Spent'
    BY <1>1, <1>3, SpentKept DEF Given
  <1>10. Retested' /\ CrossTested' /\ Cleared' /\ Unconfirmed' /\ CrossCleared'
    BY <1>1 DEF Retested, CrossTested, Cleared, Unconfirmed, CrossCleared
  <1> QED
    BY <1>3, <1>5, <1>6, <1>7, <1>8, <1>9, <1>10

LEMMA LeaveOutStep ==
  ASSUME ScoutInv, NEW h \in Hosts, LeaveOut(h)
  PROVE  ScoutInv'
PROOF
  <1> USE DEF ScoutInv
  <1>1. /\ pc = "pairs" /\ untested = {} /\ h \in odd /\ odd' = odd \ {h}
        /\ ~Known(h) \/ PartnersOf(h) = {}
        /\ UNCHANGED <<given, results, glitches>> /\ UNCHANGED given
        /\ UNCHANGED <<pc, untested, tested, failed, good, suspects, waiting, turn, order, confirmed>>
    BY DEF LeaveOut
  <1>2. odd = {h} /\ h \in Unpaired
    BY <1>1, Neighbours DEF FirstRound
  <1>3. Honest' /\ FastPairs' = FastPairs
    BY <1>1, Untouched
  <1>4. /\ Hosts' = Hosts /\ Len(cluster)' = Len(cluster) /\ mode' = mode
        /\ Pairs' = Pairs /\ TestPairs' = TestPairs /\ Unpaired' = Unpaired
        /\ \A g : Known(g)' <=> Known(g)
    BY <1>1, SameHosts
  <1>5. Given'
    BY <1>1, GivenKept DEF Given
  <1>6. Covered'
    <2>1. \A g : NotTestable(g)' <=> NotTestable(g)
      BY <1>4 DEF NotTestable
    <2>2. ASSUME Known(h), Len(cluster) >= 2 PROVE mode = "parallel" /\ tested \ {h} = {}
      <3>1. PartnersOf(h) = {}
        BY <1>1, <2>2
      <3>2. tested \ {h} = {} /\ ~(mode = "serial" /\ {c \in Hosts \ {h} : \A d \in Hosts \ {h} : c <= d} # {})
        BY <3>1 DEF PartnersOf
      <3>3. 1 \in {c \in Hosts \ {h} : \A d \in Hosts \ {h} : c <= d}
        <4>1. Hosts = 1..Len(cluster) /\ Len(cluster) \in Nat
          BY Clustered
        <4>2. h + 1 \notin Hosts
          BY <1>2 DEF Unpaired
        <4> QED
          BY <2>2, <4>1, <4>2
      <3> QED
        BY <3>2, <3>3 DEF Given
    <2>3. ~Known(h) => NotTestable(h)
      BY DEF NotTestable
    <2> QED
      BY <1>1, <1>2, <1>4, <2>1, <2>2, <2>3 DEF Covered
  <1>7. InResults'
    BY <1>1, InResultsKept
  <1>8. FirstRound'
    <2>1. Positive' = Positive
      BY <1>1 DEF Positive
    <2>2. HostsOf(Positive)' = HostsOf(Positive)
      BY <2>1 DEF HostsOf
    <2> QED
      BY <1>1, <1>4, <2>1, <2>2 DEF FirstRound
  <1>9. Spent'
    BY <1>1, <1>3, SpentKept DEF Given
  <1>10. Retested' /\ CrossTested' /\ Cleared' /\ Unconfirmed' /\ CrossCleared'
    BY <1>1 DEF Retested, CrossTested, Cleared, Unconfirmed, CrossCleared
  <1> QED
    BY <1>3, <1>5, <1>6, <1>7, <1>8, <1>9, <1>10
LEMMA SortStep ==
  ASSUME ScoutInv, Sort
  PROVE  ScoutInv'
PROOF
  <1> USE DEF ScoutInv
  <1>1. /\ pc = "pairs" /\ untested = {} /\ odd = {} /\ pc' = "retest"
        /\ good' = HostsOf(FastPairs) /\ suspects' = Suspects
        /\ (confirmed' <=> good' # {})
        /\ waiting' = IF good' = {} THEN {} ELSE suspects'
        /\ UNCHANGED <<given, results, glitches>> /\ UNCHANGED given
        /\ UNCHANGED <<untested, odd, tested, failed, turn, order>>
    BY DEF Sort
  <1>2. Honest' /\ FastPairs' = FastPairs /\ HostsOf(FastPairs)' = HostsOf(FastPairs)
    BY <1>1, Untouched DEF HostsOf
  <1>3. /\ Hosts' = Hosts /\ Len(cluster)' = Len(cluster) /\ mode' = mode
        /\ Sound' = Sound /\ (Uniform' <=> Uniform)
    BY <1>1, SameHosts
  <1>4. Len(cluster) >= 2 /\ Len(cluster) \in Nat
    BY <1>1, Clustered DEF Given
  <1>5. Suspects \subseteq Hosts /\ Suspects \cap HostsOf(FastPairs) = {}
    BY InHostsOf DEF Suspects, SlowPairs, Honest, Given
  <1>6. Given'
    BY <1>1, <1>3, <1>4, <1>5, GivenKept DEF Given
  <1>7. Covered' /\ InResults'
    BY <1>1, CoveredKept, InResultsKept
  <1>8. Spent'
    BY <1>1, <1>2, SpentKept DEF Given
  \* Everybody who has been tested is good or a suspect.
  <1>9. tested \cup failed \subseteq HostsOf(FastPairs) \cup Suspects
    <2>1. Positive \subseteq FastPairs \cup SlowPairs
      BY DEF Positive, SlowPairs, FastPairs
    <2>2. HostsOf(Positive) \subseteq HostsOf(FastPairs) \cup HostsOf(SlowPairs)
      BY <2>1 DEF HostsOf
    <2> QED
      BY <1>1, <2>2 DEF FirstRound, Suspects
  \* On a cluster of one shape that is everybody, unless nobody is good.
  <1>10. ASSUME Uniform, NEW h \in Hosts, h \notin HostsOf(FastPairs) \cup Suspects
         PROVE  mode = "parallel" /\ HostsOf(FastPairs) = {}
    <2>1. h \notin tested \cup failed
      BY <1>9, <1>10
    <2>2. ~NotTestable(h)
      BY <1>10, Neighbours DEF NotTestable, TestPairs, Uniform
    <2>3. mode = "parallel" /\ tested \ {h} = {}
      BY <1>1, <1>4, <2>1, <2>2 DEF Covered
    <2>4. tested = {}
      BY <2>1, <2>3
    <2>5. FastPairs \subseteq Positive
      BY DEF FastPairs, Positive, FastEnough, Given, Honest
    <2>6. FastPairs = {}
      BY <1>1, <2>4, <2>5 DEF FirstRound
    <2> QED
      BY <2>3, <2>6 DEF HostsOf
  <1>11. Retested'
    <2>1. good' = HostsOf(FastPairs)' /\ waiting' \cap good' = {}
      BY <1>1, <1>2, <1>5
    <2>2. waiting' # {} => good' \ suspects' # {} /\ waiting' = suspects'
      BY <1>1, <1>5
    <2>3. turn' \in Seq(good' \ suspects')
      BY <1>1, EmptySeq DEF FirstRound
    <2> QED
      BY <1>1, <2>1, <2>2, <2>3 DEF Retested
  <1>12. Cleared'
    BY <1>1, <1>2, <1>3, <1>10 DEF Cleared, Sound
  <1>13. Unconfirmed'
    BY <1>1, <1>3, <1>5, <1>10 DEF Unconfirmed
  <1>14. FirstRound' /\ CrossTested' /\ CrossCleared'
    BY <1>1 DEF FirstRound, CrossTested, CrossCleared
  <1> QED
    BY <1>2, <1>6, <1>7, <1>8, <1>11, <1>12, <1>13, <1>14

LEMMA RetestStep ==
  ASSUME ScoutInv, NEW h \in Hosts, NEW partner \in Hosts, NEW bw \in Answers, Retest(h, partner, bw)
  PROVE  ScoutInv'
PROOF
  <1> USE DEF ScoutInv
  <1>1. /\ pc = "retest" /\ UNCHANGED given /\ h \in waiting /\ partner \in PartnersInTurn
        /\ UNCHANGED <<pc, untested, odd, tested, failed, suspects, order, confirmed>>
        /\ Measured(partner, h, bw) /\ Record(partner, h, bw)
        /\ waiting' = waiting \ {h}
        /\ good' = IF FastEnough(bw) THEN good \cup {h} ELSE good
        /\ turn' = IF partner \in Range(turn) THEN turn ELSE Append(turn, partner)
    BY DEF Retest
  <1>2. partner \in good \ suspects /\ h \in suspects /\ h \notin good /\ good = HostsOf(FastPairs)
    BY <1>1, PartnersAreGood DEF Retested, Given
  <1> DEFINE p == <<partner, h>>
  <1>3. p[1] = partner /\ p[2] = h /\ p \notin FastPairs
    BY <1>2, InHostsOf
  <1>4. /\ Honest' /\ DOMAIN results' = DOMAIN results \cup {p} /\ bw \in Nat
        /\ FastPairs' = IF FastEnough(bw) THEN FastPairs \cup {p} ELSE FastPairs
        /\ glitches' \in Nat /\ glitches <= glitches'
        /\ Uniform /\ Len(cluster) >= 2 /\ partner \in Sound /\ h \in Sound =>
             FastEnough(bw) \/ glitches' = glitches + 1
    BY <1>1, <1>3, TestAdds
  <1> HIDE DEF p
  <1>5. /\ Hosts' = Hosts /\ Sound' = Sound /\ (Uniform' <=> Uniform)
    BY <1>1, SameHosts
  <1>6. Len(cluster) >= 2 /\ glitches \in Nat
    BY <1>1, Clustered DEF Given
  <1>7. Given'
    BY <1>1, <1>4, <1>6, GivenKept DEF Given
  <1>8. Covered' /\ InResults'
    BY <1>1, <1>4, CoveredKept, InResultsKept
  <1>9. Spent'
    BY <1>1, <1>4, <1>6, SpentKept
  <1>10. good' = HostsOf(FastPairs)' /\ HostsOf(FastPairs) \subseteq HostsOf(FastPairs)'
    <2>1. HostsOf(FastPairs)' = IF FastEnough(bw) THEN HostsOf(FastPairs) \cup {partner, h} ELSE HostsOf(FastPairs)
      BY <1>3, <1>4 DEF HostsOf
    <2> QED
      BY <1>1, <1>2, <2>1
  <1>11. Retested'
    <2>1. good' \ suspects' = good \ suspects
      BY <1>1, <1>2
    <2>2. turn \in Seq(good \ suspects)
      BY <1>1 DEF Retested
    <2>3. turn' \in Seq(good \ suspects) /\ turn' # <<>>
      <3>1. CASE partner \in Range(turn)
        <4>1. turn # <<>>
          BY <3>1, RangeOfEmpty
        <4> QED
          BY <1>1, <2>2, <3>1, <4>1
      <3>2. CASE partner \notin Range(turn)
        <4>1. Append(turn, partner) \in Seq(good \ suspects) /\ Append(turn, partner) # <<>>
          BY <1>2, <2>2, AppendProperties
        <4> QED
          BY <1>1, <3>2, <4>1
      <3> QED
        BY <3>1, <3>2
    <2>4. waiting' \cap good' = {}
      BY <1>1 DEF Retested
    <2> QED
      BY <1>1, <1>2, <1>10, <2>1, <2>3, <2>4 DEF Retested
  \* The partner is sound: if that was not enough, the test went wrong, and it was the first.
  <1>12. Cleared'
    <2>1. SUFFICES ASSUME Uniform, confirmed, NEW g \in Sound, g \notin waiting', Excused(g)',
                          g \notin HostsOf(FastPairs)'
                   PROVE  FALSE
      BY <1>1, <1>5 DEF Cleared
    <2>2. Excused(g) /\ glitches' <= 1
      BY <1>1, <1>4, <1>6, <2>1, ExcusedBefore
    <2>3. g = h
      BY <1>1, <1>10, <2>1, <2>2 DEF Cleared
    <2>4. partner \in Sound
      BY <1>2, <1>6, <2>1, FastIsHealthy, InHostsOf
    <2>5. glitches' = glitches + 1
      BY <1>1, <1>4, <1>6, <1>10, <2>1, <2>3, <2>4
    <2>6. glitches = 0 /\ glitches' = 1
      BY <1>6, <2>2, <2>5
    <2>7. NeighboursOf(h) \subseteq Sound /\ NeighboursOf(h) # {}
      BY <1>1, <2>1, <2>3, <2>6, SameHosts DEF Excused
    <2>8. PICK q \in TestPairs : h \in {q[1], q[2]} /\ {q[1], q[2]} \subseteq Sound
      BY <2>7 DEF NeighboursOf, HostsOf
    <2>9. h \in HostsOf(FastPairs)
      BY <1>1, <2>1, <2>6, <2>8 DEF Spent
    <2> QED
      BY <1>2, <2>9
  <1>13. FirstRound' /\ CrossTested' /\ CrossCleared'
    BY <1>1 DEF FirstRound, CrossTested, CrossCleared
  <1>14. Unconfirmed'
    BY <1>1 DEF Unconfirmed
  <1> QED
    BY <1>4, <1>7, <1>8, <1>9, <1>11, <1>12, <1>13, <1>14
LEMMA EndRetestStep ==
  ASSUME ScoutInv, EndRetest
  PROVE  ScoutInv'
PROOF
  <1> USE DEF ScoutInv
  <1>1. /\ pc = "retest" /\ waiting = {} /\ pc' \in {"cross", "done"}
        /\ UNCHANGED <<given, results, glitches>> /\ UNCHANGED given
        /\ UNCHANGED <<odd, tested, failed, good, suspects, waiting, turn, confirmed>>
        /\ IF mode = "serial" /\ Cardinality(suspects \ good) > 1
           THEN pc' = "cross" /\ order' \in ListsOf(suspects \ good) /\ untested' = PairsAmong(order')
           ELSE pc' = "done" /\ UNCHANGED <<untested, order>>
    BY DEF EndRetest
  <1>2. Honest' /\ FastPairs' = FastPairs /\ HostsOf(FastPairs)' = HostsOf(FastPairs)
        /\ \A h : Excused(h)' <=> Excused(h)
    BY <1>1, Untouched DEF HostsOf
  <1>3. /\ Hosts' = Hosts /\ Len(cluster)' = Len(cluster) /\ mode' = mode
        /\ Sound' = Sound /\ (Uniform' <=> Uniform)
    BY <1>1, SameHosts
  <1>4. Given'
    BY <1>1, GivenKept DEF Given
  <1>5. Covered' /\ InResults'
    BY <1>1, CoveredKept, InResultsKept
  <1>6. Spent'
    BY <1>1, <1>2, SpentKept DEF Given
  <1>7. Retested'
    BY <1>1, <1>2 DEF Retested
  <1>8. Cleared'
    BY <1>1, <1>2, <1>3 DEF Cleared
  <1>9. ASSUME pc' = "cross"
        PROVE  /\ DOMAIN order' \subseteq Nat /\ untested' = PairsAmong(order)'
               /\ \A i \in DOMAIN order' : order'[i] \in Hosts \ HostsOf(FastPairs)
               /\ \A i, j \in DOMAIN order' : order'[i] = order'[j] => i = j
               /\ \A h \in suspects \ good : \E i \in DOMAIN order' : order'[i] = h
    <2>1. order' \in ListsOf(suspects \ good) /\ untested' = PairsAmong(order')
      BY <1>1, <1>9
    <2>2. PairsAmong(order)' = PairsAmong(order')
      BY DEF PairsAmong
    <2>3. /\ order' \in [1..Cardinality(suspects \ good) -> suspects \ good]
          /\ \A i, j \in DOMAIN order' : order'[i] = order'[j] => i = j
          /\ \A h \in suspects \ good : \E i \in DOMAIN order' : order'[i] = h
      BY <2>1 DEF ListsOf
    <2>4. DOMAIN order' = 1..Cardinality(suspects \ good) /\ \A i \in DOMAIN order' : order'[i] \in suspects \ good
      BY <2>3
    <2>5. DOMAIN order' \subseteq Nat
      <3>1. IsFiniteSet(suspects \ good)
        BY Clustered, FS_Interval, FS_Subset DEF Given
      <3>2. \A n \in Nat : 1..n \subseteq Nat
        OBVIOUS
      <3> QED
        BY <2>4, <3>1, <3>2, FS_CardinalityType
    <2>6. suspects \ good \subseteq Hosts \ HostsOf(FastPairs)
      BY <1>1 DEF Given, Retested
    <2> QED
      BY <2>1, <2>2, <2>3, <2>4, <2>5, <2>6
  <1>10. CrossTested'
    <2>1. ASSUME pc' = "cross", NEW p \in untested' PROVE <<order'[p[1]], order'[p[2]]>> \notin FastPairs'
      <3>1. p[1] \in DOMAIN order'
        BY <1>9, <2>1 DEF PairsAmong
      <3>2. order'[p[1]] \notin HostsOf(FastPairs)
        BY <1>9, <2>1, <3>1
      <3> QED
        BY <1>2, <3>2, InHostsOf
    <2> QED
      BY <1>3, <1>9, <2>1 DEF CrossTested
  <1>11. CrossCleared'
    <2>1. SUFFICES ASSUME ~confirmed, Uniform, mode = "serial", Len(cluster) >= 2
                   PROVE  /\ \A h \in Hosts : \E i \in DOMAIN order' : order'[i] = h
                          /\ DOMAIN order' \subseteq Nat /\ PairsAmong(order)' \ untested' = {}
      BY <1>1, <1>3 DEF CrossCleared
    <2>2. suspects \ good = Hosts
      BY <1>1, <2>1 DEF Unconfirmed
    <2>3. Cardinality(Hosts) = Len(cluster) /\ Len(cluster) \in Nat
      BY <2>1, Clustered, FS_Interval
    <2>4. Cardinality(suspects \ good) = Cardinality(Hosts)
      BY <2>2, Zenon
    <2>5. pc' = "cross"
      BY <1>1, <2>1, <2>3, <2>4
    <2> QED
      BY <1>9, <2>2, <2>5
  <1>12. FirstRound' /\ Unconfirmed'
    BY <1>1 DEF FirstRound, Unconfirmed
  <1> QED
    BY <1>2, <1>4, <1>5, <1>6, <1>7, <1>8, <1>10, <1>11, <1>12

LEMMA CrossStep ==
  ASSUME ScoutInv, NEW p \in untested, NEW bw \in Answers, CrossTest(p, bw)
  PROVE  ScoutInv'
PROOF
  <1> USE DEF ScoutInv
  <1> DEFINE a == order[p[1]]
  <1> DEFINE b == order[p[2]]
  <1>1. /\ pc = "cross" /\ UNCHANGED given
        /\ UNCHANGED <<pc, odd, tested, failed, suspects, waiting, turn, order, confirmed>>
        /\ Measured(a, b, bw) /\ Record(a, b, bw)
        /\ good' = IF FastEnough(bw) THEN good \cup {a, b} ELSE good
        /\ untested' = untested \ {p}
    BY DEF CrossTest
  <1>2. /\ p[1] \in DOMAIN order /\ p[2] \in DOMAIN order /\ p = <<p[1], p[2]>>
        /\ a \in Hosts /\ b \in Hosts
    BY <1>1 DEF CrossTested, PairsAmong
  <1> DEFINE key == <<a, b>>
  <1>3. key \notin FastPairs
    BY <1>1 DEF CrossTested
  <1> HIDE DEF a, b
  <1>4. /\ Honest' /\ DOMAIN results' = DOMAIN results \cup {key} /\ bw \in Nat
        /\ FastPairs' = IF FastEnough(bw) THEN FastPairs \cup {key} ELSE FastPairs
        /\ glitches' \in Nat /\ glitches <= glitches'
        /\ Uniform /\ Len(cluster) >= 2 /\ a \in Sound /\ b \in Sound =>
             FastEnough(bw) \/ glitches' = glitches + 1
    BY <1>1, <1>2, <1>3, TestAdds
  <1>5. /\ Hosts' = Hosts /\ Sound' = Sound /\ (Uniform' <=> Uniform) /\ mode' = mode
        /\ Len(cluster)' = Len(cluster)
    BY <1>1, SameHosts
  <1>6. Len(cluster) >= 2 /\ glitches \in Nat
    BY <1>1, Clustered DEF Given
  <1>7. Given'
    BY <1>1, <1>4, <1>6, GivenKept DEF Given
  <1>8. Covered' /\ InResults'
    BY <1>1, <1>4, CoveredKept, InResultsKept
  <1>9. Spent'
    BY <1>1, <1>4, <1>6, SpentKept
  <1>10. /\ HostsOf(FastPairs)' = IF FastEnough(bw) THEN HostsOf(FastPairs) \cup {a, b} ELSE HostsOf(FastPairs)
         /\ HostsOf(FastPairs) \subseteq HostsOf(FastPairs)'
    <2>1. key[1] = a /\ key[2] = b
      OBVIOUS
    <2> HIDE DEF key
    <2> QED
      BY <1>4, <2>1 DEF HostsOf
  <1>11. Retested'
    BY <1>1, <1>10 DEF Retested
  <1>12. CrossTested'
    <2>1. \A i, j \in DOMAIN order : order[i] = order[j] => i = j
      BY <1>1 DEF CrossTested
    <2>2. ASSUME NEW q \in untested' PROVE <<order[q[1]], order[q[2]]>> \notin FastPairs'
      <3>1. /\ q # p /\ q \in untested /\ q[1] \in DOMAIN order /\ q[2] \in DOMAIN order
            /\ q = <<q[1], q[2]>>
        BY <1>1, <2>2 DEF CrossTested, PairsAmong
      <3>2. q[1] # p[1] \/ q[2] # p[2]
        BY <1>2, <3>1
      <3>3. <<order[q[1]], order[q[2]]>> # key
        BY <1>2, <2>1, <3>1, <3>2 DEF a, b
      <3>4. <<order[q[1]], order[q[2]]>> \notin FastPairs
        BY <1>1, <3>1 DEF CrossTested
      <3> QED
        BY <1>4, <3>3, <3>4
    <2>3. PairsAmong(order)' = PairsAmong(order)
      BY <1>1 DEF PairsAmong
    <2> QED
      BY <1>1, <1>5, <2>2, <2>3 DEF CrossTested
  <1>13. Cleared'
    <2>1. SUFFICES ASSUME Uniform, confirmed, NEW g \in Sound, Excused(g)'
                   PROVE  g \in HostsOf(FastPairs)' \/ g \in waiting'
      BY <1>1, <1>5 DEF Cleared
    <2>2. Excused(g)
      BY <1>1, <1>4, <1>6, <2>1, ExcusedBefore
    <2> QED
      BY <1>1, <1>10, <2>1, <2>2 DEF Cleared
  \* A test of two sound hosts that was not enough went wrong, and it was the first.
  <1>14. CrossCleared'
    <2>1. PairsAmong(order)' = PairsAmong(order)
      BY <1>1 DEF PairsAmong
    <2>2. SUFFICES ASSUME ~confirmed, Uniform, mode = "serial", Len(cluster) >= 2,
                          NEW q \in PairsAmong(order) \ untested',
                          order[q[1]] \in Sound, order[q[2]] \in Sound,
                          NEW h \in {order[q[1]], order[q[2]]}, Excused(h)'
                   PROVE  h \in HostsOf(FastPairs)'
      BY <1>1, <1>5, <2>1 DEF CrossCleared
    <2>3. Excused(h) /\ glitches' <= 1
      BY <1>1, <1>4, <1>6, <2>2, ExcusedBefore
    <2>4. CASE q # p
      <3>1. q \in PairsAmong(order) \ untested
        BY <1>1, <2>2, <2>4
      <3>2. h \in HostsOf(FastPairs)
        BY <1>1, <2>2, <2>3, <3>1 DEF CrossCleared
      <3> QED
        BY <1>10, <3>2
    <2>5. CASE q = p /\ FastEnough(bw)
      BY <1>10, <2>2, <2>5 DEF a, b
    <2>6. CASE q = p /\ ~FastEnough(bw)
      <3>1. glitches' = glitches + 1
        BY <1>4, <2>2, <2>6 DEF a, b
      <3>2. glitches = 0 /\ glitches' = 1
        BY <1>6, <2>3, <3>1
      <3>3. NeighboursOf(h) \subseteq Sound /\ NeighboursOf(h) # {}
        BY <1>1, <2>2, <3>2, SameHosts DEF Excused
      <3>4. PICK r \in TestPairs : h \in {r[1], r[2]} /\ {r[1], r[2]} \subseteq Sound
        BY <3>3 DEF NeighboursOf, HostsOf
      <3>5. h \in HostsOf(FastPairs)
        BY <1>1, <2>2, <3>2, <3>4 DEF Spent
      <3> QED
        BY <1>10, <3>5
    <2> QED
      BY <2>4, <2>5, <2>6
  <1>15. FirstRound' /\ Unconfirmed'
    BY <1>1 DEF FirstRound, Unconfirmed
  <1> QED
    BY <1>4, <1>7, <1>8, <1>9, <1>11, <1>12, <1>13, <1>14, <1>15

LEMMA EndStep ==
  ASSUME ScoutInv, EndCross \/ UNCHANGED scoutVars
  PROVE  ScoutInv'
PROOF
  <1> USE DEF ScoutInv
  <1>1. /\ pc' = pc \/ (pc = "cross" /\ pc' = "done")
        /\ UNCHANGED <<given, results, glitches>> /\ UNCHANGED given
        /\ UNCHANGED <<untested, odd, tested, failed, good, suspects, waiting, turn, order, confirmed>>
    BY DEF EndCross, scoutVars, given
  <1>2. Honest' /\ FastPairs' = FastPairs /\ HostsOf(FastPairs)' = HostsOf(FastPairs)
        /\ HostsOf(DOMAIN results)' = HostsOf(DOMAIN results)
        /\ \A h : Excused(h)' <=> Excused(h)
    BY <1>1, Untouched DEF HostsOf
  <1>3. /\ Hosts' = Hosts /\ Len(cluster)' = Len(cluster) /\ mode' = mode /\ Unpaired' = Unpaired
        /\ Pairs' = Pairs /\ TestPairs' = TestPairs /\ \A h : Known(h)' <=> Known(h)
        /\ Sound' = Sound /\ (Uniform' <=> Uniform)
    BY <1>1, SameHosts
  <1>4. Given'
    BY <1>1, GivenKept DEF Given
  <1>5. Covered'
    <2>1. \A h : NotTestable(h)' <=> NotTestable(h)
      BY <1>3 DEF NotTestable
    <2> QED
      BY <1>1, <1>3, <2>1 DEF Covered
  <1>6. InResults' /\ FirstRound'
    <2>1. Positive' = Positive /\ HostsOf(Positive)' = HostsOf(Positive)
      BY <1>1 DEF Positive, HostsOf
    <2> QED
      BY <1>1, <1>2, <1>3, <2>1 DEF InResults, FirstRound
  <1>7. Spent'
    BY <1>1, <1>2, SpentKept DEF Given
  <1>8. Retested' /\ Cleared' /\ Unconfirmed'
    BY <1>1, <1>2, <1>3 DEF Retested, Cleared, Unconfirmed
  <1>9. CrossTested' /\ CrossCleared'
    <2>1. PairsAmong(order)' = PairsAmong(order)
      BY <1>1 DEF PairsAmong
    <2> QED
      BY <1>1, <1>2, <1>3, <2>1 DEF CrossTested, CrossCleared
  <1> QED
    BY <1>2, <1>4, <1>5, <1>6, <1>7, <1>8, <1>9

LEMMA ScoutInitially == ScoutInit => ScoutInv
PROOF
  <1> SUFFICES ASSUME ScoutInit PROVE ScoutInv
    OBVIOUS
  <1>1. /\ mode \in {"serial", "parallel"} /\ cluster \in Clusters
        /\ threshold \in {Threshold[s] : s \in DOMAIN Threshold} /\ GlobalThreshold(threshold)
        /\ pc = IF Len(cluster) < 2 THEN "done" ELSE "pairs"
        /\ untested = IF Len(cluster) < 2 THEN {} ELSE TestPairs
        /\ odd = IF Len(cluster) < 2 THEN {} ELSE Unpaired
        /\ results = <<>> /\ tested = {} /\ failed = {} /\ good = {} /\ suspects = {}
        /\ waiting = {} /\ turn = <<>> /\ order = <<>>
        /\ ~confirmed /\ glitches = 0
    BY DEF ScoutInit
  <1>2. DOMAIN results = {} /\ DOMAIN order = {}
    BY <1>1
  <1>3. FastPairs = {} /\ Positive = {} /\ HostsOf(FastPairs) = {} /\ HostsOf(DOMAIN results) = {}
    BY <1>2 DEF FastPairs, Positive, HostsOf
  <1>4. Given
    <2>1. threshold \in Nat \ {0, 1}
      BY <1>1, ScoutAssumption
    <2>2. cluster \in Seq([state : Conditions, shape : Shapes])
      BY <1>1, ScoutAssumption
    <2>3. Len(cluster) \in Nat /\ Hosts = 1..Len(cluster)
      BY <2>2, LenProperties DEF Hosts
    <2>4. ASSUME Len(cluster) >= 2, Uniform, NEW h \in Hosts PROVE ThresholdOf(h) = threshold
      <3>1. \A g \in Hosts : Known(g) /\ ThresholdOf(g) = ThresholdOf(h)
        BY <2>4 DEF Uniform, ThresholdOf
      <3>2. <<1, 1 + 1>> \in Pairs
        BY <2>3, <2>4 DEF Pairs
      <3>3. TestPairs # {}
        <4>1. 1 \in Hosts /\ 2 \in Hosts
          BY <2>3, <2>4
        <4> QED
          BY <3>1, <3>2, <4>1 DEF TestPairs
      <3>4. PICK p \in TestPairs : threshold = Smaller(ThresholdOf(p[1]), ThresholdOf(p[2]))
        BY <1>1, <3>3 DEF GlobalThreshold
      <3>5. p[1] \in Hosts /\ p[2] \in Hosts
        BY <2>3 DEF TestPairs, Pairs
      <3> QED
        BY <3>1, <3>4, <3>5 DEF Smaller
    <2> QED
      BY <1>1, <2>1, <2>3, <2>4 DEF Given
  <1>5. Honest /\ InResults
    BY <1>1, <1>2 DEF Honest, InResults
  <1>6. Covered
    <2>1. SUFFICES ASSUME Len(cluster) >= 2, NEW h \in Hosts, ~NotTestable(h)
                   PROVE  pc = "pairs" /\ (h \in odd \/ \E p \in untested : h \in {p[1], p[2]})
      BY DEF Covered
    <2>2. pc = "pairs" /\ untested = TestPairs /\ odd = Unpaired
      BY <1>1, <1>4, <2>1, Clustered
    <2>3. h \in Unpaired \/ \E p \in Pairs : h \in {p[1], p[2]}
      BY <1>4, Neighbours
    <2> QED
      BY <2>1, <2>2, <2>3 DEF NotTestable
  <1>7. FirstRound
    BY <1>1, <1>2, <1>3 DEF FirstRound
  <1>8. Spent
    <2>1. ASSUME NEW p \in TestPairs PROVE pc = "pairs" /\ p \in untested
      <3>1. Len(cluster) >= 2 /\ Len(cluster) \in Nat
        BY <1>4, Neighbours, Clustered DEF TestPairs
      <3> QED
        BY <1>1, <3>1
    <2> QED
      BY <2>1 DEF Spent
  <1>9. Retested /\ CrossTested /\ Cleared /\ Unconfirmed
    BY <1>1, <1>3 DEF Retested, CrossTested, Cleared, Unconfirmed
  <1>10. CrossCleared
    BY <1>1, <1>4, Clustered DEF CrossCleared
  <1> QED
    BY <1>4, <1>5, <1>6, <1>7, <1>8, <1>9, <1>10 DEF ScoutInv

LEMMA ScoutKeeps == ScoutInv /\ [ScoutNext]_scoutVars => ScoutInv'
PROOF
  <1> SUFFICES ASSUME ScoutInv, [ScoutNext]_scoutVars PROVE ScoutInv'
    OBVIOUS
  <1>1. CASE Sort
    BY <1>1, SortStep
  <1>2. CASE EndRetest
    BY <1>2, EndRetestStep
  <1>3. CASE EndCross \/ UNCHANGED scoutVars
    BY <1>3, EndStep
  <1>4. ASSUME NEW h \in Hosts, LeaveOut(h) PROVE ScoutInv'
    BY <1>4, LeaveOutStep
  <1>5. ASSUME NEW bw \in Answers, NEW p \in untested, TestPair(p, bw) PROVE ScoutInv'
    BY <1>5, PairStep
  <1>6. ASSUME NEW bw \in Answers, NEW p \in untested, CrossTest(p, bw) PROVE ScoutInv'
    BY <1>6, CrossStep
  <1>7. ASSUME NEW bw \in Answers, NEW h \in Hosts, NEW partner \in Hosts, TestUnpaired(h, partner, bw)
        PROVE ScoutInv'
    BY <1>7, UnpairedStep
  <1>8. ASSUME NEW bw \in Answers, NEW h \in Hosts, NEW partner \in Hosts, Retest(h, partner, bw)
        PROVE ScoutInv'
    BY <1>8, RetestStep
  <1> QED
    BY <1>1, <1>2, <1>3, <1>4, <1>5, <1>6, <1>7, <1>8 DEF ScoutNext, ScoutStep

LEMMA ScoutInvAlways == ScoutSpec => []ScoutInv
BY ScoutInitially, ScoutKeeps, PTL DEF ScoutSpec

(* Of any number of hosts, in whatever condition, tested in whatever order:  *)
(* no sound one is blamed.                                                   *)
THEOREM SoundAreCleared == ScoutSpec => []SoundIsCleared
PROOF
  <1>1. ScoutInv => SoundIsCleared
    <2> SUFFICES ASSUME ScoutInv, pc = "done", Uniform, NEW h \in Sound, Excused(h),
                        confirmed \/ (mode = "serial" /\ untested = {} /\ Sound # {h})
                 PROVE  h \in HostsOf(FastPairs)
      BY DEF SoundIsCleared, FinalGood
    <2> USE DEF ScoutInv
    <2>1. CASE confirmed
      BY <2>1 DEF Cleared, Retested
    <2>2. CASE ~confirmed
      <3>1. mode = "serial" /\ untested = {}
        BY <2>2
      <3>2. PICK g \in Sound : g # h
        BY <2>2
      <3>3. g \in Hosts /\ h \in Hosts
        BY DEF Sound
      <3>4. Len(cluster) >= 2
        BY <3>2, <3>3, Clustered
      <3>5. PICK i, j \in DOMAIN order : order[i] = h /\ order[j] = g
        BY <2>2, <3>1, <3>3, <3>4 DEF CrossCleared
      <3>6. i \in Nat /\ j \in Nat /\ i # j
        BY <2>2, <3>1, <3>2, <3>4, <3>5 DEF CrossCleared
      <3>7. \A p \in PairsAmong(order) :
              order[p[1]] \in Sound /\ order[p[2]] \in Sound =>
                \A x \in {order[p[1]], order[p[2]]} : x \in HostsOf(FastPairs) \/ ~Excused(x)
        BY <2>2, <3>1, <3>4 DEF CrossCleared
      <3>8. CASE i < j
        <4>1. <<i, j>> \in PairsAmong(order)
          BY <3>8 DEF PairsAmong
        <4> QED
          BY <3>5, <3>7, <4>1
      <3>9. CASE j < i
        <4>1. <<j, i>> \in PairsAmong(order)
          BY <3>9 DEF PairsAmong
        <4> QED
          BY <3>5, <3>7, <4>1
      <3> QED
        BY <3>6, <3>8, <3>9
    <2> QED
      BY <2>1, <2>2
  <1> QED
    BY <1>1, ScoutInvAlways, PTL

(* And no faulty one is forgotten or passed off as good.                     *)
THEOREM FaultyAreReported == ScoutSpec => []FaultyIsReported
PROOF
  <1>1. ScoutInv => FaultyIsReported
    <2> SUFFICES ASSUME ScoutInv, pc = "done", Len(cluster) >= 2, NEW h \in Hosts
                 PROVE  /\ \/ h \in FinalGood \cup FinalBad
                           \/ ~Known(h)
                           \/ \E p \in Pairs \ TestPairs : h \in {p[1], p[2]}
                           \/ mode = "parallel" /\ tested \ {h} = {}
                        /\ cluster[h].state = "dead" => h \notin FinalGood
                        /\ cluster[h].state = "slow" /\ Known(h) /\ ThresholdOf(h) <= threshold => h \notin FinalGood
      BY DEF FaultyIsReported
    <2> USE DEF ScoutInv
    <2>1. h \in HostsOf(DOMAIN results) \/ NotTestable(h) \/ (mode = "parallel" /\ tested \ {h} = {})
      BY DEF Covered, InResults
    <2>2. ASSUME h \in FinalGood
          PROVE  /\ cluster[h].state # "dead"
                 /\ ~(cluster[h].state = "slow" /\ Known(h) /\ ThresholdOf(h) <= threshold)
      <3>1. PICK p \in FastPairs : h \in {p[1], p[2]}
        BY <2>2, InHostsOf DEF FinalGood
      <3> QED
        BY <3>1, FastIsHealthy
    <2> QED
      BY <2>1, <2>2 DEF NotTestable, FinalGood, FinalBad
  <1> QED
    BY <1>1, ScoutInvAlways, PTL
=============================================================================
