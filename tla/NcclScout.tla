----------------------------- MODULE NcclScout -----------------------------
(* ncclscout.py: which nodes of a cluster slow its collectives down?  The    *)
(* hosts that answered are tested in pairs, one pair after the other or all  *)
(* at once; then whoever was not fast is tested with somebody who was, and,  *)
(* one after the other, with everybody else who was not.  A host that does   *)
(* not answer is left out from the start.  (Called with two hosts the        *)
(* program prints one result; that is left out.)                             *)
EXTENDS Integers, FiniteSets, Sequences, Functions

CONSTANTS Shapes,
          Threshold,   \* of each shape that is known, in GB/s
          Clusters,    \* the hosts, in the order of their answers: [state, shape]
          CrossTests,  \* of the last phase: 10
          MaxGlitches

Conditions == {"sound", "slow", "dead"}

ASSUME ScoutAssumption ==
  /\ DOMAIN Threshold \subseteq Shapes /\ "A100" \in DOMAIN Threshold
  /\ \A s \in DOMAIN Threshold : Threshold[s] \in Nat \ {0, 1}
  /\ \A c \in Clusters : c \in Seq([state : Conditions, shape : Shapes])
  /\ CrossTests \in Nat /\ MaxGlitches \in Nat

VARIABLES
  mode,      \* serial or parallel
  cluster,
  threshold, \* global_threshold
  pc,
  untested,  \* the pairs still to test
  odd,       \* the hosts without a pair
  results,   \* the bandwidth of each pair tested, 0 if there was none
  tested,    \* hosts with a bandwidth
  failed,    \* hosts without
  good,      \* hosts of a pair that was fast enough
  suspects,  \* who was not, when the pairs were done
  waiting,   \* suspects to test again
  turn,      \* good hosts, in the order they were taken as partners
  order,     \* the suspects of the last phase: bad_list
  confirmed, \* history: somebody was good when the pairs were done
  glitches   \* tests that went wrong on their own

scoutVars == <<mode, cluster, threshold, pc, untested, odd, results, tested, failed, good, suspects,
               waiting, turn, order, confirmed, glitches>>

given == <<mode, cluster, threshold>>

Hosts == DOMAIN cluster
Known(h) == cluster[h].shape \in DOMAIN Threshold
ThresholdOf(h) == Threshold[cluster[h].shape]

(* create_node_pairs: neighbours; the last one of an odd number is left.     *)
Pairs == {<<h, h + 1>> : h \in {g \in Hosts : g % 2 = 1 /\ g + 1 \in Hosts}}
Unpaired == {h \in Hosts : h % 2 = 1 /\ h + 1 \notin Hosts}

(* Pairs with a host of an unknown shape are skipped.                        *)
TestPairs == {p \in Pairs : Known(p[1]) /\ Known(p[2])}

First(p, pairs) == \A q \in pairs : p[1] < q[1] \/ (p[1] = q[1] /\ p[2] <= q[2])

Smaller(m, n) == IF m < n THEN m ELSE n

(* What counts in the end is what the first pair should reach; for want of a *)
(* pair it is the A100's.                                                    *)
GlobalThreshold(bw) ==
  \/ TestPairs = {} /\ bw = Threshold["A100"]
  \/ \E p \in TestPairs : First(p, TestPairs) /\ bw = Smaller(ThresholdOf(p[1]), ThresholdOf(p[2]))

ScoutInit ==
  /\ mode \in {"serial", "parallel"} /\ cluster \in Clusters
  /\ threshold \in {Threshold[s] : s \in DOMAIN Threshold} /\ GlobalThreshold(threshold)
  /\ pc = IF Len(cluster) < 2 THEN "done" ELSE "pairs"
  /\ untested = IF Len(cluster) < 2 THEN {} ELSE TestPairs
  /\ odd = IF Len(cluster) < 2 THEN {} ELSE Unpaired
  /\ results = <<>> /\ tested = {} /\ failed = {} /\ good = {} /\ suspects = {}
  /\ waiting = {} /\ turn = <<>> /\ order = <<>>
  /\ confirmed = FALSE /\ glitches = 0

(***************************************************************************)
(* One test.                                                               *)
(***************************************************************************)

(* A slow host is a little slower than its shape; a host of an unknown shape *)
(* is fast enough for anybody.                                               *)
Rate(h) == IF cluster[h].state = "slow" THEN ThresholdOf(h) - 1 ELSE ThresholdOf(h)

Bandwidth(a, b) ==
  IF "dead" \in {cluster[a].state, cluster[b].state} THEN 0
  ELSE IF ~Known(a) THEN Rate(b)
  ELSE IF ~Known(b) THEN Rate(a)
  ELSE Smaller(Rate(a), Rate(b))

(* The script fails or is timed out, the job of Slurm does not start or its  *)
(* output is not found, other traffic slows the test down.                   *)
Measured(a, b, bw) ==
  \/ bw = Bandwidth(a, b) /\ UNCHANGED glitches
  \/ bw \in {0, 1} /\ bw # Bandwidth(a, b) /\ glitches < MaxGlitches /\ glitches' = glitches + 1

Answers == {0, 1} \cup UNION {{Threshold[s], Threshold[s] - 1} : s \in DOMAIN Threshold}

Record(a, b, bw) == results' = [p \in DOMAIN results \cup {<<a, b>>} |->
                                  IF p = <<a, b>> THEN bw ELSE results[p]]

(***************************************************************************)
(* The first round.                                                        *)
(***************************************************************************)

(* In parallel the pairs end in any order.                                   *)
TestPair(p, bw) ==
  /\ pc = "pairs" /\ p \in untested /\ (mode = "serial" => First(p, untested))
  /\ Measured(p[1], p[2], bw) /\ Record(p[1], p[2], bw)
  /\ IF bw = 0 THEN failed' = failed \cup {p[1], p[2]} /\ tested' = tested
     ELSE tested' = tested \cup {p[1], p[2]} /\ failed' = failed
  /\ untested' = untested \ {p}
  /\ UNCHANGED <<given, pc, odd, good, suspects, waiting, turn, order, confirmed>>

(* For a host that was left over: one that was tested, best without failing; *)
(* the serial program then takes the first that answered.                    *)
PartnersOf(h) ==
  IF tested \ (failed \cup {h}) # {} THEN tested \ (failed \cup {h})
  ELSE IF tested \ {h} # {} THEN tested \ {h}
  ELSE IF mode = "serial" THEN {c \in Hosts \ {h} : \A d \in Hosts \ {h} : c <= d}
  ELSE {}

TestUnpaired(h, partner, bw) ==
  /\ pc = "pairs" /\ untested = {} /\ h \in odd /\ Known(h) /\ partner \in PartnersOf(h)
  /\ Measured(partner, h, bw) /\ Record(partner, h, bw)
  /\ IF bw = 0 THEN failed' = failed \cup {h} /\ tested' = tested
     ELSE tested' = tested \cup {h} /\ failed' = failed
  /\ odd' = odd \ {h}
  /\ UNCHANGED <<given, pc, untested, good, suspects, waiting, turn, order, confirmed>>

LeaveOut(h) ==
  /\ pc = "pairs" /\ untested = {} /\ h \in odd /\ (~Known(h) \/ PartnersOf(h) = {})
  /\ odd' = odd \ {h}
  /\ UNCHANGED <<given, pc, untested, results, tested, failed, good, suspects, waiting, turn,
                 order, confirmed, glitches>>

(***************************************************************************)
(* The retests.                                                            *)
(***************************************************************************)

\* Mutant: whoever had a bandwidth is good.
FastEnoughAny(bw) == bw > 0

FastEnough(bw) == bw >= threshold

HostsOf(pairs) == UNION {{p[1], p[2]} : p \in pairs}
FastPairs == {p \in DOMAIN results : FastEnough(results[p])}
SlowPairs == {p \in DOMAIN results : results[p] > 0 /\ ~FastEnough(results[p])}

\* Mutant: who only failed is not tested again.
SuspectsSlow == HostsOf(SlowPairs) \ HostsOf(FastPairs)

Suspects == (failed \cup HostsOf(SlowPairs)) \ HostsOf(FastPairs)

(* Without a good one nobody is tested again in this way.                    *)
Sort ==
  /\ pc = "pairs" /\ untested = {} /\ odd = {}
  /\ good' = HostsOf(FastPairs) /\ suspects' = Suspects
  /\ confirmed' = (good' # {})
  /\ waiting' = IF good' = {} THEN {} ELSE suspects'
  /\ pc' = "retest"
  /\ UNCHANGED <<given, untested, odd, results, tested, failed, turn, order, glitches>>

(* The good ones are taken in turn, in whatever order their set has.         *)
PartnersInTurn ==
  LET partners == good \ suspects
      done == Cardinality(suspects \ waiting) IN
  IF done < Cardinality(partners) THEN partners \ Range(turn) ELSE {turn[(done % Len(turn)) + 1]}

(* Who passes is good from then on, but no partner for others.               *)
Retest(h, partner, bw) ==
  /\ pc = "retest" /\ h \in waiting /\ partner \in PartnersInTurn
  /\ Measured(partner, h, bw) /\ Record(partner, h, bw)
  /\ waiting' = waiting \ {h}
  /\ good' = IF FastEnough(bw) THEN good \cup {h} ELSE good
  /\ turn' = IF partner \in Range(turn) THEN turn ELSE Append(turn, partner)
  /\ UNCHANGED <<given, pc, untested, odd, tested, failed, suspects, order, confirmed>>

(* A set as a list, in whatever order.                                       *)
ListsOf(hosts) ==
  {l \in [1..Cardinality(hosts) -> hosts] :
     /\ \A i, j \in DOMAIN l : l[i] = l[j] => i = j
     /\ \A h \in hosts : \E i \in DOMAIN l : l[i] = h}

(* Each with everybody after it; a pair is two places of the list.           *)
PairsAmong(list) == {p \in (DOMAIN list) \X (DOMAIN list) : p[1] < p[2]}

(* In parallel that is the end.                                              *)
EndRetest ==
  /\ pc = "retest" /\ waiting = {}
  /\ IF mode = "serial" /\ Cardinality(suspects \ good) > 1
     THEN pc' = "cross" /\ order' \in ListsOf(suspects \ good) /\ untested' = PairsAmong(order')
     ELSE pc' = "done" /\ UNCHANGED <<untested, order>>
  /\ UNCHANGED <<given, odd, results, tested, failed, good, suspects, waiting, turn, confirmed,
                 glitches>>

CrossTest(p, bw) ==
  /\ pc = "cross" /\ p \in untested /\ First(p, untested)
  /\ Cardinality(PairsAmong(order) \ untested) < CrossTests
  /\ LET a == order[p[1]]
         b == order[p[2]] IN
     /\ Measured(a, b, bw) /\ Record(a, b, bw)
     /\ good' = IF FastEnough(bw) THEN good \cup {a, b} ELSE good
  /\ untested' = untested \ {p}
  /\ UNCHANGED <<given, pc, odd, tested, failed, suspects, waiting, turn, order, confirmed>>

EndCross ==
  /\ pc = "cross" /\ (untested = {} \/ Cardinality(PairsAmong(order) \ untested) >= CrossTests)
  /\ pc' = "done"
  /\ UNCHANGED <<given, untested, odd, results, tested, failed, good, suspects, waiting, turn,
                 order, confirmed, glitches>>

(* The summary counts a host by its best test of all.                        *)
FinalGood == HostsOf(FastPairs)
FinalBad == HostsOf(DOMAIN results) \ FinalGood

ScoutStep ==
  \/ Sort \/ EndRetest \/ EndCross
  \/ \E h \in Hosts : LeaveOut(h)
  \/ \E bw \in Answers :
       \/ \E p \in untested : TestPair(p, bw) \/ CrossTest(p, bw)
       \/ \E h, partner \in Hosts : TestUnpaired(h, partner, bw) \/ Retest(h, partner, bw)

ScoutNext == ScoutStep \/ (pc = "done" /\ UNCHANGED scoutVars)

ScoutSpec == ScoutInit /\ [][ScoutNext]_scoutVars

(***************************************************************************)
(* Properties.                                                             *)
(***************************************************************************)

Sound == {h \in Hosts : cluster[h].state = "sound"}
Uniform == \A g, h \in Hosts : Known(g) /\ cluster[g].shape = cluster[h].shape
NeighboursOf(h) == HostsOf({p \in TestPairs : h \in {p[1], p[2]}})

(* Nothing went wrong by itself, or once and the host has a sound neighbour. *)
Excused(h) ==
  \/ glitches = 0
  \/ glitches = 1 /\ NeighboursOf(h) \subseteq Sound /\ NeighboursOf(h) # {}

(* A sound node is not blamed for its partners.  On a cluster of one shape a *)
(* sound host ends among the good ones, if somebody was good when the pairs  *)
(* were done or, one after the other and with no cross test left out,        *)
(* another host is sound; and that also when one test went wrong on its own, *)
(* if its neighbour is sound.                                                *)
SoundIsCleared ==
  pc = "done" /\ Uniform =>
    \A h \in Sound :
      /\ confirmed \/ (mode = "serial" /\ untested = {} /\ Sound # {h})
      /\ Excused(h)
      => h \in FinalGood

(* Whoever could be examined is in the summary: a host that answered is good *)
(* or bad, unless its pair was skipped for an unknown shape or, the odd one, *)
(* it is of an unknown shape or found, in parallel, no partner.  And no      *)
(* test, retest or change of partner makes a good node of one that is dead,  *)
(* or of a slow one that is judged by a threshold no lower than its own.     *)
FaultyIsReported ==
  pc = "done" /\ Len(cluster) >= 2 =>
    \A h \in Hosts :
      /\ \/ h \in FinalGood \cup FinalBad
         \/ ~Known(h)
         \/ \E p \in Pairs \ TestPairs : h \in {p[1], p[2]}
         \/ mode = "parallel" /\ tested \ {h} = {}
      /\ cluster[h].state = "dead" => h \notin FinalGood
      /\ cluster[h].state = "slow" /\ Known(h) /\ ThresholdOf(h) <= threshold => h \notin FinalGood
=============================================================================
