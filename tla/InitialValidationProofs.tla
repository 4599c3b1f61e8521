---------------------- MODULE InitialValidationProofs ----------------------
(* Proofs about InitialValidation for every set of nodes, whatever they are  *)
(* like, and every number of failures: IInv is inductive, no sound node is   *)
(* condemned for one bad partner and no broken one is released.              *)
EXTENDS InitialValidation, FiniteSetTheorems, SequenceTheorems, TLAPS

USE ParameterAssumption DEF nodes, slurm

(* A job of two nodes has a pair.                                            *)
LEMMA TwoOfThem ==
  ASSUME NEW S, S \subseteq Node, Cardinality(S) = 2
  PROVE  Pair(S)
PROOF
  <1>1. IsFiniteSet(S)
    BY FS_Subset
  <1> S # {}
    BY FS_EmptySet
  <1>2. PICK a \in S : TRUE
    OBVIOUS
  <1>3. IsFiniteSet(S \ {a}) /\ Cardinality(S \ {a}) = 1
    BY <1>1, <1>2, FS_RemoveElement
  <1>4. PICK b : S \ {a} = {b}
    BY <1>3, FS_Singleton
  <1>5. S = {a, b} /\ a # b
    BY <1>2, <1>4
  <1> QED
    BY <1>5 DEF Pair

(* The partner is the other node of the pair.                                *)
LEMMA PartnerIsOther ==
  ASSUME NEW s, Pair(s), NEW n \in s
  PROVE  /\ Partner(s, n) \in s /\ Partner(s, n) # n /\ s \subseteq Node
         /\ \A m \in s : m # n => m = Partner(s, n)
PROOF
  <1>1. PICK a \in Node, b \in Node : a # b /\ s = {a, b}
    BY DEF Pair
  <1>2. \E m \in s : m # n
    BY <1>1
  <1>3. Partner(s, n) \in s /\ Partner(s, n) # n
    BY <1>2 DEF Partner
  <1> QED
    BY <1>1, <1>3

(* A list of n elements is a sequence of length n.                           *)
LEMMA ListIsSeq ==
  ASSUME NEW S, NEW n \in Nat, NEW f \in [1..n -> S]
  PROVE  f \in Seq(S) /\ Len(f) = n
PROOF
  <1>1. f \in Seq(S)
    BY SeqDef
  <1>2. Len(f) \in Nat /\ DOMAIN f = 1..Len(f)
    BY <1>1, LenProperties
  <1>3. 1..Len(f) = 1..n
    BY <1>2
  <1> QED
    BY <1>1, <1>2, <1>3

(* Pairs and Retests ask for nodes of the lists they are given.              *)
LEMMA WantedAreNodes ==
  ASSUME NEW H \in SUBSET Node, NEW P \in SUBSET Node,
         NEW h \in SetToSeqs(H), NEW p \in SetToSeqs(P)
  PROVE  \A w \in Pairs(h) \cup Retests(p, h) : w \in SUBSET Node
PROOF
  <1>1. IsFiniteSet(H) /\ IsFiniteSet(P)
    BY FS_Subset
  <1>2. Cardinality(H) \in Nat /\ Cardinality(P) \in Nat
    BY <1>1, FS_CardinalityType
  <1>3. h \in [1..Cardinality(H) -> H] /\ p \in [1..Cardinality(P) -> P]
    BY DEF SetToSeqs
  <1>4. h \in Seq(H) /\ p \in Seq(P) /\ Len(h) = Cardinality(H) /\ Len(p) = Cardinality(P)
    BY <1>2, <1>3, ListIsSeq
  <1>5. \A i \in 1..Len(h) : h[i] \in Node
    BY <1>3, <1>4
  <1>6. \A i \in 1..Len(p) : p[i] \in Node
    BY <1>3, <1>4
  <1>7. ASSUME NEW i \in 1..(Len(h) \div 2) PROVE 2 * i - 1 \in 1..Len(h) /\ 2 * i \in 1..Len(h)
    BY <1>2, <1>4, <1>7
  <1>8. ASSUME Len(h) % 2 = 1 PROVE Len(h) \in 1..Len(h)
    BY <1>2, <1>4, <1>8
  <1>9. ASSUME NEW w \in Pairs(h) PROVE w \in SUBSET Node
    BY <1>5, <1>7, <1>8, <1>9 DEF Pairs
  <1>10. ASSUME NEW w \in Retests(p, h) PROVE w \in SUBSET Node
    <2>1. h # <<>>
      BY <1>10 DEF Retests
    <2>2. PICK i \in 1..Len(p) : w = {p[i], h[((i - 1) % Len(h)) + 1]}
      BY <1>10, <2>1 DEF Retests
    <2>3. Len(h) \in Nat /\ Len(h) > 0
      BY <1>2, <1>4, <2>1
    <2>4. ((i - 1) % Len(h)) + 1 \in 1..Len(h)
      BY <2>3, <1>2, <1>4
    <2> QED
      BY <1>5, <1>6, <2>2, <2>4
  <1> QED
    BY <1>9, <1>10

LEMMA Initially == Init => IInv
PROOF
  <1> SUFFICES ASSUME Init PROVE IInv
    OBVIOUS
  <1> USE DEF Init, Unchecked
  <1>1. TypeOK
    BY DEF TypeOK, File, Row, Active, Multi
  <1>2. Placed /\ Grounds /\ RowsHold /\ SoundIsNotCondemned
    BY DEF Placed, Grounds, RowsHold, SoundIsNotCondemned
  <1>3. NoFalsePass
    BY DEF NoFalsePass, Healthy
  <1> QED
    BY <1>1, <1>2, <1>3 DEF IInv

LEMMA JoinStep ==
  ASSUME IInv, NEW n \in Node, Join(n)
  PROVE  IInv'
PROOF
  <1> USE DEF IInv, Join
  <1>1. TypeOK'
    BY DEF TypeOK
  <1>2. Placed' /\ Grounds' /\ NoFalsePass' /\ SoundIsNotCondemned'
    BY DEF Placed, Grounds, NoFalsePass, SoundIsNotCondemned, TwoBroken
  <1>3. RowsHold'
    BY DEF RowsHold, InValidation
  <1> QED
    BY <1>1, <1>2, <1>3

(* Steps that only change the set of jobs.                                   *)
LEMMA JobsStep ==
  ASSUME IInv, jobs' \subseteq Job, Placed', faults' \in 0..MaxFaults,
         UNCHANGED <<nodes, resv, drained, db>>,
         pc' = pc \/ (pc = "active" /\ pc' = "multi") \/ (pc = "multi" /\ pc' = "validated")
  PROVE  IInv'
PROOF
  <1> USE DEF IInv
  <1>1. TypeOK'
    BY DEF TypeOK
  <1>2. Grounds' /\ NoFalsePass' /\ SoundIsNotCondemned'
    BY DEF Grounds, NoFalsePass, SoundIsNotCondemned, TwoBroken
  <1>3. RowsHold'
    BY DEF RowsHold, InValidation
  <1> QED
    BY <1>1, <1>2, <1>3

LEMMA StartStep ==
  ASSUME IInv, NEW j \in jobs, StartJob(j)
  PROVE  IInv'
PROOF
  <1>1. PICK s \in SUBSET joined : Fits(j, s) /\ jobs' = (jobs \ {j}) \cup {[j EXCEPT !.on = s]}
    BY DEF StartJob
  <1> DEFINE k == [j EXCEPT !.on = s]
  <1>2. j \in Job /\ s \subseteq Node
    BY <1>1 DEF IInv, TypeOK
  <1>3. k \in Job /\ k.on = s /\ k.test = j.test
    BY <1>2 DEF Job
  <1>4. k.test = "multi" => Pair(k.on)
    BY <1>1, <1>2, <1>3, TwoOfThem DEF Fits
  <1>5. jobs' \subseteq Job
    BY <1>1, <1>3 DEF IInv, TypeOK
  <1>6. Placed'
    <2>1. joined' = joined
      BY DEF StartJob
    <2>2. \A i \in jobs' : i.on \subseteq joined /\ (i.on # {} /\ i.test = "multi" => Pair(i.on))
      BY <1>1, <1>3, <1>4 DEF Placed, IInv
    <2> QED
      BY <2>1, <2>2 DEF Placed, Pair
  <1>7. faults' \in 0..MaxFaults
    BY DEF StartJob, IInv, TypeOK
  <1> QED
    BY <1>5, <1>6, <1>7, JobsStep DEF StartJob

LEMMA DropStep ==
  ASSUME IInv, NEW j \in jobs, ExpireJob(j) \/ LoseJob(j)
  PROVE  IInv'
PROOF
  <1>1. jobs' = jobs \ {j} /\ faults' \in 0..MaxFaults
    BY DEF ExpireJob, LoseJob, Fault, IInv, TypeOK
  <1>2. jobs' \subseteq Job /\ joined' = joined
    BY <1>1 DEF ExpireJob, LoseJob, IInv, TypeOK
  <1>3. Placed'
    BY <1>1, <1>2 DEF IInv, Placed, Pair
  <1> QED
    BY <1>1, <1>2, <1>3, JobsStep DEF ExpireJob, LoseJob

(* What the service asks for is a job, and not yet placed.                   *)
LEMMA RequestType ==
  \A t \in {"active", "multi"}, w \in SUBSET Node, x \in SUBSET Node, r \in BOOLEAN :
    Request(t, w, x, r) \in Job /\ Request(t, w, x, r).on = {}
PROOF
  BY DEF Request, Job

LEMMA ActiveHCStep ==
  ASSUME IInv, ActiveHC
  PROVE  IInv'
PROOF
  <1>1. PICK s \in SUBSET Node, S \in SUBSET Node :
          jobs' = jobs \cup {Request("active", {n}, {}, FALSE) : n \in s}
                       \cup {Request("active", {n}, {}, TRUE) : n \in S}
    BY DEF ActiveHC
  <1>2. \A j \in jobs' : j \in jobs \/ (j \in Job /\ j.on = {})
    <2>1. ASSUME NEW n \in Node, NEW r \in BOOLEAN
          PROVE  Request("active", {n}, {}, r) \in Job /\ Request("active", {n}, {}, r).on = {}
      <3>1. {n} \in SUBSET Node /\ {} \in SUBSET Node
        OBVIOUS
      <3> QED
        BY <3>1, RequestType
    <2> QED
      BY <1>1, <2>1
  <1>3. jobs' \subseteq Job /\ Placed'
    <2>1. joined' = joined
      BY DEF ActiveHC
    <2> QED
      BY <1>2, <2>1 DEF IInv, TypeOK, Placed, Pair
  <1>4. faults' \in 0..MaxFaults
    BY DEF ActiveHC, IInv, TypeOK
  <1> QED
    BY <1>3, <1>4, JobsStep DEF ActiveHC

LEMMA MultiNodeHCStep ==
  ASSUME IInv, MultiNodeHC
  PROVE  IInv'
PROOF
  <1> DEFINE again == {n \in Node : InService(n) /\ Doubted(n)}
             H == {n \in Node : InValidation(n) /\ Untested(n)}
             P == {n \in Node : InValidation(n) /\ Doubted(n)}
  <1>1. PICK s \in SUBSET Node, h \in SetToSeqs(H), p \in SetToSeqs(P) :
          jobs' = jobs \cup {Request("multi", {n}, {}, FALSE) : n \in s}
                       \cup {Request("multi", {n}, {db[n].with} \cap Node, FALSE) : n \in again}
                       \cup {Request("multi", w, {}, TRUE) : w \in Pairs(h) \cup Retests(p, h)}
    BY DEF MultiNodeHC
  <1>2. \A w \in Pairs(h) \cup Retests(p, h) : w \in SUBSET Node
    BY WantedAreNodes
  <1>3. \A j \in jobs' : j \in jobs \/ (j \in Job /\ j.on = {})
    <2> SUFFICES ASSUME NEW j \in jobs', j \notin jobs PROVE j \in Job /\ j.on = {}
      OBVIOUS
    <2>1. ASSUME NEW n \in s, j = Request("multi", {n}, {}, FALSE) PROVE j \in Job /\ j.on = {}
      <3>1. {n} \in SUBSET Node /\ {} \in SUBSET Node
        OBVIOUS
      <3> QED
        BY <2>1, <3>1, RequestType
    <2>2. ASSUME NEW n \in again, j = Request("multi", {n}, {db[n].with} \cap Node, FALSE)
          PROVE  j \in Job /\ j.on = {}
      <3>1. {n} \in SUBSET Node /\ {db[n].with} \cap Node \in SUBSET Node
        OBVIOUS
      <3> QED
        BY <2>2, <3>1, RequestType
    <2>3. ASSUME NEW w \in Pairs(h) \cup Retests(p, h), j = Request("multi", w, {}, TRUE)
          PROVE  j \in Job /\ j.on = {}
      <3>1. w \in SUBSET Node /\ {} \in SUBSET Node
        BY <1>2
      <3> QED
        BY <2>3, <3>1, RequestType
    <2> QED
      BY <1>1, <2>1, <2>2, <2>3
  <1>4. jobs' \subseteq Job /\ Placed'
    <2>1. joined' = joined
      BY DEF MultiNodeHC
    <2> QED
      BY <1>3, <2>1 DEF IInv, TypeOK, Placed, Pair
  <1>5. faults' \in 0..MaxFaults
    BY DEF MultiNodeHC, IInv, TypeOK
  <1> QED
    BY <1>4, <1>5, JobsStep DEF MultiNodeHC

LEMMA FinishActiveStep ==
  ASSUME IInv, NEW j \in jobs, FinishActive(j)
  PROVE  IInv'
PROOF
  <1>1. j \in Job /\ j.on \subseteq Node
    BY DEF IInv, TypeOK, Job
  <1>2. ASSUME NEW n \in Node
        PROVE  /\ file'[n] \in File
               /\ file'[n].multi = file[n].multi /\ file'[n].with = file[n].with
               /\ kind[n] = "gpu" => file'[n].active \notin Healthy
    BY DEF FinishActive, FailsActive, IInv, TypeOK, NoFalsePass, File, Active, Healthy
  <1>3. file' \in [Node -> File]
    BY <1>2 DEF FinishActive
  <1>4. TypeOK'
    <2>1. j.on \subseteq joined
      BY DEF IInv, Placed
    <2> QED
      BY <1>1, <1>3, <2>1 DEF FinishActive, IInv, TypeOK
  <1>5. Placed'
    BY DEF FinishActive, IInv, Placed, Pair
  <1>6. Grounds' /\ NoFalsePass'
    <2>1. UNCHANGED <<kind, uncopied, db>>
      BY DEF FinishActive
    <2>2. TwoBroken' <=> TwoBroken
      BY <2>1 DEF TwoBroken
    <2> QED
      BY <1>2, <2>1, <2>2 DEF IInv, Grounds, NoFalsePass
  <1>7. RowsHold'
    BY DEF FinishActive, IInv, RowsHold, InValidation
  <1>8. SoundIsNotCondemned'
    BY DEF FinishActive, FailsActive, IInv, SoundIsNotCondemned, TwoBroken
  <1> QED
    BY <1>4, <1>5, <1>6, <1>7, <1>8 DEF IInv

(* The end of a two-node check, whatever was copied and kept of it: a sound  *)
(* node whose log is a copy failed because its partner's link is broken.     *)
LEMMA FinishMultiStep ==
  ASSUME IInv, NEW j \in jobs, FinishMulti(j)
  PROVE  IInv'
PROOF
  <1>1. PICK copied \in SUBSET j.on, kept \in SUBSET j.on :
          Report(j.on, copied, kept) /\ (UNCHANGED faults \/ Fault("copy") \/ Fault("report"))
    <2> DEFINE Ended(copied, kept) ==
                 Report(j.on, copied, kept) /\ (UNCHANGED faults \/ Fault("copy") \/ Fault("report"))
    <2>1. Report(j.on, j.on, j.on) /\ UNCHANGED faults => Ended(j.on, j.on)
      OBVIOUS
    <2>2. \A n \in j.on : Report(j.on, {n}, j.on) /\ Fault("copy") => Ended({n}, j.on)
      OBVIOUS
    <2>3. \A n \in j.on : Report(j.on, j.on, j.on \ {n}) /\ Fault("report") => Ended(j.on, j.on \ {n})
      OBVIOUS
    <2> HIDE DEF Ended
    <2>4. \E copied \in SUBSET j.on, kept \in SUBSET j.on : Ended(copied, kept)
      BY <2>1, <2>2, <2>3 DEF FinishMulti
    <2> QED
      BY <2>4 DEF Ended
  <1>2. UNCHANGED <<kind, joined, resv, db, pc>> /\ jobs' = jobs \ {j}
    BY DEF FinishMulti
  <1>3. Pair(j.on) /\ j.on \subseteq joined
    BY DEF FinishMulti, IInv, Placed
  <1>4. j.on \subseteq Node /\ \A n \in j.on : Partner(j.on, n) \in Node
    BY <1>3, PartnerIsOther
  <1>5. ASSUME NEW n \in j.on
        PROVE  /\ VerdictOn(n, j.on) \in File
               /\ VerdictOn(n, j.on).active = file[n].active
               /\ VerdictOn(n, j.on).with = Partner(j.on, n)
               /\ VerdictOn(n, j.on).multi =
                    IF ~HasError(log'[n]) THEN "fresh"
                    ELSE IF file[n].multi \in {"Potentially Bad", "Bad"} /\ file[n].with # Partner(j.on, n)
                         THEN "Bad" ELSE "Potentially Bad"
    <2> DEFINE m == Partner(j.on, n)
               v == IF ~HasError(log'[n]) THEN "fresh"
                    ELSE IF file[n].multi \in {"Potentially Bad", "Bad"} /\ file[n].with # m THEN "Bad"
                    ELSE "Potentially Bad"
    <2>1. file[n] \in File /\ m \in Node
      BY <1>4 DEF IInv, TypeOK
    <2>2. v \in Multi
      BY DEF Multi, Healthy
    <2>3. VerdictOn(n, j.on) = [file[n] EXCEPT !.with = m, !.multi = v]
      BY DEF VerdictOn, Verdict
    <2> HIDE DEF m, v
    <2>4. /\ VerdictOn(n, j.on) \in File /\ VerdictOn(n, j.on).active = file[n].active
          /\ VerdictOn(n, j.on).with = m /\ VerdictOn(n, j.on).multi = v
      BY <2>1, <2>2, <2>3 DEF File
    <2> QED
      BY <2>4 DEF m, v
  <1>6. TypeOK'
    <2>1. log' \in [Node -> {"none", "ok", "ERROR"}]
      <3>1. Result(j.on) \in {"ok", "ERROR"}
        BY DEF Result
      <3> QED
        BY <1>1, <3>1 DEF Report, IInv, TypeOK
    <2>2. file' \in [Node -> File]
      BY <1>1, <1>5 DEF Report, IInv, TypeOK
    <2>3. drained' \subseteq joined' /\ uncopied' \subseteq Node
      BY <1>1, <1>2, <1>3, <1>4 DEF Report, IInv, TypeOK
    <2>4. faults' \in 0..MaxFaults
      BY <1>1 DEF Report, IInv, TypeOK, Fault
    <2> QED
      BY <1>2, <2>1, <2>2, <2>3, <2>4 DEF IInv, TypeOK
  <1>7. Placed'
    BY <1>2 DEF IInv, Placed, Pair
  <1>8. NoFalsePass'
    BY <1>1, <1>2, <1>5 DEF Report, IInv, NoFalsePass
  <1>9. RowsHold'
    BY <1>2 DEF IInv, RowsHold, InValidation
  <1>10. ASSUME NEW n \in j.on, kind[n] = "sound", n \notin uncopied'
         PROVE  /\ VerdictOn(n, j.on).multi = "Potentially Bad" =>
                     VerdictOn(n, j.on).with \in Node /\ kind[VerdictOn(n, j.on).with] = "network"
                /\ VerdictOn(n, j.on).multi = "Bad" => TwoBroken
    <2>1. n \in Node /\ n \in copied /\ n \notin uncopied
      BY <1>1, <1>4, <1>10 DEF Report
    <2>2. log'[n] = Result(j.on)
      BY <1>1, <2>1 DEF Report
    <2>3. CASE ~HasError(log'[n])
      <3>1. VerdictOn(n, j.on).multi = "fresh"
        BY <2>3, <1>5
      <3> QED
        BY <3>1
    <2>4. CASE HasError(log'[n])
      <3>1. \E m \in j.on : kind[m] = "network"
        BY <2>2, <2>4 DEF HasError, Result
      <3>2. kind[Partner(j.on, n)] = "network" /\ Partner(j.on, n) \in Node
        BY <1>3, <1>10, <3>1, PartnerIsOther
      <3>3. VerdictOn(n, j.on).with = Partner(j.on, n)
        BY <1>5
      <3>4. VerdictOn(n, j.on).multi = "Bad" =>
              /\ file[n].multi \in {"Potentially Bad", "Bad"}
              /\ file[n].with # Partner(j.on, n)
        BY <2>4, <1>5
      <3>5. VerdictOn(n, j.on).multi = "Bad" => TwoBroken
        BY <1>10, <2>1, <3>2, <3>4 DEF IInv, Grounds, TwoBroken
      <3> QED
        BY <3>2, <3>3, <3>5
    <2> QED
      BY <2>3, <2>4
  <1>11. TwoBroken => TwoBroken'
    BY <1>2 DEF TwoBroken
  <1>12. Grounds'
    <2> SUFFICES ASSUME NEW n \in Node, kind[n] = "sound", n \notin uncopied'
                 PROVE  /\ file'[n].multi = "Potentially Bad" =>
                             file'[n].with \in Node /\ kind[file'[n].with] = "network"
                        /\ file'[n].multi = "Bad" => TwoBroken
      BY <1>2, <1>11 DEF Grounds
    <2>1. CASE n \in kept
      BY <1>1, <1>10, <2>1 DEF Report
    <2>2. CASE n \notin kept
      BY <1>1, <2>2 DEF Report, IInv, Grounds
    <2> QED
      BY <2>1, <2>2
  <1>13. SoundIsNotCondemned'
    BY <1>1, <1>2, <1>10, <1>11 DEF Report, IInv, SoundIsNotCondemned
  <1> QED
    BY <1>6, <1>7, <1>8, <1>9, <1>12, <1>13 DEF IInv

(* Time makes healthy verdicts older and changes no other.                   *)
LEMMA ClockStep ==
  ASSUME IInv, HourPasses \/ DayPasses
  PROVE  IInv'
PROOF
  <1>1. PICK from \in SUBSET {"fresh", "old"}, to \in {"old", "expired"} : AgeBy(from, to)
    BY DEF HourPasses, DayPasses
  <1>2. UNCHANGED <<kind, joined, log, uncopied, slurm, pc>> /\ faults' \in 0..MaxFaults
    BY DEF HourPasses, DayPasses, Fault, IInv, TypeOK
  <1> DEFINE a(v) == IF v \in from THEN to ELSE v
  <1>3. ASSUME NEW n \in Node
        PROVE  /\ file'[n] = [file[n] EXCEPT !.active = a(@), !.multi = a(@)]
               /\ db'[n] = [db[n] EXCEPT !.active = a(@), !.multi = a(@)]
    BY <1>1 DEF AgeBy
  <1>4. ASSUME NEW n \in Node
        PROVE  /\ file'[n] \in File /\ db'[n] \in Row
               /\ file'[n].active \in Healthy <=> file[n].active \in Healthy
               /\ db'[n].active \in Healthy <=> db[n].active \in Healthy
               /\ file'[n].with = file[n].with
               /\ file'[n].multi = "Bad" <=> file[n].multi = "Bad"
               /\ file'[n].multi = "Potentially Bad" <=> file[n].multi = "Potentially Bad"
               /\ db'[n].state = db[n].state /\ db'[n].reserved = db[n].reserved
    <2>1. file[n] \in File /\ db[n] \in Row
      BY DEF IInv, TypeOK
    <2>2. \A v \in Active : /\ a(v) \in Active /\ (a(v) \in Healthy <=> v \in Healthy)
      BY DEF Active, Healthy
    <2>3. \A v \in Multi : /\ a(v) \in Multi /\ (a(v) = "Bad" <=> v = "Bad")
                          /\ (a(v) = "Potentially Bad" <=> v = "Potentially Bad")
      BY DEF Multi, Healthy
    <2>4. file[n].active \in Active /\ file[n].multi \in Multi
      BY <2>1 DEF File
    <2>5. db[n].active \in Active /\ db[n].multi \in Multi
      BY <2>1 DEF Row
    <2> DEFINE u == a(file[n].active)
               v == a(file[n].multi)
               x == a(db[n].active)
               y == a(db[n].multi)
    <2>6. /\ file'[n] = [file[n] EXCEPT !.active = u, !.multi = v]
          /\ db'[n] = [db[n] EXCEPT !.active = x, !.multi = y]
      BY <1>3
    <2>7. u \in Active /\ v \in Multi /\ x \in Active /\ y \in Multi
      BY <2>2, <2>3, <2>4, <2>5
    <2>8. /\ u \in Healthy <=> file[n].active \in Healthy
          /\ x \in Healthy <=> db[n].active \in Healthy
          /\ v = "Bad" <=> file[n].multi = "Bad"
          /\ v = "Potentially Bad" <=> file[n].multi = "Potentially Bad"
      BY <2>2, <2>3, <2>4, <2>5
    <2> HIDE DEF u, v, x, y
    <2>9. /\ file'[n] \in File /\ file'[n].active = u
          /\ file'[n].multi = v /\ file'[n].with = file[n].with
      BY <2>1, <2>6, <2>7 DEF File
    <2>10. /\ db'[n] \in Row /\ db'[n].active = x
           /\ db'[n].state = db[n].state /\ db'[n].reserved = db[n].reserved
      BY <2>1, <2>6, <2>7 DEF Row
    <2> QED
      BY <2>8, <2>9, <2>10
  <1>5. TypeOK'
    <2>1. file' \in [Node -> File] /\ db' \in [Node -> Row]
      BY <1>1, <1>4 DEF AgeBy
    <2> QED
      BY <1>2, <2>1 DEF IInv, TypeOK
  <1>6. Placed' /\ SoundIsNotCondemned'
    BY <1>2 DEF IInv, Placed, Pair, SoundIsNotCondemned, TwoBroken
  <1>7. Grounds' /\ NoFalsePass'
    <2>1. TwoBroken' <=> TwoBroken
      BY <1>2 DEF TwoBroken
    <2>2. Grounds'
      <3> SUFFICES ASSUME NEW n \in Node, kind[n] = "sound", n \notin uncopied
                   PROVE  /\ file'[n].multi = "Potentially Bad" =>
                               file'[n].with \in Node /\ kind[file'[n].with] = "network"
                          /\ file'[n].multi = "Bad" => TwoBroken
        BY <1>2, <2>1 DEF Grounds
      <3>1. /\ file[n].multi = "Potentially Bad" =>
                 file[n].with \in Node /\ kind[file[n].with] = "network"
            /\ file[n].multi = "Bad" => TwoBroken
        BY DEF IInv, Grounds
      <3> QED
        BY <1>4, <3>1
    <2>3. NoFalsePass'
      BY <1>2, <1>4 DEF IInv, NoFalsePass
    <2> QED
      BY <2>2, <2>3
  <1>8. RowsHold'
    BY <1>2, <1>4 DEF IInv, RowsHold, InValidation
  <1> QED
    BY <1>5, <1>6, <1>7, <1>8 DEF IInv

(* What a row takes over from a file.                                        *)
LEMMA FetchStep ==
  ASSUME IInv, Fetch
  PROVE  IInv'
PROOF
  <1>1. UNCHANGED <<nodes, slurm>> /\ pc' = "sinfo" /\ faults' \in 0..MaxFaults
    BY DEF Fetch, Fault, IInv, TypeOK
  <1>2. ASSUME NEW n \in Node
        PROVE  db'[n] = db[n] \/ db'[n] = AppendToHealthchecks(db[n], file[n])
    BY DEF Fetch
  <1>3. ASSUME NEW n \in Node
        PROVE  db'[n] \in Row /\ (db'[n].active = db[n].active \/ db'[n].active = file[n].active)
    <2> DEFINE u == IF file[n].active # "none" THEN file[n].active ELSE db[n].active
               v == IF file[n].multi # "none" THEN file[n].multi ELSE db[n].multi
               w == IF file[n].multi # "none" /\ Status(db[n].multi) # Status(file[n].multi)
                    THEN file[n].with ELSE db[n].with
    <2>1. file[n] \in File /\ db[n] \in Row
      BY DEF IInv, TypeOK
    <2>2. u \in Active /\ (u = db[n].active \/ u = file[n].active)
      BY <2>1 DEF File, Row
    <2>3. v \in Multi
      BY <2>1 DEF File, Row
    <2>4. w \in Node \cup {NoNode}
      BY <2>1 DEF File, Row
    <2>5. AppendToHealthchecks(db[n], file[n]) = [db[n] EXCEPT !.active = u, !.multi = v, !.with = w]
      BY DEF AppendToHealthchecks
    <2> HIDE DEF u, v, w
    <2>6. CASE db'[n] = db[n]
      BY <2>1, <2>6
    <2>7. CASE db'[n] = AppendToHealthchecks(db[n], file[n])
      <3>1. db'[n] = [db[n] EXCEPT !.active = u, !.multi = v, !.with = w]
        BY <2>5, <2>7
      <3>2. db'[n] \in Row
        BY <2>1, <2>2, <2>3, <2>4, <3>1 DEF Row
      <3>3. db'[n].active = u
        BY <2>1, <3>1 DEF Row
      <3> QED
        BY <2>2, <3>2, <3>3
    <2> QED
      BY <1>2, <2>6, <2>7
  <1>4. TypeOK'
    <2>1. db' \in [Node -> Row]
      BY <1>3 DEF Fetch
    <2> QED
      BY <1>1, <2>1 DEF IInv, TypeOK
  <1>5. Placed' /\ Grounds' /\ SoundIsNotCondemned' /\ RowsHold'
    BY <1>1 DEF IInv, Placed, Pair, Grounds, SoundIsNotCondemned, TwoBroken, RowsHold
  <1>6. NoFalsePass'
    BY <1>1, <1>3 DEF IInv, NoFalsePass
  <1> QED
    BY <1>4, <1>5, <1>6 DEF IInv

(* The rows are made to agree with Slurm; without sinfo they say nothing.    *)
LEMMA SinfoStep ==
  ASSUME IInv, Sinfo
  PROVE  IInv'
PROOF
  <1>1. UNCHANGED <<nodes, slurm>> /\ pc' = "active" /\ faults' \in 0..MaxFaults
    <2>1. UNCHANGED faults \/ Fault("sinfo")
      BY DEF Sinfo
    <2>2. faults' \in 0..MaxFaults
      BY <2>1 DEF Fault, IInv, TypeOK
    <2> QED
      BY <2>2 DEF Sinfo
  <1>2. ASSUME NEW n \in Node
        PROVE  /\ db'[n] \in Row /\ db'[n].active = db[n].active
               /\ db'[n].state = "idle" /\ db'[n].reserved => n \in resv
    <2>1. db[n] \in Row /\ SlurmState(n) \in {"unknown", "idle", "allocated", "drain"}
      BY DEF IInv, TypeOK, SlurmState
    <2>2. CASE db' = [i \in Node |-> [db[i] EXCEPT !.state = SlurmState(i), !.reserved = i \in resv]]
      <3> DEFINE t == SlurmState(n)
                 r == n \in resv
      <3>1. db'[n] = [db[n] EXCEPT !.state = t, !.reserved = r]
        BY <2>2
      <3>2. t \in {"unknown", "idle", "allocated", "drain"} /\ r \in BOOLEAN
        BY <2>1
      <3> HIDE DEF t, r
      <3>3. db'[n] \in Row /\ db'[n].active = db[n].active /\ db'[n].reserved = r
        BY <2>1, <3>1, <3>2 DEF Row
      <3> QED
        BY <3>3 DEF r
    <2>3. CASE db' = [i \in Node |-> [db[i] EXCEPT !.state = "unknown"]]
      BY <2>1, <2>3 DEF Row
    <2> QED
      BY <2>2, <2>3 DEF Sinfo
  <1>3. TypeOK'
    <2>1. db' \in [Node -> Row]
      BY <1>2 DEF Sinfo
    <2> QED
      BY <1>1, <2>1 DEF IInv, TypeOK
  <1>4. Placed' /\ Grounds' /\ SoundIsNotCondemned'
    BY <1>1 DEF IInv, Placed, Pair, Grounds, SoundIsNotCondemned, TwoBroken
  <1>5. NoFalsePass'
    BY <1>1, <1>2 DEF IInv, NoFalsePass
  <1>6. RowsHold'
    BY <1>1, <1>2 DEF RowsHold, InValidation
  <1> QED
    BY <1>3, <1>4, <1>5, <1>6 DEF IInv

(* Steps that end the pass and at most shrink the reservation.               *)
LEMMA EndStep ==
  ASSUME IInv, Release \/ Crash
  PROVE  IInv'
PROOF
  <1>1. UNCHANGED <<nodes, drained, jobs, db>> /\ pc' = "fetch" /\ faults' \in 0..MaxFaults
    BY DEF Release, Crash, Fault, IInv, TypeOK
  <1>2. resv' \subseteq resv
    BY DEF Release, Crash
  <1>3. TypeOK'
    BY <1>1, <1>2 DEF IInv, TypeOK
  <1> QED
    BY <1>1, <1>3 DEF IInv, Placed, Pair, Grounds, SoundIsNotCondemned, TwoBroken, NoFalsePass, RowsHold

LEMMA Step == IInv /\ [Next]_vars => IInv'
PROOF
  <1> SUFFICES ASSUME IInv, [Next]_vars PROVE IInv'
    OBVIOUS
  <1>1. ASSUME NEW n \in Node, Join(n) PROVE IInv'
    BY <1>1, JoinStep
  <1>2. ASSUME NEW j \in jobs, Run(j) \/ LoseJob(j) PROVE IInv'
    BY <1>2, StartStep, DropStep, FinishActiveStep, FinishMultiStep DEF Run
  <1>3. CASE Pass
    BY <1>3, FetchStep, SinfoStep, ActiveHCStep, MultiNodeHCStep, EndStep DEF Pass
  <1>4. CASE HourPasses \/ DayPasses
    BY <1>4, ClockStep
  <1>5. CASE Crash
    BY <1>5, EndStep
  <1>6. CASE UNCHANGED vars
    BY <1>6 DEF vars, IInv, TypeOK, Placed, Pair, Grounds, SoundIsNotCondemned, TwoBroken, NoFalsePass,
                RowsHold, InValidation
  <1> QED
    BY <1>1, <1>2, <1>3, <1>4, <1>5, <1>6 DEF Next

(* The invariant holds throughout, for every set of nodes, sound or not.     *)
THEOREM Inductive == Spec => []IInv
PROOF
  BY Initially, Step, PTL DEF Spec

(* The variables keep their types; in particular what is in the reservation  *)
(* or drained has joined.                                                    *)
THEOREM TypeCorrect == Spec => []TypeOK
PROOF
  <1>1. IInv => TypeOK
    BY DEF IInv
  <1> QED
    BY <1>1, Inductive, PTL

(* Whatever the number of nodes and of failures, a sound node is drained     *)
(* only if two nodes have broken links or a log was not copied to it.        *)
THEOREM SoundNotCondemned == Spec => []SoundIsNotCondemned
PROOF
  <1>1. IInv => SoundIsNotCondemned
    BY DEF IInv
  <1> QED
    BY <1>1, Inductive, PTL

(* A node leaves the reservation by way of get_nodes_validated, and its row  *)
(* does not say that broken GPUs are healthy; the rest of the reservation is *)
(* given up only after a failed scontrol call, or when all of it passed.     *)
THEOREM BrokenReserved == Spec => BrokenStaysReserved
PROOF
  <1> DEFINE Kept == \A n \in resv \ resv' : kind[n] = "gpu" => faults' # faults
  <1>1. ASSUME IInv, Release PROVE Kept
    <2>1. \A n \in Validated : n \in resv /\ kind[n] # "gpu"
      <3> SUFFICES ASSUME NEW n \in Validated PROVE n \in resv /\ kind[n] # "gpu"
        OBVIOUS
      <3>1. n \in Node /\ InValidation(n) /\ db[n].active = "fresh"
        BY DEF Validated
      <3> QED
        BY <1>1, <3>1 DEF Release, IInv, RowsHold, NoFalsePass, Healthy
    <2>2. CASE Removable(Validated) /\ resv' = resv \ Validated
      BY <2>1, <2>2
    <2>3. CASE ~Removable(Validated)
      BY <2>1, <2>3 DEF Removable
    <2>4. CASE Fault("scontrol")
      BY <1>1, <2>4 DEF Fault, IInv, TypeOK
    <2>5. CASE resv' = resv
      BY <2>5
    <2> QED
      BY <1>1, <2>2, <2>3, <2>4, <2>5 DEF Release
  <1>2. ASSUME IInv, [Next]_vars, ~Release PROVE Kept
    <2>1. resv \subseteq resv'
      BY <1>2 DEF Next, Pass, Run, Join, StartJob, ExpireJob, LoseJob, FinishActive, FinishMulti,
                  Fetch, Sinfo, ActiveHC, MultiNodeHC, HourPasses, DayPasses, Crash, vars
    <2> QED
      BY <2>1
  <1>3. IInv /\ [Next]_vars => [Kept]_vars
    BY <1>1, <1>2
  <1> QED
    BY <1>3, Inductive, PTL DEF Spec, BrokenStaysReserved
=============================================================================
