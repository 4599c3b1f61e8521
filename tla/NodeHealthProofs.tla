-------------------------- MODULE NodeHealthProofs --------------------------
(* Proofs about NodeHealth for every set of troubles, programs and           *)
(* disturbances and every number of them.                                    *)
EXTENDS NodeHealth, TLAPS

USE ParameterAssumption DEF ParameterAssumption

Actions == {"terminate", "reboot", "reset_gpus", "enable_rdma", "reconfigure"}

LEMMA OrderedActions == DOMAIN Order = 1..5 /\ Range(Order) = Actions
PROOF
  <1>1. DOMAIN Order = 1..5
    BY DEF Order
  <1>2. \A a \in Actions : \E i \in 1..5 : Order[i] = a
    <2>1. /\ Order[1] = "terminate" /\ Order[2] = "reboot" /\ Order[3] = "reset_gpus"
          /\ Order[4] = "enable_rdma" /\ Order[5] = "reconfigure"
      BY DEF Order
    <2> QED
      BY <2>1 DEF Actions
  <1>3. \A i \in 1..5 : Order[i] \in Actions
    BY DEF Order, Actions
  <1> QED
    BY <1>1, <1>2, <1>3 DEF Range

(* The action a run of `mgmt recommendations` takes is one that it may take. *)
LEMMA ChosenIsCandidate ==
  ASSUME NEW r, NEW modes, Candidates(r, modes) # {}
  PROVE  Chosen(Candidates(r, modes)) \in Actions \cap Candidates(r, modes)
PROOF
  <1> DEFINE S == Candidates(r, modes)
  <1>1. S \subseteq Actions
    BY DEF Candidates, Actions, Advice
  <1>2. PICK a \in S : TRUE
    OBVIOUS
  <1>3. PICK k \in 1..5 : Order[k] = a
    BY <1>1, <1>2, OrderedActions DEF Range
  <1>4. \E i \in 1..5 : Order[i] \in S /\ \A j \in 1..i-1 : Order[j] \notin S
    BY <1>2, <1>3
  <1>5. Chosen(S) \in S
    BY <1>4, OrderedActions DEF Chosen
  <1> QED
    BY <1>1, <1>5

(***************************************************************************)
(* Types.                                                                  *)
(***************************************************************************)

Places == {"idle", "wait", "judge", "load", "open", "dump", "grep", "show", "drain", "resume"}
Drained == {"no", "health", "prolog", "other", "down", "absent"}
Jobs == {"none", "user", "active"}
Rows == [passive : Verdicts \cup {"absent"}, after : BOOLEAN, silent : BOOLEAN, late : BOOLEAN,
         unconfigured : BOOLEAN, event : Event, slurm : [drained : BOOLEAN, busy : BOOLEAN],
         latest : BOOLEAN]
Runs == [pc : {"idle", "planned", "asked", "ready"}, action : Actions \cup {"none"}, row : Copy,
         repaired : BOOLEAN, resumed : BOOLEAN]

HostOK  == trouble \in Troubles \cup {"none"} /\ rebooted \in BOOLEAN
FileOK  == file \in Result \cup {Torn} /\ mem \in [Programs -> Result]
PlaceOK == pc \in [Programs -> Places] /\ log \in [fresh : BOOLEAN, says : BOOLEAN, mute : BOOLEAN]
SlurmOK == slurm \in [drain : Drained, job : Jobs]
RowOK   == row \in Rows
EventOK == event \in Event /\ near \in BOOLEAN
RunOK   == recom \in Runs /\ (recom.action = "none" => recom.pc = "idle")
RestOK  == gone \in BOOLEAN /\ judged \in BOOLEAN /\ checked \in BOOLEAN /\ sure \subseteq Scripts /\ left \in 0..MaxHappenings

LEMMA TypeParts ==
  TypeOK <=> HostOK /\ FileOK /\ PlaceOK /\ SlurmOK /\ RowOK /\ EventOK /\ RunOK /\ RestOK
PROOF
  BY OrderedActions
     DEF TypeOK, HostOK, FileOK, PlaceOK, SlurmOK, RowOK, EventOK, RunOK, RestOK, Places, Drained, Jobs,
         Rows, Runs

LEMMA NothingIsTyped ==
  /\ Nil \in Result /\ NoEvent \in Event /\ FreshRow \in Rows /\ Idle \in Runs
  /\ \A r \in Rows : Read(r) \in Copy
PROOF
  BY DEF Nil, Result, Verdicts, NoEvent, Event, FreshRow, Rows, Idle, Runs, Read, Copy, Actions

LEMMA InitTyped == Init => TypeOK
PROOF
  <1> SUFFICES ASSUME Init PROVE TypeOK
    OBVIOUS
  <1>1. HostOK /\ EventOK /\ RestOK
    <2>1. HostOK /\ EventOK
      BY NothingIsTyped DEF Init, HostOK, EventOK
    <2>2. gone \in BOOLEAN /\ judged \in BOOLEAN /\ checked \in BOOLEAN /\ sure \subseteq Scripts
      BY DEF Init
    <2>3. left \in 0..MaxHappenings
      BY DEF Init
    <2> QED
      BY <2>1, <2>2, <2>3 DEF RestOK
  <1>2. FileOK
    BY NothingIsTyped DEF Init, FileOK
  <1>3. PlaceOK /\ SlurmOK
    BY DEF Init, PlaceOK, SlurmOK, Places, Drained, Jobs
  <1>4. RowOK /\ RunOK
    <2>1. Idle.pc = "idle"
      BY DEF Idle
    <2> QED
      BY <2>1, NothingIsTyped DEF Init, RowOK, RunOK
  <1> QED
    BY <1>1, <1>2, <1>3, <1>4, TypeParts

LEMMA HostStep == ASSUME HostOK, [Next]_vars PROVE HostOK'
PROOF
  BY DEF HostOK, vars, host, Next, Step, HealthCheckProgram, Manual, ActiveCheck, JobEnds, Minute, TwoHours,
         Judge, Load, Open, Dump, Grep, Show, Resume, Drain, Submit, Befall, Crash, Restarted, Scontrol,
           Announce, Approach,
         Begins, Ends, Fetch, Plan, AskOci, NotAsked, AskSlurm, Act, Cures

LEMMA EventStep == ASSUME EventOK, [Next]_vars PROVE EventOK'
PROOF
  <1> SUFFICES ASSUME EventOK, Next PROVE EventOK'
    BY DEF EventOK, vars
  <1> USE DEF EventOK
  <1>1. CASE \E kind \in {"REPAIR", "TERMINATE"} : Announce(kind)
    BY <1>1 DEF Announce, Event
  <1>2. CASE Approach
    BY <1>2 DEF Approach
  <1>3. CASE Begins
    BY <1>3 DEF Begins, Event
  <1>4. CASE Ends
    BY <1>4 DEF Ends, Event
  <1> QED
    BY <1>1, <1>2, <1>3, <1>4
       DEF Next, Step, HealthCheckProgram, Manual, ActiveCheck, JobEnds, Minute, TwoHours, Judge, Load, Open,
           Dump, Grep, Show, Resume, Drain, Submit, Befall, Crash, Scontrol, Fetch, Plan, AskOci, NotAsked, AskSlurm, Act

LEMMA OneLess == \A n \in 0..MaxHappenings : n > 0 => n - 1 \in 0..MaxHappenings
PROOF
  OBVIOUS

LEMMA RestStep == ASSUME RestOK, [Next]_vars PROVE RestOK'
PROOF
  <1>1. left' = left \/ (left > 0 /\ left' = left - 1)
    BY DEF Happens, vars, Next, Step, HealthCheckProgram, Manual, ActiveCheck, JobEnds, Minute, TwoHours,
           Judge, Load, Open, Dump, Grep, Show, Resume, Drain, Submit, Befall, Crash, Scontrol, Announce,
             Approach, Begins, Ends,
           Fetch, Plan, AskOci, NotAsked, AskSlurm, Act
  <1>2. left' \in 0..MaxHappenings
    BY <1>1, OneLess DEF RestOK
  <1>3. gone' \in BOOLEAN /\ judged' \in BOOLEAN /\ checked' \in BOOLEAN
    BY DEF RestOK, vars, Next, Step, HealthCheckProgram, Manual, ActiveCheck, JobEnds, Minute, TwoHours,
           Judge, Load, Open, Dump, Grep, Show, Resume, Drain, Submit, Befall, Crash, Scontrol, Announce,
             Approach, Begins, Ends,
           Fetch, Plan, AskOci, NotAsked, AskSlurm, Act
  <1>4. sure' \subseteq Scripts
    BY DEF RestOK, Restarted, vars, Next, Step, HealthCheckProgram, Manual, ActiveCheck, JobEnds, Minute,
           TwoHours, Judge, Load, Open, Dump, Grep, Show, Resume, Drain, Submit, Befall, Crash, Scontrol,
           Announce, Approach, Begins, Ends, Fetch, Plan, AskOci, NotAsked, AskSlurm, Act
  <1> QED
    BY <1>2, <1>3, <1>4 DEF RestOK

LEMMA SlurmStep == ASSUME SlurmOK, [Next]_vars PROVE SlurmOK'
PROOF
  BY DEF SlurmOK, Drained, Jobs, Restarted, vars, Next, Step, HealthCheckProgram, Manual, ActiveCheck,
         JobEnds, Minute, TwoHours, Judge, Load, Open, Dump, Grep, Show, Resume, Drain, Submit, Befall,
           Crash, Scontrol, Announce,
         Approach, Begins, Ends, Fetch, Plan, AskOci, NotAsked, AskSlurm, Act

LEMMA PlaceStep == ASSUME PlaceOK, [Next]_vars PROVE PlaceOK'
PROOF
  <1> SUFFICES ASSUME PlaceOK, Next PROVE PlaceOK'
    BY DEF PlaceOK, vars
  <1> USE DEF PlaceOK, Places
  <1>1. CASE HealthCheckProgram \/ Manual
    <2>1. \A p \in Programs : [fresh |-> TRUE, says |-> FALSE, mute |-> p \notin Scripts]
                               \in [fresh : BOOLEAN, says : BOOLEAN, mute : BOOLEAN]
      OBVIOUS
    <2> QED
      BY <1>1, <2>1 DEF HealthCheckProgram, Manual, RunScript, StartCheck, Goto
  <1>2. CASE \E p \in Programs : Step(p)
    <2>1. PICK p \in Programs : Step(p)
      BY <1>2
    <2>2. CASE Judge(p)
      <3>1. /\ log' = [log EXCEPT !.fresh = TRUE, !.says = @ \/ (p \in Scripts /\ Drains(Verdict))]
            /\ pc' = [pc EXCEPT ![p] = "load"]
        BY <2>2 DEF Judge, Goto
      <3>2. \A says \in BOOLEAN : [log EXCEPT !.fresh = TRUE, !.says = says]
                                  \in [fresh : BOOLEAN, says : BOOLEAN, mute : BOOLEAN]
        OBVIOUS
      <3>3. (log.says \/ (p \in Scripts /\ Drains(Verdict))) \in BOOLEAN
        OBVIOUS
      <3> QED BY <3>1, <3>2, <3>3
    <2>3. CASE Load(p) \/ Open(p) \/ Dump(p)
      <3>1. log' = log /\ \E where \in Places : pc' = [pc EXCEPT ![p] = where]
        BY <2>3 DEF Load, Open, Dump, Goto
      <3> QED BY <3>1
    <2>4. CASE Grep(p) \/ Show(p) \/ Resume(p)
      <3>1. log' = log /\ \E where \in {"show", "drain", "resume", "idle"} : Goto(p, where)
        <4>1. CASE Grep(p)
          BY <4>1 DEF Grep
        <4>2. CASE Show(p)
          BY <4>2 DEF Show
        <4>3. CASE Resume(p)
          BY <4>3 DEF Resume
        <4> QED BY <2>4, <4>1, <4>2, <4>3
      <3> QED BY <3>1 DEF Goto
    <2>5. CASE Drain(p)
      <3>1. /\ log' = log
            /\ \/ pc' = [q \in Programs |-> IF q \in {p, "active"} THEN "idle" ELSE pc[q]]
               \/ pc' = [pc EXCEPT ![p] = "idle"]
        BY <2>5 DEF Drain, Goto
      <3> QED BY <3>1
    <2> QED BY <2>1, <2>2, <2>3, <2>4, <2>5 DEF Step
  <1>3. CASE \E kind \in {"user"} \cup (Programs \cap {"active"}) : Submit(kind)
    <2>1. log' = log \/ log' = [fresh |-> TRUE, says |-> FALSE, mute |-> FALSE]
      BY <1>3 DEF Submit
    <2>2. pc' \in [Programs -> Places]
      BY <1>3 DEF Submit
    <2>3. [fresh |-> TRUE, says |-> FALSE, mute |-> FALSE] \in [fresh : BOOLEAN, says : BOOLEAN, mute : BOOLEAN]
      OBVIOUS
    <2> QED
      BY <2>1, <2>2, <2>3
  <1>4. CASE Minute \/ Crash \/ Act
    <2>1. [log EXCEPT !.fresh = FALSE] \in [fresh : BOOLEAN, says : BOOLEAN, mute : BOOLEAN]
      OBVIOUS
    <2>2. [p \in Programs |-> "idle"] \in [Programs -> Places]
      OBVIOUS
    <2> QED
      BY <1>4, <2>1, <2>2 DEF Minute, Crash, Act, Restarted
  <1>5. CASE ActiveCheck
    BY <1>5 DEF ActiveCheck, Goto
  <1> QED
    BY <1>1, <1>2, <1>3, <1>4, <1>5
       DEF Next, JobEnds, TwoHours, Befall, Scontrol, Announce, Approach, Begins, Ends, Fetch, Plan, AskOci,
           NotAsked, AskSlurm

LEMMA SameField ==
  ASSUME NEW x, NEW y, NEW z, NEW w, w = y
  PROVE  [[passive |-> x, after |-> y, old |-> z] EXCEPT !.after = w] = [passive |-> x, after |-> y, old |-> z]
PROOF
  OBVIOUS

LEMMA TornStays == [Torn EXCEPT !.after = FALSE] = Torn
PROOF
  BY SameField DEF Torn

LEMMA VerdictTyped == HostOK => Verdict \in Verdicts
PROOF
  BY DEF HostOK, Verdict, Verdicts

LEMMA FileStep == ASSUME HostOK, FileOK, [Next]_vars PROVE FileOK'
PROOF
  <1> SUFFICES ASSUME HostOK, FileOK, Next PROVE FileOK'
    BY DEF FileOK, vars
  <1> USE DEF FileOK
  <1>1. ASSUME NEW p \in Programs, Judge(p) PROVE FileOK'
    BY <1>1, VerdictTyped DEF Judge, Result
  <1>2. ASSUME NEW p \in Programs, Load(p) PROVE FileOK'
    <2>1. Readable \in Result
      BY NothingIsTyped DEF Readable
    <2> QED
      BY <1>2, <2>1 DEF Load, Result
  <1>3. ASSUME NEW p \in Programs, Open(p) \/ Grep(p) \/ Show(p) \/ Resume(p) \/ Drain(p) PROVE FileOK'
    BY <1>3 DEF Open, Grep, Show, Resume, Drain
  <1>4. ASSUME NEW p \in Programs, Dump(p) PROVE FileOK'
    <2>1. \A q \in Programs : [mem[q] EXCEPT !.old = TRUE] \in Result
      BY DEF Result
    <2> QED
      BY <1>4, <2>1, NothingIsTyped DEF Dump
  <1>5. CASE Ends
    <2>1. [file EXCEPT !.after = FALSE] \in Result \cup {Torn}
      <3>1. CASE file \in Result
        BY <3>1 DEF Result
      <3>2. CASE file = Torn
        BY <3>2, TornStays
      <3> QED
        BY <3>1, <3>2
    <2>2. \A q \in Programs : [mem[q] EXCEPT !.after = FALSE] \in Result
      BY DEF Result
    <2> QED
      BY <1>5, <2>1, <2>2 DEF Ends
  <1>6. CASE Crash \/ Act
    BY <1>6, NothingIsTyped DEF Crash, Act, Restarted
  <1> QED
    BY <1>1, <1>2, <1>3, <1>4, <1>5, <1>6
       DEF Next, Step, HealthCheckProgram, Manual, ActiveCheck, Submit, JobEnds, Minute, TwoHours, Befall,
           Scontrol, Announce, Approach, Begins, Fetch, Plan, AskOci, NotAsked, AskSlurm

LEMMA RowStep == ASSUME RowOK, FileOK, EventOK, [Next]_vars PROVE RowOK'
PROOF
  <1> SUFFICES ASSUME RowOK, FileOK, EventOK, Next PROVE RowOK'
    BY DEF RowOK, vars
  <1> USE DEF RowOK
  <1>1. ASSUME NEW p \in Programs, Dump(p) PROVE RowOK'
    BY <1>1 DEF Dump, Rows
  <1>2. CASE Ends
    BY <1>2 DEF Ends, Rows
  <1>3. CASE Fetch
    <2> DEFINE noticed == [row EXCEPT !.silent = ~Up, !.unconfigured = (slurm.drain = "absent"),
                                      !.event = event,
                                      !.slurm = [drained |-> slurm.drain \notin {"no", "absent"},
                                                 busy |-> slurm.job # "none"]]
               taken == [noticed EXCEPT !.passive = file.passive, !.after = file.after, !.latest = ~file.old]
    <2>1. row' \in Stored(noticed)
      BY <1>3 DEF Fetch
    <2>2. row' = noticed \/ (row' = taken /\ file # Torn)
      BY <2>1 DEF Stored
    <2>3. noticed \in Rows
      <3>1. (~Up) \in BOOLEAN /\ (slurm.drain = "absent") \in BOOLEAN
        BY DEF Up
      <3>3. ASSUME NEW d \in BOOLEAN, NEW b \in BOOLEAN
            PROVE  [drained |-> d, busy |-> b] \in [drained : BOOLEAN, busy : BOOLEAN]
        OBVIOUS
      <3>4. (slurm.drain \notin {"no", "absent"}) \in BOOLEAN /\ (slurm.job # "none") \in BOOLEAN
        OBVIOUS
      <3>2. event \in Event
        BY DEF EventOK
      <3> QED
        BY <3>1, <3>2, <3>3, <3>4 DEF Rows
    <2>4. ASSUME file # Torn PROVE taken \in Rows
      <3>1. file \in Result
        BY <2>4 DEF FileOK
      <3>2. file.passive \in Verdicts \cup {"absent"} /\ file.after \in BOOLEAN
        BY <3>1 DEF Result
      <3>3. (~file.old) \in BOOLEAN
        OBVIOUS
      <3> HIDE DEF noticed
      <3> QED
        BY <2>3, <3>2, <3>3 DEF Rows
    <2> QED
      BY <2>2, <2>3, <2>4
  <1> QED
    BY <1>1, <1>2, <1>3
       DEF Next, Step, HealthCheckProgram, Manual, ActiveCheck, JobEnds, Minute, TwoHours, Judge, Load, Open,
           Grep, Show, Resume, Drain, Submit, Befall, Crash, Scontrol, Announce, Approach, Begins, Plan,
             AskOci, NotAsked,
           AskSlurm, Act

LEMMA RunStep == ASSUME RunOK, RowOK, [Next]_vars PROVE RunOK'
PROOF
  <1> SUFFICES ASSUME RunOK, RowOK, Next PROVE RunOK'
    BY DEF RunOK, vars
  <1>1. Idle \in Runs /\ Idle.pc = "idle"
    BY NothingIsTyped DEF Idle
  <1>2. CASE \E modes \in SUBSET Modes : Plan(modes)
    <2>1. PICK modes \in SUBSET Modes : Plan(modes)
      BY <1>2
    <2> DEFINE action == Chosen(Candidates(row, modes))
    <2>2. action \in Actions
      BY <2>1, ChosenIsCandidate DEF Plan
    <2>3. recom' = [pc |-> "planned", action |-> action, row |-> Read(row), repaired |-> FALSE, resumed |-> FALSE]
      BY <2>1 DEF Plan
    <2>4. Read(row) \in Copy
      BY NothingIsTyped DEF RowOK
    <2> HIDE DEF action
    <2> QED
      BY <2>2, <2>3, <2>4 DEF RunOK, Runs, Actions
  <1>3. CASE AskOci
    <2>1. Repaired(event) \in BOOLEAN
      BY DEF Repaired
    <2> QED
      BY <1>1, <1>3, <2>1 DEF AskOci, RunOK, Runs
  <1>4. CASE AskSlurm
    BY <1>1, <1>4 DEF AskSlurm, RunOK, Runs
  <1>5. CASE NotAsked \/ Act
    BY <1>1, <1>5 DEF NotAsked, Act, RunOK
  <1>6. CASE Ends
    <2> DEFINE again == recom.resumed \/ ((slurm.drain = "down" /\ trouble' = "none") /\ recom.pc = "ready")
    <2>1. recom' = [recom EXCEPT !.row.after = FALSE, !.resumed = again]
      BY <1>6 DEF Ends
    <2>2. again \in BOOLEAN
      OBVIOUS
    <2>3. [recom.row EXCEPT !.after = FALSE] \in Copy
      BY DEF RunOK, Runs, Copy
    <2> HIDE DEF again
    <2> QED
      BY <2>1, <2>2, <2>3 DEF RunOK, Runs
  <1>7. ASSUME NEW p \in Programs, Resume(p) PROVE RunOK'
    <2>1. PICK again \in BOOLEAN : recom' = [recom EXCEPT !.resumed = again]
      <3>1. (recom.resumed \/ (recom.pc = "ready" /\ slurm.drain \notin {"no", "absent"})) \in BOOLEAN
        OBVIOUS
      <3> QED
        BY <1>7, <3>1 DEF Resume
    <2> QED
      BY <2>1 DEF RunOK, Runs
  <1>8. CASE \E drain \in {"no", "other", "absent"} : Scontrol(drain)
    BY <1>8 DEF Scontrol, RunOK, Runs
  <1> QED
    BY <1>2, <1>3, <1>4, <1>5, <1>6, <1>7, <1>8
       DEF RunOK, Next, Step, HealthCheckProgram, Manual, ActiveCheck, JobEnds, Minute, TwoHours, Judge, Load,
           Open, Dump, Grep, Show, Drain, Submit, Befall, Crash, Announce, Approach, Begins, Fetch

LEMMA TypeStep == TypeOK /\ [Next]_vars => TypeOK'
PROOF
  <1> SUFFICES ASSUME TypeOK, [Next]_vars PROVE TypeOK'
    OBVIOUS
  <1>1. HostOK /\ FileOK /\ PlaceOK /\ SlurmOK /\ RowOK /\ EventOK /\ RunOK /\ RestOK
    BY TypeParts
  <1>2. HostOK' /\ FileOK' /\ PlaceOK' /\ SlurmOK'
    BY <1>1, HostStep, FileStep, PlaceStep, SlurmStep
  <1>3. RowOK' /\ EventOK' /\ RunOK' /\ RestOK'
    BY <1>1, RowStep, EventStep, RunStep, RestStep
  <1>4. (HostOK /\ FileOK /\ PlaceOK /\ SlurmOK /\ RowOK /\ EventOK /\ RunOK /\ RestOK)' => TypeOK'
    BY OrderedActions
       DEF TypeOK, HostOK, FileOK, PlaceOK, SlurmOK, RowOK, EventOK, RunOK, RestOK, Places, Drained, Jobs,
           Rows, Runs
  <1> QED
    BY <1>2, <1>3, <1>4

\* The variables hold what the code can put there, for every set of programs, troubles and disturbances: a
\* torn file is never taken for a result, and a run of recommendations has an action that the row asks for.
THEOREM TypeCorrect == Spec => []TypeOK
PROOF
  BY InitTyped, TypeStep, PTL DEF Spec

(***************************************************************************)
(* Jobs: from the question to Slurm until the action the node takes none,  *)
(* unless it is resumed.  A node is down only while its host hangs, so a   *)
(* crash does not bring back one that was down.                            *)
(***************************************************************************)

Hung   == slurm.drain = "down" => trouble = "hang"
Spared == recom.pc = "ready" /\ recom.action # "reconfigure" /\ ~recom.resumed
            => slurm.drain # "no" /\ slurm.job = "none"

LEMMA HungStep == ASSUME HostOK, SlurmOK, Hung, [Next]_vars PROVE Hung'
PROOF
  <1> SUFFICES ASSUME HostOK, SlurmOK, Hung, Next PROVE Hung'
    BY DEF Hung, vars, host
  <1> USE DEF SlurmOK, Hung, host
  <1>1. ASSUME NEW p \in Programs, Step(p) PROVE Hung'
    BY <1>1 DEF Step, Judge, Load, Open, Dump, Grep, Show, Resume, Drain
  <1>2. CASE \E kind \in {"user"} \cup (Programs \cap {"active"}) : Submit(kind)
    BY <1>2 DEF Submit
  <1>3. CASE \E t \in Troubles : Befall(t)
    BY <1>3 DEF Befall, HostOK
  <1>4. CASE Crash \/ Act
    BY <1>4 DEF Crash, Act, Restarted, Cures, Up
  <1>5. CASE \E drain \in {"no", "other", "absent"} : Scontrol(drain)
    BY <1>5 DEF Scontrol
  <1>6. CASE Ends
    BY <1>6 DEF Ends
  <1>7. CASE HealthCheckProgram \/ Manual \/ ActiveCheck \/ JobEnds \/ Minute \/ TwoHours
    BY <1>7 DEF HealthCheckProgram, Manual, ActiveCheck, JobEnds, Minute, TwoHours
  <1> QED
    BY <1>1, <1>2, <1>3, <1>4, <1>5, <1>6, <1>7
       DEF Next, Announce, Approach, Begins, Fetch, Plan, AskOci, NotAsked, AskSlurm

LEMMA SparedStep == ASSUME SlurmOK, RunOK, Hung, Spared, [Next]_vars PROVE Spared'
PROOF
  <1> SUFFICES ASSUME SlurmOK, RunOK, Hung, Spared, Next PROVE Spared'
    BY DEF Spared, vars
  <1> USE DEF SlurmOK, Spared
  <1>1. ASSUME NEW p \in Programs, Judge(p) \/ Load(p) \/ Open(p) \/ Dump(p) PROVE Spared'
    BY <1>1 DEF Judge, Load, Open, Dump
  <1>2. ASSUME NEW p \in Programs, Grep(p) \/ Show(p) PROVE Spared'
    BY <1>2 DEF Grep, Show
  <1>11. ASSUME NEW p \in Programs, Resume(p) PROVE Spared'
    BY <1>11 DEF Resume, RunOK, Runs
  <1>12. ASSUME NEW p \in Programs, Drain(p) PROVE Spared'
    BY <1>12 DEF Drain
  <1>3. CASE \E kind \in {"user"} \cup (Programs \cap {"active"}) : Submit(kind)
    BY <1>3 DEF Submit
  <1>4. CASE JobEnds \/ (\E t \in Troubles : Befall(t))
    BY <1>4 DEF JobEnds, Befall
  <1>5. CASE Crash
    BY <1>5 DEF Crash, Restarted, Hung, Up
  <1>6. CASE \E drain \in {"no", "other", "absent"} : Scontrol(drain)
    BY <1>6 DEF Scontrol, RunOK, Runs
  <1>7. CASE Ends
    BY <1>7 DEF Ends, RunOK, Runs
  <1>8. CASE \E modes \in SUBSET Modes : Plan(modes)
    BY <1>8 DEF Plan
  <1>9. CASE AskOci \/ NotAsked \/ Act
    <2>1. recom' = Idle \/ (AskOci /\ recom' = [recom EXCEPT !.pc = IF recom.action = "reconfigure" THEN "ready"
                                                                ELSE "asked",
                                                         !.repaired = Repaired(event)])
      BY <1>9 DEF AskOci, NotAsked, Act
    <2>2. CASE recom' = Idle
      BY <2>2 DEF Idle
    <2>3. CASE recom' # Idle
      <3>1. recom'.pc = "ready" => recom.action = "reconfigure"
        BY <2>1, <2>3 DEF RunOK, Runs
      <3>2. recom'.action = recom.action
        BY <2>1, <2>3 DEF RunOK, Runs
      <3> QED
        BY <3>1, <3>2
    <2> QED
      BY <2>2, <2>3
  <1>10. CASE AskSlurm
    BY <1>10 DEF AskSlurm, Allowed, Idle, RunOK, Runs
  <1> QED
    BY <1>1, <1>2, <1>3, <1>4, <1>5, <1>6, <1>7, <1>8, <1>9, <1>10, <1>11, <1>12
       DEF Next, Step, HealthCheckProgram, Manual, ActiveCheck, Minute, TwoHours, Announce, Approach, Begins,
           Fetch

\* `mgmt recommendations run` asks Slurm before it acts, long after the row was read: for every schedule of
\* scripts, jobs, operators and repairs its action hits no job unless the node was resumed in between.
THEOREM NoJobIsHit == Spec => JobsSpared
PROOF
  <1> DEFINE Inv == TypeOK /\ Hung /\ Spared
  <1>1. Init => Inv
    <2>1. Init => Hung /\ Spared
      BY DEF Init, Hung, Spared, Idle
    <2> QED
      BY <2>1, InitTyped
  <1>2. Inv /\ [Next]_vars => Inv'
    BY TypeParts, TypeStep, HungStep, SparedStep
  <1>3. Inv => (recom.pc = "ready" /\ recom.action # "reconfigure" /\ slurm.job # "none" => recom.resumed)
    BY DEF Spared
  <1>4. Inv /\ [Next]_vars
          => [recom.pc = "ready" /\ recom.action # "reconfigure" /\ recom' = Idle /\ slurm.job # "none"
                => recom.resumed]_vars
    BY <1>3
  <1> QED
    BY <1>1, <1>2, <1>4, PTL DEF Spec, JobsSpared

(***************************************************************************)
(* Verdicts and repairs: while no check was published after the repair, no *)
(* copy of a result claims it, but those that a passive check is about to  *)
(* publish; a verdict to be acted on after a repair was seen to claim it.  *)
(***************************************************************************)

Settled == recom.repaired => Repaired(event)
Traced  == ~checked => /\ ~file.after /\ ~row.after /\ ~recom.row.after
                       /\ \A p \in Programs \ Passive : ~mem[p].after
Grounds == recom.pc \in {"asked", "ready"} /\ recom.repaired /\ recom.action \in DOMAIN Advice
             /\ recom.row.passive = Advice[recom.action]
             => checked

LEMMA RepairedStays == ASSUME Next, Repaired(event) PROVE Repaired(event')
PROOF
  <1>1. ~(\E kind \in {"REPAIR", "TERMINATE"} : Announce(kind)) /\ ~Begins /\ ~Ends
    BY DEF Repaired, Announce, Begins, Ends, NoEvent
  <1>2. event' = event
    BY <1>1 DEF Next, Step, HealthCheckProgram, Manual, ActiveCheck, JobEnds, Minute, TwoHours, Judge, Load,
                Open, Dump, Grep, Show, Resume, Drain, Submit, Befall, Crash, Scontrol, Approach, Fetch,
                  Plan, AskOci, NotAsked,
                AskSlurm, Act
  <1> QED
    BY <1>2

LEMMA SettledStep == ASSUME RunOK, EventOK, Settled, [Next]_vars PROVE Settled'
PROOF
  <1> SUFFICES ASSUME RunOK, EventOK, Settled, Next PROVE Settled'
    BY DEF Settled, Repaired, vars
  <1> SUFFICES recom'.repaired => recom.repaired \/ Repaired(event')
    BY RepairedStays DEF Settled, Repaired
  <1>1. CASE UNCHANGED recom
    BY <1>1
  <1>2. ASSUME NEW p \in Programs, Resume(p) PROVE recom'.repaired => recom.repaired
    BY <1>2 DEF Resume, RunOK, Runs
  <1>3. ASSUME NEW drain, Scontrol(drain) PROVE recom'.repaired => recom.repaired
    BY <1>3 DEF Scontrol, RunOK, Runs
  <1>4. CASE Ends
    BY <1>4 DEF Ends, RunOK, Runs
  <1>5. CASE AskOci
    <2>1. recom' = Idle \/ (recom'.repaired => Repaired(event))
      BY <1>5 DEF AskOci, RunOK, Runs
    <2>2. event' = event
      BY <1>5 DEF AskOci
    <2> QED
      BY <2>1, <2>2 DEF Idle
  <1>6. CASE AskSlurm
    BY <1>6 DEF AskSlurm, Idle, RunOK, Runs
  <1>7. CASE (\E modes \in SUBSET Modes : Plan(modes)) \/ NotAsked \/ Act
    BY <1>7 DEF Plan, NotAsked, Act, Idle
  <1> QED
    BY <1>1, <1>2, <1>3, <1>4, <1>5, <1>6, <1>7
       DEF Next, Step, HealthCheckProgram, Manual, ActiveCheck, JobEnds, Minute, TwoHours, Judge, Load, Open,
           Dump, Grep, Show, Drain, Submit, Befall, Crash, Announce, Approach, Begins, Fetch

LEMMA TracedStep == ASSUME FileOK, RowOK, RunOK, Traced, [Next]_vars PROVE Traced'
PROOF
  <1> SUFFICES ASSUME FileOK, RowOK, RunOK, Traced, Next PROVE Traced'
    BY DEF Traced, vars
  <1> USE DEF Traced, FileOK, Result
  <1>1. ASSUME NEW p \in Programs, Judge(p) PROVE Traced'
    BY <1>1 DEF Judge
  <1>2. ASSUME NEW p \in Programs, Load(p) PROVE Traced'
    BY <1>2 DEF Load, Readable, Nil
  <1>3. ASSUME NEW p \in Programs, Open(p) PROVE Traced'
    BY <1>3 DEF Open, Torn
  <1>4. ASSUME NEW p \in Programs, Dump(p) PROVE Traced'
    <2> SUFFICES ASSUME ~checked' PROVE /\ ~file'.after /\ ~row'.after /\ ~recom'.row.after
                                        /\ \A q \in Programs \ Passive : ~mem'[q].after
      OBVIOUS
    <2>1. ~checked /\ ~(p \in Passive /\ mem[p].after)
      BY <1>4 DEF Dump
    <2>2. ~mem[p].after
      BY <2>1
    <2>3. ~file'.after
      BY <1>4, <2>2 DEF Dump
    <2>4. \A q \in Programs \ Passive : ~mem'[q].after
      BY <1>4, <2>1 DEF Dump, Nil
    <2>5. row'.after = row.after
      BY <1>4 DEF Dump, RowOK, Rows
    <2> QED
      BY <1>4, <2>1, <2>3, <2>4, <2>5 DEF Dump
  <1>5. ASSUME NEW p \in Programs, Resume(p) PROVE Traced'
    BY <1>5 DEF Resume, RunOK, Runs, Copy
  <1>6. CASE \E drain \in {"no", "other", "absent"} : Scontrol(drain)
    BY <1>6 DEF Scontrol, RunOK, Runs, Copy
  <1>7. CASE Ends
    <2>1. ~file'.after
      BY <1>7, TornStays DEF Ends, Torn
    <2>2. ~row'.after
      BY <1>7 DEF Ends, RowOK, Rows
    <2>3. ~recom'.row.after
      BY <1>7 DEF Ends, RunOK, Runs, Copy
    <2>4. \A q \in Programs : ~mem'[q].after
      BY <1>7 DEF Ends
    <2> QED
      BY <2>1, <2>2, <2>3, <2>4
  <1>8. CASE Fetch
    <2>1. row'.after = row.after \/ row'.after = file.after
      BY <1>8 DEF Fetch, Stored, RowOK, Rows
    <2> QED
      BY <1>8, <2>1 DEF Fetch
  <1>9. CASE \E modes \in SUBSET Modes : Plan(modes)
    BY <1>9 DEF Plan, Read
  <1>10. CASE AskOci \/ NotAsked \/ AskSlurm
    <2>1. recom'.row = recom.row \/ recom' = Idle
      BY <1>10 DEF AskOci, NotAsked, AskSlurm, RunOK, Runs
    <2>2. ~Idle.row.after
      BY DEF Idle, FreshRow, Read
    <2> QED
      BY <1>10, <2>1, <2>2 DEF AskOci, NotAsked, AskSlurm
  <1>11. CASE Crash \/ Act
    BY <1>11 DEF Crash, Act, Restarted, Idle, FreshRow, Read, Nil
  <1>12. CASE HealthCheckProgram \/ Manual \/ ActiveCheck \/ JobEnds \/ Minute \/ TwoHours
    BY <1>12 DEF HealthCheckProgram, Manual, ActiveCheck, JobEnds, Minute, TwoHours
  <1> QED
    BY <1>1, <1>2, <1>3, <1>4, <1>5, <1>6, <1>7, <1>8, <1>9, <1>10, <1>11, <1>12
       DEF Next, Step, Grep, Show, Drain, Submit, Befall, Announce, Approach, Begins

(* `checked` is taken back only when the repair ends, and the run that saw a *)
(* repair saw it ended.                                                      *)
LEMMA GroundsStep == ASSUME RunOK, EventOK, Settled, Traced, Grounds, [Next]_vars PROVE Grounds'
PROOF
  <1> SUFFICES ASSUME RunOK, EventOK, Settled, Traced, Grounds, Next PROVE Grounds'
    BY DEF Grounds, vars
  <1> DEFINE Same == /\ recom'.pc = recom.pc /\ recom'.action = recom.action
                     /\ recom'.repaired = recom.repaired /\ recom'.row.passive = recom.row.passive
  <1>1. CASE Ends
    <2>1. ~recom.repaired
      BY <1>1 DEF Ends, Settled, Repaired
    <2>2. ~recom'.repaired
      BY <1>1, <2>1 DEF Ends, RunOK, Runs
    <2> QED
      BY <2>2 DEF Grounds
  <1>2. CASE AskOci
    <2> SUFFICES ASSUME recom' # Idle PROVE Grounds'
      BY DEF Grounds, Idle
    <2>1. ~Held(recom.row, recom.action, event, near) /\ checked' = checked
      BY <1>2 DEF AskOci
    <2>2. recom'.action = recom.action /\ recom'.row = recom.row /\ recom'.repaired = Repaired(event)
      BY <1>2 DEF AskOci, RunOK, Runs
    <2>3. recom'.repaired /\ recom'.action \in DOMAIN Advice /\ recom'.row.passive = Advice[recom'.action]
            => recom.row.after
      BY <2>1, <2>2 DEF Held
    <2> QED
      BY <2>1, <2>3 DEF Grounds, Traced
  <1>3. CASE AskSlurm
    BY <1>3 DEF AskSlurm, Grounds, Idle, RunOK, Runs
  <1>4. CASE (\E modes \in SUBSET Modes : Plan(modes)) \/ NotAsked \/ Act
    BY <1>4 DEF Plan, NotAsked, Act, Idle, Grounds
  <1>5. ASSUME NEW p \in Programs, Resume(p) PROVE Same /\ checked' = checked
    BY <1>5 DEF Resume, RunOK, Runs, Copy
  <1>6. ASSUME NEW drain, Scontrol(drain) PROVE Same /\ checked' = checked
    BY <1>6 DEF Scontrol, RunOK, Runs, Copy
  <1>7. ASSUME NEW p \in Programs, Dump(p) PROVE Same /\ (checked => checked')
    BY <1>7 DEF Dump
  <1>8. ASSUME Same, checked => checked' PROVE Grounds'
    BY <1>8 DEF Grounds
  <1>9. CASE UNCHANGED <<recom, checked>>
    BY <1>9 DEF Grounds
  <1> HIDE DEF Same
  <1> QED
    BY <1>1, <1>2, <1>3, <1>4, <1>5, <1>6, <1>7, <1>8, <1>9
       DEF Next, Step, HealthCheckProgram, Manual, ActiveCheck, JobEnds, Minute, TwoHours, Judge, Load, Open,
           Grep, Show, Drain, Submit, Befall, Crash, Announce, Approach, Begins, Fetch

\* However results of before the repair survive (in the row, in a copy of the row, in the file, in what a
\* program read of it), `mgmt recommendations run`, once it saw the repair, acts on the health check's
\* verdict only after a passive check with a date of after the repair was published.
THEOREM RepairedIsChecked == Spec => RepairIsChecked
PROOF
  <1> DEFINE Inv == TypeOK /\ Settled /\ Traced /\ Grounds
  <1>1. Init => Inv
    <2>1. Init => Settled /\ Traced /\ Grounds
      BY DEF Init, Settled, Traced, Grounds, Idle, Read, FreshRow, Nil
    <2> QED
      BY <2>1, InitTyped
  <1>2. Inv /\ [Next]_vars => Inv'
    BY TypeParts, TypeStep, SettledStep, TracedStep, GroundsStep
  <1>3. Inv /\ [Next]_vars
          => [recom.pc = "ready" /\ recom' = Idle /\ recom.repaired /\ recom.action \in DOMAIN Advice
                /\ recom.row.passive = Advice[recom.action]
                => checked]_vars
    BY DEF Grounds
  <1> QED
    BY <1>1, <1>2, <1>3, PTL DEF Spec, RepairIsChecked

(***************************************************************************)
(* The log: a script that is about to drain has a line in the log, or it   *)
(* was emptied since; the scripts do not both run on a node that they      *)
(* drained; while such a node has neither a good verdict nor a line in the *)
(* log, no script is about to grep it; and one that found the node drained *)
(* still has the verdict that the log's silence stands for.                *)
(***************************************************************************)

Ahead == {"load", "open", "dump", "grep"}

Occupied  == pc["prolog"] # "idle" => slurm.job # "none"
Backed    == /\ pc["prolog"] = "drain" => log.says \/ log.mute
             /\ pc["hcp"] = "drain" => log.says \/ log.mute \/ judged \/ pc["prolog"] = "judge"
Alone     == Lifts(slurm.drain) => pc["hcp"] = "idle" \/ pc["prolog"] = "idle"
Suspected == Lifts(slurm.drain) /\ ~judged /\ ~log.mute /\ ~log.says
               => /\ pc["hcp"] \notin Ahead /\ pc["prolog"] \notin Ahead
                  /\ log.fresh \/ (\E p \in Programs \ Scripts : pc[p] = "judge")
                       => pc["hcp"] = "judge" \/ pc["prolog"] = "judge"
Grounded  == \A p \in sure : pc[p] \in {"show", "resume"} /\ Lifts(slurm.drain) => judged

LogInv == Occupied /\ Backed /\ Alone /\ Suspected /\ Grounded

(* What the drain of a step of somebody else is: as before, or not the       *)
(* scripts'.                                                                 *)
Elsewhere == /\ UNCHANGED <<log, pc, judged, sure>>
             /\ slurm'.job = slurm.job
             /\ Lifts(slurm'.drain) => slurm'.drain = slurm.drain

LEMMA ElsewhereKeeps == LogInv /\ Elsewhere => LogInv'
PROOF
  BY DEF LogInv, Elsewhere, Occupied, Backed, Alone, Suspected, Grounded, Lifts

LEMMA LogStep == ASSUME PlaceOK, SlurmOK, sure \subseteq Scripts, LogInv, [Next]_vars PROVE LogInv'
PROOF
  <1> SUFFICES ASSUME Next PROVE LogInv'
    BY ElsewhereKeeps DEF Elsewhere, vars
  <1> USE DEF PlaceOK, SlurmOK, Scripts
  <1>1. CASE HealthCheckProgram
    <2>1. pc["prolog"] = "idle" /\ pc["hcp"] = "idle"
      BY <1>1 DEF HealthCheckProgram, CheckedBySlurm, LogInv, Occupied
    <2>2. /\ slurm' = slurm /\ judged' = judged /\ sure' = sure
          /\ \A p \in Programs : p # "hcp" => pc'[p] = pc[p]
          /\ pc'["hcp"] = IF log.fresh THEN "grep" ELSE "judge"
          /\ log' = IF log.fresh THEN log ELSE [fresh |-> TRUE, says |-> FALSE, mute |-> FALSE]
      BY <1>1 DEF HealthCheckProgram, RunScript, StartCheck, Goto
    <2>3. Occupied' /\ Backed' /\ Alone'
      BY <2>1, <2>2 DEF LogInv, Occupied, Backed, Alone
    <2>4. Suspected'
      BY <2>1, <2>2 DEF LogInv, Suspected, Ahead
    <2>5. Grounded'
      BY <2>1, <2>2 DEF LogInv, Grounded
    <2> QED
      BY <2>3, <2>4, <2>5 DEF LogInv
  <1>2. CASE Manual
    <2>1. /\ slurm' = slurm /\ judged' = judged /\ sure' = sure /\ log'.mute
          /\ \A p \in Programs : p # "manual" => pc'[p] = pc[p]
      BY <1>2 DEF Manual, StartCheck, Goto
    <2> QED
      BY <2>1 DEF LogInv, Occupied, Backed, Alone, Suspected, Grounded
  <1>3. ASSUME NEW p \in Programs, Judge(p) PROVE LogInv'
    <2>1. /\ slurm' = slurm /\ sure' = sure /\ log'.mute = log.mute /\ log'.fresh
          /\ pc[p] = "judge" /\ pc'[p] = "load" /\ \A q \in Programs : q # p => pc'[q] = pc[q]
          /\ log'.says = (log.says \/ (p \in Scripts /\ Verdict # "Healthy"))
          /\ judged' = IF p \in Scripts THEN Verdict = "Healthy" ELSE judged
      BY <1>3 DEF Judge, Drains, Goto
    <2>2. Occupied' /\ Alone'
      BY <2>1 DEF LogInv, Occupied, Alone
    <2>3. Backed'
      BY <2>1 DEF LogInv, Backed
    <2>4. Suspected'
      BY <2>1 DEF LogInv, Suspected, Ahead
    <2>5. Grounded'
      BY <2>1 DEF LogInv, Grounded, Alone
    <2> QED
      BY <2>2, <2>3, <2>4, <2>5 DEF LogInv
  <1>4. ASSUME NEW p \in Programs, Load(p) \/ Open(p) \/ Dump(p) PROVE LogInv'
    <2>1. /\ slurm' = slurm /\ judged' = judged /\ sure' = sure /\ log' = log
          /\ pc[p] \in {"load", "open", "dump"} /\ pc'[p] \in {"open", "dump", "grep", "idle"}
          /\ \A q \in Programs : q # p => pc'[q] = pc[q]
          /\ p \notin Scripts \/ pc'[p] \in {"open", "dump", "grep"}
      BY <1>4 DEF Load, Open, Dump, Goto
    <2>2. Occupied' /\ Alone' /\ Backed'
      BY <2>1 DEF LogInv, Occupied, Alone, Backed
    <2>3. Suspected'
      BY <2>1 DEF LogInv, Suspected, Ahead
    <2>4. Grounded'
      BY <2>1 DEF LogInv, Grounded
    <2> QED
      BY <2>2, <2>3, <2>4 DEF LogInv
  <1>5. ASSUME NEW p \in Programs, Grep(p) PROVE LogInv'
    <2>1. /\ slurm' = slurm /\ judged' = judged /\ log' = log
          /\ p \in Scripts /\ pc[p] = "grep" /\ pc'[p] = IF log.says THEN "drain" ELSE "show"
          /\ \A q \in Programs : q # p => pc'[q] = pc[q]
          /\ sure' = IF Lifts(slurm.drain) /\ ~log.mute THEN sure \cup {p} ELSE sure \ {p}
      BY <1>5 DEF Grep, Goto
    <2>2. Occupied' /\ Alone' /\ Backed'
      BY <2>1 DEF LogInv, Occupied, Alone, Backed
    <2>3. Suspected'
      BY <2>1 DEF LogInv, Suspected, Ahead
    <2>4. Grounded'
      BY <2>1 DEF LogInv, Grounded, Suspected, Ahead
    <2> QED
      BY <2>2, <2>3, <2>4 DEF LogInv
  <1>6. ASSUME NEW p \in Programs, Show(p) PROVE LogInv'
    <2>1. /\ slurm' = slurm /\ judged' = judged /\ log' = log /\ sure' \subseteq sure
          /\ p \in Scripts /\ pc[p] = "show" /\ pc'[p] \in {"resume", "idle"}
          /\ \A q \in Programs : q # p => pc'[q] = pc[q]
      BY <1>6 DEF Show, Goto
    <2> QED
      BY <2>1 DEF LogInv, Occupied, Alone, Backed, Suspected, Grounded, Ahead
  <1>7. ASSUME NEW p \in Programs, Resume(p) PROVE LogInv'
    <2>1. /\ slurm'.job = slurm.job /\ ~Lifts(slurm'.drain) /\ judged' = judged /\ log' = log
          /\ pc[p] = "resume" /\ pc'[p] = "idle" /\ \A q \in Programs : q # p => pc'[q] = pc[q]
      BY <1>7 DEF Resume, Goto, Lifts
    <2> QED
      BY <2>1 DEF LogInv, Occupied, Alone, Backed, Suspected, Grounded
  <1>8. ASSUME NEW p \in Programs, Drain(p) PROVE LogInv'
    <2>1. judged' = judged /\ log' = log /\ sure' = {} /\ pc[p] = "drain" /\ pc'[p] = "idle"
          /\ \A q \in Programs : q \notin {p, "active"} => pc'[q] = pc[q]
      BY <1>8 DEF Drain, Goto
    <2>2. CASE p = "prolog"
      <3>1. log.says \/ log.mute
        BY <2>1, <2>2 DEF LogInv, Backed
      <3> QED
        BY <2>1, <2>2, <3>1 DEF LogInv, Occupied, Backed, Alone, Suspected, Grounded
    <2>3. CASE p = "hcp"
      <3>1. slurm'.job = slurm.job
        BY <1>8, <2>3 DEF Drain
      <3>2. Occupied' /\ Backed' /\ Alone' /\ Grounded'
        BY <2>1, <2>3, <3>1 DEF LogInv, Occupied, Backed, Alone, Grounded
      <3>3. Suspected'
        BY <2>1, <2>3 DEF LogInv, Backed, Suspected, Ahead
      <3> QED
        BY <3>2, <3>3 DEF LogInv
    <2> QED
      BY <1>8, <2>2, <2>3 DEF Drain
  <1>9. CASE \E kind \in {"user"} \cup (Programs \cap {"active"}) : Submit(kind)
    <2>1. PICK kind \in {"user"} \cup (Programs \cap {"active"}) : Submit(kind)
      BY <1>9
    <2>2. /\ slurm.drain = "no" /\ slurm'.drain = "no" /\ slurm'.job = kind /\ judged' = judged /\ sure' = sure
          /\ pc["prolog"] = "idle" /\ pc'["prolog"] = IF log.fresh THEN "grep" ELSE "judge"
          /\ pc'["hcp"] = pc["hcp"] /\ (log.fresh => log' = log)
      BY <2>1 DEF Submit
    <2>3. Occupied' /\ Backed'
      BY <2>2 DEF LogInv, Occupied, Backed
    <2>4. ~Lifts(slurm'.drain)
      BY <2>2 DEF Lifts
    <2> QED
      BY <2>3, <2>4 DEF LogInv, Alone, Suspected, Grounded
  <1>10. CASE JobEnds \/ ActiveCheck
    <2>1. /\ slurm'.drain = slurm.drain /\ judged' = judged /\ log' = log /\ sure' = sure
          /\ \A q \in Programs : pc'[q] = pc[q] \/ (q = "active" /\ pc'[q] = "load")
          /\ pc["prolog"] = "idle"
      BY <1>10 DEF JobEnds, ActiveCheck, Goto
    <2>2. Occupied' /\ Backed' /\ Alone' /\ Grounded'
      BY <2>1 DEF LogInv, Occupied, Backed, Alone, Grounded
    <2>3. Suspected'
      BY <2>1 DEF LogInv, Suspected, Ahead
    <2> QED
      BY <2>2, <2>3 DEF LogInv
  <1>11. CASE Minute
    <2>1. slurm' = slurm /\ judged' = judged /\ sure' = sure /\ pc' = pc
          /\ log'.says = log.says /\ log'.mute = log.mute /\ ~log'.fresh
      BY <1>11 DEF Minute
    <2> QED
      BY <2>1 DEF LogInv, Occupied, Alone, Backed, Suspected, Grounded
  <1>12. ASSUME Restarted PROVE LogInv'
    <2>1. sure' = {} /\ (\A q \in Programs : pc'[q] = "idle") /\ ~log'.fresh
      BY <1>12 DEF Restarted
    <2> QED
      BY <2>1 DEF LogInv, Occupied, Backed, Alone, Suspected, Grounded, Ahead
  <1>13. CASE Act
    <2>1. Restarted \/ Elsewhere
      BY <1>13 DEF Act, Elsewhere, Lifts
    <2> QED
      BY <1>12, <2>1, ElsewhereKeeps
  <1>14. CASE (\E t \in Troubles : Befall(t)) \/ Ends \/ \E drain \in {"no", "other", "absent"} : Scontrol(drain)
    <2>1. Elsewhere
      BY <1>14 DEF Befall, Ends, Scontrol, Elsewhere, Lifts
    <2> QED
      BY <2>1, ElsewhereKeeps
  <1>15. CASE \/ TwoHours \/ (\E kind \in {"REPAIR", "TERMINATE"} : Announce(kind)) \/ Approach \/ Begins
              \/ Fetch \/ (\E modes \in SUBSET Modes : Plan(modes)) \/ AskOci \/ NotAsked \/ AskSlurm
    <2>1. Elsewhere
      BY <1>15 DEF TwoHours, Announce, Approach, Begins, Fetch, Plan, AskOci, NotAsked, AskSlurm, Elsewhere
    <2> QED
      BY <2>1, ElsewhereKeeps
  <1>16. CASE Crash
    BY <1>12, <1>16 DEF Crash
  <1> QED
    BY <1>1, <1>2, <1>3, <1>4, <1>5, <1>6, <1>7, <1>8, <1>9, <1>10, <1>11, <1>13, <1>14, <1>15, <1>16
       DEF Next, Step

\* However checks, prologs and operators interleave over the one log: a script that found the node drained
\* by the health check when it grepped resumes it only when the last check with --slurm found it well, or
\* a check without --slurm emptied the log.
THEOREM DrainOutlivesTrouble == Spec => DrainedUntilWell
PROOF
  <1> DEFINE Inv == TypeOK /\ LogInv
             Kept == \A p \in sure : Resume(p) /\ Lifts(slurm.drain) => judged
  <1>1. Init => Inv
    <2>1. Init => LogInv
      BY DEF Init, LogInv, Occupied, Backed, Alone, Suspected, Grounded, Lifts
    <2> QED
      BY <2>1, InitTyped
  <1>2. Inv /\ [Next]_vars => Inv'
    BY TypeParts, TypeStep, LogStep DEF RestOK
  <1>3. Inv => Kept
    BY DEF LogInv, Grounded, Resume
  <1>4. Inv /\ [Next]_vars => [Kept]_vars
    BY <1>3
  <1> QED
    BY <1>1, <1>2, <1>4, PTL DEF Spec, DrainedUntilWell
=============================================================================
