---------------------- MODULE MaintenanceEventsProofs ----------------------
(* Proofs about MaintenanceEvents for every set of events, every policy and  *)
(* all bounds.                                                               *)
EXTENDS MaintenanceEvents, TLAPS

(* The plan for Slurm is made on what the pass read: it drains only a node   *)
(* that is free or held by the health check, resumes only its own drain, and *)
(* is done with a success only when there was nothing of its own to resume.  *)
LEMMA SlurmStepGrounds ==
  ASSUME seen \in Info, NEW c, NEW m
  PROVE  /\ SlurmStep(c, m) \in {"idle", "drain", "resume", "store"}
         /\ SlurmStep(c, m) = "drain" => seen \in {"up", "healthcheck"} /\ c.state \in Pending
         /\ SlurmStep(c, m) = "resume" => seen = "ime"
         /\ SlurmStep(c, m) = "store" /\ c.state = "SUCCEEDED" => seen \notin {"absent", "ime"}
<1>1. CASE c.state = "SUCCEEDED"
  BY <1>1 DEF SlurmStep, Info, Slurm, Pending
<1>2. CASE c.state # "SUCCEEDED" /\ c.state \in Pending /\ "drain" \in m
  BY <1>2 DEF SlurmStep, Info, Slurm
<1>3. CASE c.state # "SUCCEEDED" /\ ~(c.state \in Pending /\ "drain" \in m)
  BY <1>3 DEF SlurmStep
<1>4. QED BY <1>1, <1>2, <1>3

(* The same for the whole handler, which may besides move a scheduled event  *)
(* or find a success recorded already.                                       *)
LEMMA HandleStepGrounds ==
  ASSUME seen \in Info, NEW c \in Copy, NEW m
  PROVE  /\ HandleStep(c, m) \in {"idle", "drain", "resume", "store", "reschedule"}
         /\ HandleStep(c, m) = "drain" => seen \in {"up", "healthcheck"} /\ c.state \in Pending
         /\ HandleStep(c, m) = "resume" => seen = "ime"
         /\ HandleStep(c, m) = "reschedule" => c.state = "SCHEDULED"
         /\ HandleStep(c, m) = "store" /\ c.state = "SUCCEEDED" /\ c.id \in Managed =>
              \/ seen \notin {"absent", "ime"}
              \/ stored = [id |-> c.id, state |-> "SUCCEEDED"]
<1> DEFINE far == c.state = "SCHEDULED" /\ c.window = "far"
           current == ~far /\ stored = [id |-> c.id, state |-> c.state]
           owns == "drain" \in m /\ c.state \in Pending /\ seen \in {"up", "healthcheck"}
<1>1. HandleStep(c, m) = IF c.id \notin Managed \/ (current /\ ~owns) THEN "store"
                         ELSE IF far /\ "schedule" \in m THEN "reschedule"
                         ELSE SlurmStep(c, m)
  BY DEF HandleStep
<1>2. CASE c.id \notin Managed \/ (current /\ ~owns)
  BY <1>1, <1>2
<1>3. CASE ~(c.id \notin Managed \/ (current /\ ~owns)) /\ far /\ "schedule" \in m
  BY <1>1, <1>3
<1>4. CASE ~(c.id \notin Managed \/ (current /\ ~owns)) /\ ~(far /\ "schedule" \in m)
  <2>1. HandleStep(c, m) = SlurmStep(c, m) BY <1>1, <1>4
  <2>2. QED BY <2>1, SlurmStepGrounds
<1>5. QED BY <1>2, <1>3, <1>4

(* The locals of a pass keep their types when it goes on or ends.            *)
LEMMA GoToType ==
  ASSUME TypeOK, NEW step \in {"idle", "detail", "reschedule", "drain", "resume", "store"},
         NEW c, NEW m, step # "idle" => c \in Copy /\ m \subseteq {"drain", "schedule"},
         GoTo(step, c, m)
  PROVE  /\ pc' = step /\ seen' \in Info /\ touched' \in BOOLEAN
         /\ copy' \in Copy \cup {NoEvent} /\ may' \subseteq {"drain", "schedule"}
         /\ (pc' \notin {"idle", "list"}) => copy' \in Copy
         /\ step # "idle" => copy' = c /\ seen' = seen /\ touched' = touched
<1>1. CASE step = "idle" BY <1>1 DEF GoTo, TypeOK, Info, Slurm
<1>2. CASE step # "idle" BY <1>2 DEF GoTo, TypeOK
<1>3. QED BY <1>1, <1>2

LEMMA SnapshotType ==
  ASSUME TypeOK, NEW e \in Event, NEW d \in BOOLEAN
  PROVE  Snapshot(e, d) \in Copy
BY DEF Snapshot, TypeOK, Copy

LEMMA EnabledType == ASSUME NEW c PROVE Enabled(c) \subseteq {"drain", "schedule"}
BY DEF Enabled

LEMMA FailsType ==
  ASSUME TypeOK, NEW call, Fails(call)
  PROVE  faults' \in 0..MaxFaults
BY ParameterAssumption DEF Fails, TypeOK

LEMMA Initially == Init => IInv
<1> SUFFICES ASSUME Init PROVE IInv OBVIOUS
<1>1. TypeOK
  <2>1. ev \in [Event -> [state : States \cup {"none"}, window : Windows]]
    BY DEF Init, Windows
  <2>2. finished \in Seq(Event) BY DEF Init
  <2>3. ops \in 0..MaxOps /\ faults \in 0..MaxFaults BY ParameterAssumption DEF Init
  <2>4. stored \in [id : Event \cup {NoEvent}, state : States \cup {"none"}] BY DEF Init
  <2>5. slurm \in Slurm /\ seen \in Info /\ may \subseteq {"drain", "schedule"} /\ copy = NoEvent
        /\ pc = "idle" /\ sick = FALSE /\ touched = FALSE /\ script = "idle"
    BY DEF Init, Info, Slurm
  <2>6. QED BY <2>1, <2>2, <2>3, <2>4, <2>5 DEF TypeOK
<1>2. Fresh /\ Grounds /\ Resumed
  BY DEF Init, Fresh, Grounds, Resumed, Reading
<1>3. QED BY <1>1, <1>2 DEF IInv

(* What OCI does leaves Slurm and the pass alone, and takes no success back. *)
LEMMA CloudStep ==
  ASSUME IInv, NEW e \in Event, Announce(e) \/ Approach(e) \/ Lapse(e) \/ Proceed(e) \/ End(e)
  PROVE  IInv'
<1>1. TypeOK'
  <2>1. ev' \in [Event -> [state : States \cup {"none"}, window : Windows]]
    <3>1. CASE Announce(e) BY <3>1 DEF IInv, TypeOK, Announce, States, Pending, Windows
    <3>2. CASE Approach(e) BY <3>2 DEF IInv, TypeOK, Approach, Windows
    <3>3. CASE Lapse(e) BY <3>3 DEF IInv, TypeOK, Lapse, Windows
    <3>4. CASE Proceed(e) BY <3>4 DEF IInv, TypeOK, Proceed, States, Pending
    <3>5. CASE End(e) BY <3>5 DEF IInv, TypeOK, End, States, Excluded
    <3>6. QED BY <3>1, <3>2, <3>3, <3>4, <3>5
  <2>2. finished' \in Seq(Event)
    BY DEF IInv, TypeOK, Announce, Approach, Lapse, Proceed, End
  <2>3. UNCHANGED <<node, pass, stored, ops, faults>>
    BY DEF Announce, Approach, Lapse, Proceed, End
  <2>4. QED BY <2>1, <2>2, <2>3 DEF IInv, TypeOK, node, pass
<1>2. UNCHANGED <<node, pass, stored>>
  BY DEF Announce, Approach, Lapse, Proceed, End
<1>3. Fresh' /\ Resumed'
  BY <1>2 DEF IInv, Fresh, Resumed, node, pass
<1>4. \A f \in Event : ev[f].state = "SUCCEEDED" => ev'[f].state = "SUCCEEDED"
  BY DEF IInv, TypeOK, Announce, Approach, Lapse, Proceed, End
<1>5. (pc \notin {"idle", "list"}) => copy.id \in Event
  BY DEF IInv, TypeOK, Copy
<1>6. Grounds'
  BY <1>2, <1>4, <1>5 DEF IInv, Grounds, pass
<1>7. QED BY <1>1, <1>3, <1>6 DEF IInv

(* What others do to the node is noted, and never drains for maintenance.    *)
LEMMA OthersStep ==
  ASSUME IInv, \/ \E s \in {"absent", "up", "other"} : Others(s)
               \/ Passive \/ ScriptReads \/ ScriptActs
  PROVE  IInv'
<1>1. UNCHANGED <<oci, pass, stored, faults>>
  BY DEF Others, Passive, ScriptReads, ScriptActs
<1>2. slurm' \in Slurm /\ (slurm' = slurm \/ slurm' # "ime") /\ sick' \in BOOLEAN
  /\ touched' \in BOOLEAN /\ script' \in {"idle", "drain", "resume"} /\ ops' \in 0..MaxOps
  <2>1. CASE \E s \in {"absent", "up", "other"} : Others(s)
    BY <2>1, ParameterAssumption DEF IInv, TypeOK, Others, Slurm
  <2>2. CASE Passive
    BY <2>2, ParameterAssumption DEF IInv, TypeOK, Passive
  <2>3. CASE ScriptReads BY <2>3 DEF IInv, TypeOK, ScriptReads
  <2>4. CASE ScriptActs BY <2>4 DEF IInv, TypeOK, ScriptActs, Slurm
  <2>5. QED BY <2>1, <2>2, <2>3, <2>4
<1>3. pc # "idle" => (touched' \/ (slurm' = slurm /\ touched' = touched))
  <2>1. touched \in BOOLEAN BY DEF IInv, TypeOK
  <2>2. QED BY <2>1 DEF Others, Passive, ScriptReads, ScriptActs
<1>4. TypeOK' BY <1>1, <1>2 DEF IInv, TypeOK, oci, pass
<1>5. Fresh' BY <1>1, <1>2, <1>3 DEF IInv, Fresh, Reading, pass
<1>6. Grounds' /\ Resumed' BY <1>1, <1>2 DEF IInv, Grounds, Resumed, oci, pass
<1>7. QED BY <1>4, <1>5, <1>6 DEF IInv

(* The pass begins with the truth, or with nothing.                          *)
LEMMA ReadSlurmStep == ASSUME IInv, ReadSlurm PROVE IInv'
<1>1. faults' \in 0..MaxFaults BY FailsType DEF IInv, TypeOK, ReadSlurm
<1>2. seen' \in {slurm, "absent", "unknown"} /\ pc' = "list" BY DEF ReadSlurm
<1>3. TypeOK' BY <1>1, <1>2 DEF IInv, TypeOK, ReadSlurm, oci, node, Info, Slurm
<1>4. Fresh' BY <1>2 DEF ReadSlurm, Fresh, Reading, Slurm, node
<1>5. Grounds' /\ Resumed' BY <1>2 DEF Grounds, Resumed
<1>6. QED BY <1>3, <1>4, <1>5 DEF IInv

(* Ending the pass, as every step of it may, keeps the invariant.            *)
LEMMA PassEnds ==
  ASSUME IInv, NEW c, NEW m, GoTo("idle", c, m), faults' \in 0..MaxFaults,
         UNCHANGED <<oci, sick, script, ops>>, slurm' \in Slurm,
         stored' \in [id : Event \cup {NoEvent}, state : States \cup {"none"}]
  PROVE  IInv'
<1>1. pc' = "idle" /\ seen' = "absent" /\ copy' = NoEvent /\ may' = {} /\ touched' = FALSE
  BY DEF GoTo
<1>2. TypeOK' BY <1>1 DEF IInv, TypeOK, oci, Info, Slurm
<1>3. Fresh' /\ Grounds' /\ Resumed' BY <1>1 DEF Fresh, Grounds, Resumed, Reading
<1>4. QED BY <1>2, <1>3 DEF IInv

(* Going on to another step that only reads or plans keeps the invariant if  *)
(* the plan has its grounds.                                                 *)
LEMMA PassGoesOn ==
  ASSUME IInv, pc \in Reading, NEW c \in Copy, NEW m \in SUBSET {"drain", "schedule"},
         NEW step \in {"detail", "reschedule", "drain", "resume", "store"},
         GoTo(step, c, m), faults' \in 0..MaxFaults,
         UNCHANGED <<slurm, sick, script, stored, ops>>,
         ev' \in [Event -> [state : States \cup {"none"}, window : Windows]],
         UNCHANGED finished,
         step = "drain" => seen \in {"up", "healthcheck"} /\ c.state \in Pending,
         step = "resume" => seen = "ime",
         step = "reschedule" => c.state = "SCHEDULED",
         c.state = "SUCCEEDED" => ev'[c.id].state = "SUCCEEDED",
         step = "store" /\ c.id \in Managed /\ c.state = "SUCCEEDED" =>
           seen \notin {"absent", "ime"} \/ stored = [id |-> c.id, state |-> "SUCCEEDED"]
  PROVE  IInv'
<1>1. pc' = step /\ copy' = c /\ may' = m /\ seen' = seen /\ touched' = touched
  BY DEF GoTo
<1>2. TypeOK' BY <1>1 DEF IInv, TypeOK
<1>3. Fresh' BY <1>1 DEF IInv, Fresh, Reading
<1>4. Grounds' BY <1>1 DEF Grounds
<1>5. seen \notin {"absent", "ime", "unknown"} => slurm' # "ime"
  BY DEF IInv, Fresh
<1>6. Resumed' BY <1>1, <1>5 DEF Resumed
<1>7. QED BY <1>2, <1>3, <1>4, <1>6 DEF IInv

LEMMA ListStep == ASSUME IInv, List PROVE IInv'
<1>1. faults' \in 0..MaxFaults BY FailsType DEF IInv, TypeOK, List
<1>2. UNCHANGED <<oci, slurm, sick, script, stored, ops>> /\ pc = "list" BY DEF List
<1>3. CASE GoTo("idle", copy, may)
  BY <1>1, <1>2, <1>3, PassEnds DEF IInv, TypeOK
<1>4. CASE \E e \in Event : GoTo("detail", Snapshot(e, FALSE), {})
  <2>1. PICK e \in Event : GoTo("detail", Snapshot(e, FALSE), {}) BY <1>4
  <2>2. Snapshot(e, FALSE) \in Copy BY SnapshotType DEF IInv
  <2>3. Snapshot(e, FALSE).id = e /\ Snapshot(e, FALSE).state = ev[e].state BY DEF Snapshot
  <2>4. pc \in Reading BY <1>2 DEF Reading
  <2>5. ev' \in [Event -> [state : States \cup {"none"}, window : Windows]] /\ ev' = ev /\ UNCHANGED finished
    BY <1>2 DEF IInv, TypeOK, oci
  <2>6. QED BY <2>1, <2>2, <2>3, <2>4, <2>5, <1>1, <1>2, PassGoesOn
<1>5. QED BY <1>3, <1>4 DEF List

LEMMA DetailStep == ASSUME IInv, Detail PROVE IInv'
<1>1. faults' \in 0..MaxFaults BY FailsType DEF IInv, TypeOK, Detail
<1>2. UNCHANGED <<oci, slurm, sick, script, stored, ops>> /\ pc = "detail" BY DEF Detail
<1>3. copy \in Copy /\ copy.id \in Event /\ seen \in Info
  BY <1>2 DEF IInv, TypeOK, Copy
<1>4. ASSUME NEW c \in Copy, Handle(c), c.state = "SUCCEEDED" => ev[c.id].state = "SUCCEEDED"
      PROVE  IInv'
  <2> DEFINE step == HandleStep(c, Enabled(c))
  <2>1. GoTo(step, c, Enabled(c)) BY <1>4 DEF Handle
  <2>2. /\ step \in {"idle", "drain", "resume", "store", "reschedule"}
        /\ step = "drain" => seen \in {"up", "healthcheck"} /\ c.state \in Pending
        /\ step = "resume" => seen = "ime"
        /\ step = "reschedule" => c.state = "SCHEDULED"
        /\ step = "store" /\ c.state = "SUCCEEDED" /\ c.id \in Managed =>
             \/ seen \notin {"absent", "ime"}
             \/ stored = [id |-> c.id, state |-> "SUCCEEDED"]
    BY <1>3, HandleStepGrounds
  <2>3. Enabled(c) \in SUBSET {"drain", "schedule"} BY EnabledType
  <2> HIDE DEF step
  <2>4. CASE step = "idle"
    BY <2>1, <2>4, <1>1, <1>2, PassEnds DEF IInv, TypeOK
  <2>5. CASE step # "idle"
    <3>1. pc \in Reading BY <1>2 DEF Reading
    <3>2. ev' \in [Event -> [state : States \cup {"none"}, window : Windows]] /\ ev' = ev /\ UNCHANGED finished
      BY <1>2 DEF IInv, TypeOK, oci
    <3>3. step \in {"detail", "reschedule", "drain", "resume", "store"} BY <2>2, <2>5
    <3>4. QED BY <3>1, <3>2, <3>3, <2>1, <2>2, <2>3, <1>1, <1>2, <1>4, PassGoesOn
  <2>6. QED BY <2>4, <2>5
<1>5. CASE Handle(copy)
  BY <1>5, <1>4, <1>3, <1>2 DEF IInv, Grounds
<1>6. CASE Handle(Snapshot(copy.id, copy.id \in Detailed))
  <2>0. (copy.id \in Detailed) \in BOOLEAN OBVIOUS
  <2>1. Snapshot(copy.id, copy.id \in Detailed) \in Copy BY <2>0, <1>3, SnapshotType DEF IInv
  <2>2. /\ Snapshot(copy.id, copy.id \in Detailed).id = copy.id
        /\ Snapshot(copy.id, copy.id \in Detailed).state = ev[copy.id].state
    BY DEF Snapshot
  <2>3. QED BY <1>6, <2>1, <2>2, <1>4
<1>7. QED BY <1>5, <1>6 DEF Detail

LEMMA RescheduleStep == ASSUME IInv, Reschedule PROVE IInv'
<1>1. faults' \in 0..MaxFaults BY FailsType DEF IInv, TypeOK, Reschedule
<1>2. UNCHANGED <<finished, slurm, sick, script, stored, ops>> /\ pc = "reschedule" BY DEF Reschedule
<1>3. copy \in Copy /\ copy.id \in Event /\ seen \in Info /\ copy.state = "SCHEDULED" /\ may \in SUBSET {"drain", "schedule"}
  BY <1>2 DEF IInv, TypeOK, Copy, Grounds
<1> DEFINE c == [copy EXCEPT !.window = "near", !.detailed = copy.id \in Detailed]
           step == SlurmStep(c, may)
<1>4. CASE GoTo("idle", copy, may) /\ UNCHANGED ev
  BY <1>1, <1>2, <1>4, PassEnds DEF IInv, TypeOK, oci
<1>5. CASE ev' = [ev EXCEPT ![copy.id].window = "near"] /\ GoTo(step, c, may)
  <2>0. (copy.id \in Detailed) \in BOOLEAN /\ "near" \in Windows BY DEF Windows
  <2>1. c \in Copy /\ c.state = "SCHEDULED" BY <2>0, <1>3 DEF Copy
  <2>2. /\ step \in {"idle", "drain", "resume", "store"}
        /\ step = "drain" => seen \in {"up", "healthcheck"} /\ c.state \in Pending
        /\ step = "resume" => seen = "ime"
    BY <1>3, SlurmStepGrounds
  <2>3. ev' \in [Event -> [state : States \cup {"none"}, window : Windows]]
    BY <1>5 DEF IInv, TypeOK, Windows
  <2> HIDE DEF c, step
  <2>4. CASE step = "idle"
    <3>1. pc' = "idle" /\ seen' = "absent" /\ copy' = NoEvent /\ may' = {} /\ touched' = FALSE
      BY <1>5, <2>4 DEF GoTo
    <3>2. TypeOK' BY <3>1, <2>3, <1>1, <1>2 DEF IInv, TypeOK, Info, Slurm
    <3>3. Fresh' /\ Grounds' /\ Resumed' BY <3>1 DEF Fresh, Grounds, Resumed, Reading
    <3>4. QED BY <3>2, <3>3 DEF IInv
  <2>5. CASE step # "idle"
    <3>1. pc \in Reading BY <1>2 DEF Reading
    <3>2. step \in {"detail", "reschedule", "drain", "resume", "store"} BY <2>2, <2>5
    <3>3. QED BY <3>1, <3>2, <2>1, <2>2, <2>3, <1>1, <1>2, <1>3, <1>5, PassGoesOn
  <2>6. QED BY <2>4, <2>5
<1>6. QED BY <1>4, <1>5 DEF Reschedule

(* The one step that changes Slurm: afterwards nothing of the pass relies on *)
(* what it read.                                                             *)
LEMMA UpdateSlurmStep == ASSUME IInv, UpdateSlurm PROVE IInv'
<1>1. faults' \in 0..MaxFaults BY FailsType DEF IInv, TypeOK, UpdateSlurm
<1>2. UNCHANGED <<oci, sick, script, stored, ops>> /\ pc \in {"drain", "resume"} BY DEF UpdateSlurm
<1>3. CASE GoTo("idle", copy, may) /\ UNCHANGED slurm
  BY <1>1, <1>2, <1>3, PassEnds DEF IInv, TypeOK
<1>4. CASE GoTo("store", copy, may) /\ slurm' = IF pc = "drain" THEN "ime" ELSE "up"
  <2>1. pc' = "store" /\ copy' = copy /\ may' = may /\ seen' = seen /\ touched' = touched
    BY <1>4 DEF GoTo
  <2>2. TypeOK' BY <2>1, <1>1, <1>2, <1>4 DEF IInv, TypeOK, oci, Slurm
  <2>3. Fresh' BY <2>1 DEF Fresh, Reading
  <2>4. Grounds' BY <2>1, <1>2 DEF IInv, Grounds, oci
  <2>5. Resumed' BY <2>1, <1>2, <1>4 DEF IInv, Grounds, Resumed, Pending
  <2>6. QED BY <2>2, <2>3, <2>4, <2>5 DEF IInv
<1>5. QED BY <1>3, <1>4 DEF UpdateSlurm

LEMMA StoreStep == ASSUME IInv, Store PROVE IInv'
<1>1. faults' \in 0..MaxFaults BY FailsType DEF IInv, TypeOK, Store
<1>2. UNCHANGED <<oci, slurm, sick, script, ops>> /\ pc = "store" /\ GoTo("idle", copy, may) BY DEF Store
<1>3. copy \in Copy BY <1>2 DEF IInv, TypeOK
<1>4. stored' \in [id : Event \cup {NoEvent}, state : States \cup {"none"}]
  BY <1>3 DEF IInv, TypeOK, Store, Copy
<1>5. QED BY <1>1, <1>2, <1>4, PassEnds DEF IInv, TypeOK

LEMMA CrashStep == ASSUME IInv, Crash PROVE IInv'
<1>1. faults' \in 0..MaxFaults BY FailsType DEF IInv, TypeOK, Crash
<1>2. QED BY <1>1, PassEnds DEF IInv, TypeOK, Crash

(* The inductive invariant: types, what the pass still knows of Slurm, the   *)
(* grounds of each step, and that a success it is about to record has been   *)
(* acted upon.                                                               *)
THEOREM Inductive == Spec => []IInv
<1>1. IInv /\ [Next]_vars => IInv'
  <2> SUFFICES ASSUME IInv, [Next]_vars PROVE IInv' OBVIOUS
  <2>1. CASE \E e \in Event : Announce(e) \/ Approach(e) \/ Lapse(e) \/ Proceed(e) \/ End(e)
    BY <2>1, CloudStep
  <2>2. CASE (\E s \in {"absent", "up", "other"} : Others(s)) \/ Passive \/ ScriptReads \/ ScriptActs
    BY <2>2, OthersStep
  <2>3. CASE Service
    BY <2>3, ReadSlurmStep, ListStep, DetailStep, RescheduleStep, UpdateSlurmStep, StoreStep DEF Service
  <2>4. CASE Crash BY <2>4, CrashStep
  <2>5. CASE UNCHANGED vars
    BY <2>5 DEF IInv, TypeOK, Fresh, Grounds, Resumed, vars, oci, node, pass
  <2>6. QED BY <2>1, <2>2, <2>3, <2>4, <2>5 DEF Next
<1>2. QED BY <1>1, Initially, PTL DEF Spec

(* Every variable keeps its type, for all events, policies and bounds.       *)
THEOREM TypeCorrect == Spec => []TypeOK
<1>1. IInv => TypeOK BY DEF IInv
<1>2. QED BY <1>1, Inductive, PTL

(* Whatever events a node has and whatever maintenance.json says, a pass     *)
(* overwrites somebody else's drain only when it was set behind its back.    *)
THEOREM ForeignDrainSafe == Spec => []ForeignDrainKept
<1>1. IInv => ForeignDrainKept
  BY DEF IInv, Grounds, Fresh, Reading, Slurm, ForeignDrainKept
<1>2. QED BY <1>1, Inductive, PTL

(* Whatever events, policy and failures, a pass records the success of a     *)
(* managed event over a drain for maintenance only when Slurm withheld the   *)
(* reason of the drain from it.                                              *)
THEOREM SuccessResumes == Spec => ResumedBeforeStored
<1>1. IInv /\ [Next]_vars =>
        [pc = "store" /\ copy.id \in Managed /\ copy.state = "SUCCEEDED" /\ stored' # stored
           => slurm # "ime" \/ seen = "unknown"]_vars
  <2> SUFFICES ASSUME IInv, [Next]_vars, pc = "store", copy.id \in Managed,
                      copy.state = "SUCCEEDED", stored' # stored
               PROVE  slurm # "ime" \/ seen = "unknown"
    OBVIOUS
  <2>1. Store
    BY DEF Next, vars, Service, Announce, Approach, Lapse, Proceed, End, Others, Passive, ScriptReads,
           ScriptActs, ReadSlurm, List, Detail, Reschedule, UpdateSlurm, Crash
  <2>2. stored' = [id |-> copy.id, state |-> "SUCCEEDED"]
    BY <2>1 DEF Store, IInv, Grounds
  <2>3. QED BY <2>2 DEF IInv, Resumed
<1>2. QED BY <1>1, Inductive, PTL DEF Spec, ResumedBeforeStored

=============================================================================
