------------------------- MODULE PassiveCheckProofs -------------------------
(* A pass of the health checks implements HealthVerdict: for every host, and *)
(* however it changes meanwhile, the gravest finding decides.                *)
EXTENDS PassiveCheck, FiniteSetTheorems, TLAPS

(* No check asks for anything but an action, and none asks without a reason. *)
Reasoned(f) == f.ask \in Action /\ (f.ask # "None" => f.reasons # {})

LEMMA FoundIsReasoned ==
  ASSUME NEW condition, NEW reason, NEW ask \in Action
  PROVE  Reasoned(Found(condition, reason, ask))
BY DEF Found, Nothing, Action, Reasoned

LEMMA RemapAskIsAction ==
  ASSUME NEW gpus
  PROVE  RemapAsk(gpus) \in Action
BY DEF RemapAsk, Action

LEMMA IpsAreReasoned ==
  ASSUME NEW h, NEW o
  PROVE  Reasoned(CheckIps(h, o))
BY DEF CheckIps, Action, Reasoned

LEMMA FindingIsReasoned ==
  ASSUME NEW check \in Range(Checks) \ {"oca", "xids", "reset"}, NEW h, NEW o
  PROVE  Reasoned(FindingOf(check, h, o))
PROOF
  <1>1. {"None", "Wait_For_OCA", "Check_nhc_log", "Enable_Instance_RDMA_Plugins",
         "FabricManagerRestart", "Reboot", "Reset_GPU", "Terminate"} = Action
    BY DEF Action
  <1>2. /\ Reasoned(CheckPlugins(h)) /\ Reasoned(CheckVersion(h)) /\ Reasoned(CheckRttcc(h, o))
        /\ Reasoned(CheckEcc(h)) /\ Reasoned(CheckRemap(h)) /\ Reasoned(CheckCount(h))
    BY <1>1, FoundIsReasoned, RemapAskIsAction
       DEF CheckPlugins, CheckVersion, CheckRttcc, CheckEcc, CheckRemap, CheckCount
  <1>3. /\ Reasoned(CheckPcie(h)) /\ Reasoned(CheckBus(h)) /\ Reasoned(CheckLinks(h, o))
        /\ Reasoned(CheckRoutes(h, o)) /\ Reasoned(CheckSequence(h, o)) /\ Reasoned(CheckGid(h, o))
    BY <1>1, FoundIsReasoned
       DEF CheckPcie, CheckBus, CheckLinks, CheckRoutes, CheckSequence, CheckGid
  <1>4. /\ Reasoned(CheckMtu(h, o)) /\ Reasoned(CheckImex(h)) /\ Reasoned(CheckFlapping(h, o))
        /\ Reasoned(CheckWpa(h, o)) /\ Reasoned(CheckFabric(h)) /\ Reasoned(CheckPages(h))
    BY <1>1, FoundIsReasoned
       DEF CheckMtu, CheckImex, CheckFlapping, CheckWpa, CheckFabric, CheckPages
  <1>5. /\ Reasoned(CheckIps(h, o)) /\ Reasoned(CheckNvlink(h)) /\ Reasoned(CheckDcgmi(h))
        /\ Reasoned(CheckRocminfo(h)) /\ Reasoned(CheckNhc(h))
    BY <1>1, FoundIsReasoned, IpsAreReasoned
       DEF CheckNvlink, CheckDcgmi, CheckRocminfo, CheckNhc
  <1>6. Reasoned(Nothing) /\ Reasoned(CheckOca(h))
    BY <1>1, FoundIsReasoned DEF Nothing, Reasoned, CheckOca
  <1> QED
    BY <1>2, <1>3, <1>4, <1>5, <1>6 DEF FindingOf

LEMMA XidsAreReasoned ==
  ASSUME NEW x, NEW log, NEW boots,
         NEW reset \in {"None", ResetAsks(log, boots)}
  PROVE  Reasoned(SummarizeXids(x, reset))
BY DEF SummarizeXids, ResetAsks, ResetOrGiveUp, Action, Reasoned

(* recommended_action keeps the graver of two actions, whatever they are.    *)
LEMMA GraverWins ==
  ASSUME NEW a \in Action, NEW b \in Action
  PROVE  /\ RecommendedAction(a, b) \in {a, b} \cap Action
         /\ V!Weight(RecommendedAction(a, b)) = V!Graver(V!Weight(a), V!Weight(b))
         /\ V!Weight(a) \in 0..3
PROOF
  <1> DEFINE w(x) == V!Weight(x)
  <1>1. /\ w("Terminate") = 3
        /\ w("FabricManagerRestart") = 2 /\ w("Reboot") = 2 /\ w("Reset_GPU") = 2
        /\ w("Wait_For_OCA") = 1 /\ w("Check_nhc_log") = 1 /\ w("Enable_Instance_RDMA_Plugins") = 1
        /\ w("None") = 0
    BY DEF V!Weight
  <1>2. w(a) \in 0..3 /\ w(b) \in 0..3
    BY <1>1 DEF Action
  <1>3. RecommendedAction(a, b) \in {a, b} \cap Action
    BY DEF RecommendedAction, Action
  <1> HIDE DEF w
  <1>4. w(RecommendedAction(a, b)) = IF w(a) < w(b) THEN w(b) ELSE w(a)
    <2>1. CASE b = "None"
      BY <2>1, <1>1, <1>2 DEF RecommendedAction
    <2>2. CASE b = "Terminate" \/ a = "Terminate"
      BY <2>2, <1>1, <1>2 DEF RecommendedAction
    <2>3. CASE b \in {"FabricManagerRestart", "Reboot", "Reset_GPU"} /\ a # "Terminate"
      <3>1. RecommendedAction(a, b) = b
        BY <2>3 DEF RecommendedAction
      <3> QED
        BY <3>1, <2>3, <1>1 DEF Action
    <2>4. CASE b \in {"Wait_For_OCA", "Check_nhc_log", "Enable_Instance_RDMA_Plugins"} /\ a # "Terminate"
      <3>1. CASE a \in {"FabricManagerRestart", "Reboot", "Reset_GPU"}
        <4>1. RecommendedAction(a, b) = a
          BY <2>4, <3>1 DEF RecommendedAction
        <4> QED
          BY <4>1, <2>4, <3>1, <1>1
      <3>2. CASE a \in {"None", "Wait_For_OCA", "Check_nhc_log", "Enable_Instance_RDMA_Plugins"}
        <4>1. w(a) \in 0..1 /\ w(b) = 1
          BY <2>4, <3>2, <1>1
        <4>2. RecommendedAction(a, b) = b \/ (RecommendedAction(a, b) = a /\ w(a) = 1)
          BY <2>4, <3>2, <1>1 DEF RecommendedAction
        <4> QED
          BY <4>1, <4>2
      <3> QED
        BY <2>4, <3>1, <3>2 DEF Action
    <2> QED
      BY <2>1, <2>2, <2>3, <2>4 DEF Action
  <1> QED
    BY <1>2, <1>3, <1>4 DEF w, V!Graver

(* Until it is published, the action weighs as much as the gravest finding,  *)
(* and an action has a reason.                                               *)
IInv ==
  /\ action \in Action
  /\ worst = V!Weight(action)
  /\ action # "None" => reasons # {}
  /\ step \in Nat \ {0} /\ (step <= Len(Checks) + 1 => record = Unpublished)

LEMMA ConcludeFinds ==
  ASSUME IInv, NEW f, Reasoned(f), step <= Len(Checks), Conclude(f)
  PROVE  IInv' /\ V!Next
PROOF
  <1> USE DEF Conclude
  <1>1. f.ask \in Action /\ (f.ask # "None" => f.reasons # {})
    BY DEF Reasoned
  <1>2. action \in Action /\ worst = V!Weight(action)
    BY DEF IInv
  <1>3. action' \in {action, f.ask} \cap Action /\ V!Weight(action') = worst'
    BY <1>1, <1>2, GraverWins
  <1>4. Len(Checks) = 26
    BY DEF Checks
  <1>5. record = Unpublished /\ record' = record /\ step' = step + 1 /\ step \in Nat
    BY <1>4 DEF IInv
  <1>6. action' # "None" => reasons' # {}
    BY <1>1, <1>3 DEF IInv
  <1>7. IInv'
    BY <1>3, <1>4, <1>5, <1>6 DEF IInv
  <1>8. V!Find(f.ask)
    <2>1. record.recommendation = "none" /\ record'.recommendation = record.recommendation
      BY <1>5 DEF Unpublished
    <2> QED
      BY <2>1, <1>1, <1>3 DEF V!Find
  <1>9. f.ask \in V!Action
    BY <1>1 DEF V!Action, Action
  <1> QED
    BY <1>7, <1>8, <1>9 DEF V!Next

LEMMA StepFinds ==
  ASSUME IInv, [Next]_vars
  PROVE  IInv' /\ [V!Next]_(V!vars)
PROOF
  <1> DEFINE Same == UNCHANGED <<action, worst, record>>
  <1>0. Len(Checks) = 26 /\ Range(Checks) = {Checks[i] : i \in 1..26}
    BY DEF Checks, Range
  <1>s. ASSUME Same, UNCHANGED reasons, step' \in Nat \ {0}, step' >= step
        PROVE  IInv' /\ [V!Next]_(V!vars)
    BY <1>s, <1>0 DEF IInv, V!vars
  <1>1. CASE Change
    BY <1>1, <1>s DEF Change, Become, IInv
  <1>2. CASE AskOca
    <2>1. Reasoned(CheckOca(host))
      BY FoundIsReasoned DEF CheckOca, Action
    <2> QED
      BY <1>2, <2>1, ConcludeFinds DEF AskOca, At
  <1>3. CASE Check
    <2>1. step \in 1..26
      BY <1>3, <1>0 DEF Check, IInv
    <2>2. Checks[step] \in Range(Checks) \ {"oca", "xids", "reset"}
      BY <1>3, <1>0, <2>1 DEF Check
    <2> QED
      BY <1>3, <2>2, FindingIsReasoned, ConcludeFinds DEF Check
  <1>4. CASE ScanXids
    BY <1>4, <1>s DEF ScanXids, IInv
  <1>5. CASE DecideReset
    <2> DEFINE reset == IF xids'.reset = {} THEN "None" ELSE ResetAsks(Dmesg, host.boots)
    <2>1. reset \in {"None", ResetAsks(Dmesg, host.boots)}
      OBVIOUS
    <2>2. Reasoned(SummarizeXids(xids', reset))
      BY <2>1, XidsAreReasoned
    <2> QED
      BY <1>5, <2>2, ConcludeFinds DEF DecideReset, At
  <1>6. CASE Publish
    <2>1. IInv'
      BY <1>6, <1>0 DEF Publish, IInv
    <2>2. record.recommendation = "none"
      BY <1>6 DEF Publish, IInv, Unpublished
    <2>3. record'.recommendation = Verdict
      BY <1>6 DEF Publish
    <2>4. V!Publish
      BY <1>6, <2>2, <2>3 DEF Publish, V!Publish, Verdict
    <2> QED
      BY <2>1, <2>4 DEF V!Next
  <1>7. CASE Die
    BY <1>7, <1>s DEF Die, IInv
  <1>8. CASE UNCHANGED vars
    BY <1>8, <1>s DEF vars, IInv
  <1> QED
    BY <1>1, <1>2, <1>3, <1>4, <1>5, <1>6, <1>7, <1>8 DEF Next

(* Every pass on every host is a pass of HealthVerdict.                      *)
THEOREM PassiveImplements == Spec => Implements
PROOF
  <1>1. Init => IInv /\ V!Init
    BY DEF Init, IInv, V!Init, V!Weight, Action, Unpublished, Checks
  <1>2. IInv /\ [Next]_vars => IInv' /\ [V!Next]_(V!vars)
    BY StepFinds
  <1> QED
    BY <1>1, <1>2, PTL DEF Spec, Implements, V!Spec

(* Once something asked for a termination, nothing else can be recommended;  *)
(* and nothing is recommended without a reason.                              *)
GravestWins ==
  /\ worst = 3 => action = "Terminate"
  /\ action # "None" => reasons # {}

THEOREM GravestAlwaysWins == Spec => []GravestWins
PROOF
  <1>1. Init => IInv
    BY DEF Init, IInv, V!Weight, Action, Checks
  <1>2. IInv /\ [Next]_vars => IInv'
    BY StepFinds
  <1>3. IInv => GravestWins
    BY DEF IInv, GravestWins, Action, V!Weight
  <1> QED
    BY <1>1, <1>2, <1>3, PTL DEF Spec

(* The type invariant of the pass.                                           *)
THEOREM PassiveTypeOK == Spec => []TypeOK
PROOF
  <1> DEFINE Shape == {"shape", "planes", "trouble", "unfinished", "smi", "gpus", "links", "log", "mute", "boots"}
             T == /\ DOMAIN host = Shape /\ TypeOK
                  /\ step <= Len(Checks) + 1 => record = Unpublished
  <1>0. Len(Checks) = 26
    BY DEF Checks
  <1>1. Init => T
    BY <1>0, ParameterAssumption DEF Init, TypeOK, NoXids, Action, Unpublished
  <1>2. T /\ IInv /\ IInv' /\ [Next]_vars => T'
    <2> SUFFICES ASSUME T, IInv, IInv', [Next]_vars PROVE T'
      OBVIOUS
    <2>w. worst' \in 0..3 /\ action' \in Action
      BY GraverWins DEF IInv
    <2>1. CASE Change
      <3>1. PICK h : Become(h) /\ DOMAIN h = Shape /\ h.smi \in Smi /\ h.mute \in BOOLEAN /\ h.planes \in Nat
        <4> DEFINE P(h) == Become(h) /\ DOMAIN h = Shape /\ h.smi \in Smi /\ h.mute \in BOOLEAN /\ h.planes \in Nat
        <4>0. DOMAIN host = Shape /\ host.smi \in Smi /\ host.mute \in BOOLEAN /\ host.planes \in Nat
          BY DEF TypeOK
        <4>1. \A t : Become([host EXCEPT !.trouble = @ \cup {t}]) => P([host EXCEPT !.trouble = @ \cup {t}])
          BY <4>0
        <4>2. \A l : Become([host EXCEPT !.log = Append(@, l)]) => P([host EXCEPT !.log = Append(@, l)])
          BY <4>0
        <4>3. Become([host EXCEPT !.log = Tail(@)]) => P([host EXCEPT !.log = Tail(@)])
          BY <4>0
        <4>4. Become([host EXCEPT !.smi = "hangs"]) => P([host EXCEPT !.smi = "hangs"])
          BY <4>0 DEF Smi
        <4>5. Become([host EXCEPT !.mute = TRUE]) => P([host EXCEPT !.mute = TRUE])
          BY <4>0
        <4>6. Become([host EXCEPT !.planes = 1]) => P([host EXCEPT !.planes = 1])
          BY <4>0
        <4>7. \E h : P(h)
          <5> HIDE DEF P
          <5> QED
            BY <2>1, <4>1, <4>2, <4>3, <4>4, <4>5, <4>6 DEF Change
        <4> QED
          BY <4>7
      <3> QED
        BY <3>1, <1>0, ParameterAssumption DEF Become, TypeOK
    <2>2. CASE AskOca
      BY <2>2, <2>w, <1>0 DEF AskOca, Conclude, TypeOK, At, OcaCompleted
    <2>3. CASE Check
      BY <2>3, <2>w, <1>0 DEF Check, Conclude, TypeOK
    <2>4. CASE ScanXids
      <3>1. xids'.exhausted \in BOOLEAN
        BY <2>4 DEF ScanXids, CheckXids
      <3> QED
        BY <2>4, <3>1, <2>w, <1>0 DEF ScanXids, TypeOK, At
    <2>5. CASE DecideReset
      <3>1. xids'.exhausted \in BOOLEAN
        BY <2>5 DEF DecideReset, NoXids, TypeOK
      <3> QED
        BY <2>5, <3>1, <2>w, <1>0 DEF DecideReset, Conclude, TypeOK, At
    <2>6. CASE Publish
      BY <2>6, <2>w, <1>0 DEF Publish, TypeOK, Verdict, Action
    <2>7. CASE Die
      BY <2>7, <1>0 DEF Die, TypeOK
    <2>8. CASE UNCHANGED vars
      BY <2>8 DEF vars, TypeOK
    <2> QED
      BY <2>1, <2>2, <2>3, <2>4, <2>5, <2>6, <2>7, <2>8 DEF Next
  <1>3. Init => IInv
    BY DEF Init, IInv, V!Weight, Action, Checks
  <1>4. IInv /\ [Next]_vars => IInv'
    BY StepFinds
  <1> QED
    BY <1>1, <1>2, <1>3, <1>4, PTL DEF Spec

(***************************************************************************)
(* What the properties of the published record rest on.                    *)
(***************************************************************************)

Fields == {"shape", "planes", "trouble", "unfinished", "smi", "gpus", "links", "log", "mute", "boots"}
Boots  == Seq([hours : Nat, future : BOOLEAN, leap : BOOLEAN])

LEMMA CheckOrder ==
  /\ Len(Checks) = 26 /\ DOMAIN Checks = 1..26
  /\ Checks[1] = "oca" /\ Checks[8] = "pcie" /\ Checks[20] = "fabric"
  /\ \A i \in 1..26 : /\ Checks[i] = "oca" => i = 1
                      /\ Checks[i] = "xids" => i = 17
                      /\ Checks[i] = "reset" => i = 18
  /\ Checks[17] = "xids" /\ Checks[18] = "reset"
PROOF
  BY DEF Checks

(* What h becomes of g while the pass runs.                                  *)
Later(g, h) ==
  /\ DOMAIN h = Fields
  /\ h.shape = g.shape /\ h.unfinished = g.unfinished /\ h.gpus = g.gpus /\ h.links = g.links /\ h.boots = g.boots
  /\ g.trouble \subseteq h.trouble
  /\ h.smi \in {g.smi, "hangs"} /\ h.planes \in {g.planes, 1}
  /\ h.mute \in BOOLEAN /\ (g.mute => h.mute)

LEMMA LaterTransitive ==
  ASSUME NEW g, NEW h, NEW k, Later(g, h), Later(h, k)
  PROVE  Later(g, k)
PROOF
  BY DEF Later

LEMMA ChangeIsLater ==
  ASSUME DOMAIN host = Fields, host.mute \in BOOLEAN, Change
  PROVE  Later(host, host')
PROOF
  <1> USE DEF Later, Fields
  <1>1. ASSUME NEW t, host' = [host EXCEPT !.trouble = @ \cup {t}] PROVE Later(host, host')
    BY <1>1
  <1>2. ASSUME NEW l, host' = [host EXCEPT !.log = l] PROVE Later(host, host')
    BY <1>2
  <1>3. ASSUME host' = [host EXCEPT !.smi = "hangs"] PROVE Later(host, host')
    BY <1>3
  <1>4. ASSUME host' = [host EXCEPT !.mute = TRUE] PROVE Later(host, host')
    BY <1>4
  <1>5. ASSUME host' = [host EXCEPT !.planes = 1] PROVE Later(host, host')
    BY <1>5
  <1> QED
    BY <1>1, <1>2, <1>3, <1>4, <1>5 DEF Change, Become

(* The host is a later form of the one the pass began with, and the record,  *)
(* once published, is what the pass found.                                   *)
PassInv ==
  /\ action \in Action /\ (action # "None" => reasons # {})
  /\ worst = V!Weight(action)
  /\ step \in 1..28 /\ changes \in Nat
  /\ began \in Hosts /\ Later(began, host) /\ (changes = 0 => host = began)
  /\ Published => step = 28 /\ record = [recommendation |-> Verdict, status |-> Status(reasons)]

LEMMA PassInvInit == Init => PassInv
PROOF
  <1> SUFFICES ASSUME Init PROVE PassInv
    OBVIOUS
  <1>1. Later(began, host)
    BY ParameterAssumption DEF Init, Later, Fields
  <1>2. Init => IInv
    BY DEF Init, IInv, V!Weight, Action, Checks
  <1> QED
    BY <1>1, <1>2 DEF Init, PassInv, IInv, Published, Action

LEMMA PassInvStep == PassInv /\ IInv /\ IInv' /\ [Next]_vars => PassInv'
PROOF
  <1> SUFFICES ASSUME PassInv, IInv, IInv', [Next]_vars PROVE PassInv'
    OBVIOUS
  <1>0. /\ action' \in Action /\ (action' # "None" => reasons' # {}) /\ worst' = V!Weight(action')
        /\ (step' <= 27 => record' = Unpublished)
    BY CheckOrder DEF IInv
  <1>1. CASE Change
    <2>1. DOMAIN host = Fields /\ host.mute \in BOOLEAN
      BY DEF PassInv, Later
    <2>2. Later(began, host')
      BY <1>1, <2>1, ChangeIsLater, LaterTransitive DEF PassInv
    <2>3. /\ changes' = changes + 1 /\ step' = step /\ step <= 26
          /\ UNCHANGED <<began, action, reasons, worst, record>>
      BY <1>1, CheckOrder DEF Change, Become
    <2>4. ~Published'
      BY <1>0, <2>3 DEF Published, PassInv
    <2> QED
      BY <1>0, <2>2, <2>3, <2>4 DEF PassInv
  <1>2. CASE AskOca \/ Check \/ ScanXids \/ DecideReset
    <2>1. step <= 26 /\ step' = step + 1 /\ UNCHANGED <<host, began, record, changes>>
      BY <1>2, CheckOrder DEF AskOca, Check, ScanXids, DecideReset, Conclude, At
    <2>2. ~Published'
      BY <1>0, <2>1 DEF Published, PassInv
    <2> QED
      BY <1>0, <2>1, <2>2 DEF PassInv
  <1>3. CASE Publish
    <2>1. /\ step = 27 /\ step' = 28 /\ UNCHANGED <<host, began, action, reasons, worst, changes>>
          /\ record' = [recommendation |-> Verdict, status |-> Status(reasons)]
      BY <1>3, CheckOrder DEF Publish
    <2>2. Verdict' = Verdict
      BY <2>1 DEF Verdict
    <2>3. Status(reasons') = Status(reasons)
      BY <2>1
    <2> QED
      BY <1>0, <2>1, <2>2, <2>3 DEF PassInv
  <1>4. CASE Die
    <2>1. step = 27 /\ step' = 28 /\ UNCHANGED <<host, began, action, reasons, worst, record, changes>>
      BY <1>4, CheckOrder DEF Die
    <2>2. ~Published /\ ~Published'
      BY <2>1 DEF PassInv, Published
    <2> QED
      BY <1>0, <2>1, <2>2 DEF PassInv
  <1>5. CASE UNCHANGED vars
    BY <1>5 DEF vars, PassInv, Published, Verdict
  <1> QED
    BY <1>1, <1>2, <1>3, <1>4, <1>5 DEF Next

THEOREM PassInvariant == Spec => [](IInv /\ PassInv)
PROOF
  <1>1. Init => IInv
    BY DEF Init, IInv, V!Weight, Action, Checks
  <1>2. IInv /\ [Next]_vars => IInv'
    BY StepFinds
  <1> QED
    BY <1>1, <1>2, PassInvInit, PassInvStep, PTL DEF Spec

(***************************************************************************)
(* Reboots.                                                                *)
(***************************************************************************)

LEMMA RebootsAreNumbered == ASSUME NEW b \in Boots PROVE IsFiniteSet(DOMAIN Reboots(b))
PROOF
  <1>1. CASE b = <<>>
    <2>1. DOMAIN Reboots(b) = {}
      BY <1>1 DEF Reboots
    <2> QED
      BY <2>1, FS_EmptySet
  <1>2. CASE b # <<>>
    <2>1. Len(b) - 1 \in Nat /\ DOMAIN SubSeq(b, 1, Len(b) - 1) = 1..(Len(b) - 1)
      BY <1>2 DEF Boots
    <2>2. DOMAIN Reboots(b) = 1..(Len(b) - 1)
      BY <1>2, <2>1 DEF Reboots, Front
    <2> QED
      BY <2>1, <2>2, FS_Interval
  <1> QED
    BY <1>1, <1>2

\* A reboot becomes a termination exactly when the clock, or a date without its year, says that the host was
\* rebooted too often: however many boots there are, the two counts differ only by misread dates.
THEOREM RebootsEscalate == Spec => []EscalatedByReboots
PROOF
  <1>1. IInv /\ PassInv => EscalatedByReboots
    <2> SUFFICES ASSUME PassInv, Published, action = "Reboot"
                 PROVE  RebootedTooOften(host.boots) <=> OftenRebooted \/ Misdated
      BY DEF EscalatedByReboots, PassInv, Verdict
    <2> DEFINE D == DOMAIN Reboots(host.boots)
               C(n) == {i \in D : host.boots[i].future \/ host.boots[i].hours <= n}
    <2>1. host.boots \in Boots
      BY ParameterAssumption DEF PassInv, Later, Boots
    <2>2. IsFiniteSet(D)
      BY <2>1, RebootsAreNumbered
    <2>3. CASE Misdated
      <3>1. PICK i \in D : host.boots[i].future
        BY <2>3 DEF Misdated
      <3>2. IsFiniteSet(C(2)) /\ i \in C(2)
        BY <3>1, <2>2, FS_Subset
      <3>3. Cardinality(C(2)) \in Nat /\ Cardinality(C(2)) # 0
        BY <3>2, FS_CardinalityType, FS_EmptySet
      <3> QED
        BY <2>3, <3>3 DEF RebootedTooOften, CountWithin
    <2>4. CASE ~Misdated
      <3>1. \A n : CountWithin(host.boots, n) = ReallyWithin(n)
        BY <2>4 DEF Misdated, CountWithin, ReallyWithin
      <3> QED
        BY <2>4, <3>1 DEF RebootedTooOften, OftenRebooted
    <2> QED
      BY <2>3, <2>4
  <1> QED
    BY <1>1, PassInvariant, PTL

(***************************************************************************)
(* What explains the record.                                               *)
(***************************************************************************)

LEMMA StatusSpeaks == ASSUME NEW rs, rs # {} PROVE Status(rs) # {}
PROOF
  <1>1. DOMAIN RdmaReasons = 1..9
    BY DEF RdmaReasons
  <1>2. CASE rs \ Range(RdmaReasons) # {}
    BY <1>2 DEF Status
  <1>3. CASE rs \ Range(RdmaReasons) = {}
    <2> DEFINE Said(i) == RdmaReasons[i] \in rs
    <2>1. \E i \in 1..9 : Said(i)
      BY <1>1, <1>3 DEF Range
    <2> HIDE DEF Said
    <2>2. \E i \in 1..9 : Said(i) /\ \A k \in 1..i-1 : ~Said(k)
      BY <2>1
    <2> QED
      BY <1>1, <2>2 DEF Said, Status, Foremost
  <1> QED
    BY <1>2, <1>3

(* A host without troubles that the program knows.                           *)
Sound(h) == h = Well(h) /\ h.unfinished = {} /\ Known(h)

LEMMA SoundFields ==
  ASSUME NEW h, DOMAIN h = Fields, Sound(h)
  PROVE  /\ h.trouble = {} /\ h.smi = "works" /\ h.log = <<>> /\ h.unfinished = {}
         /\ Range(h.gpus) \subseteq {"fine"} /\ Range(h.links) \subseteq {"fine"}
         /\ h.shape # "MI355X-v0.8" \/ IsMultiplanar(h)
PROOF
  <1>1. /\ Well(h).trouble = {} /\ Well(h).smi = "works" /\ Well(h).log = <<>>
        /\ Well(h).gpus = [i \in DOMAIN h.gpus |-> "fine"] /\ Well(h).links = [i \in DOMAIN h.links |-> "fine"]
    BY DEF Well, Fields
  <1>2. \A S : Range([i \in S |-> "fine"]) \subseteq {"fine"}
    BY DEF Range
  <1> QED
    BY <1>1, <1>2 DEF Sound, Known

LEMMA SoundFindsNothing ==
  ASSUME NEW h, DOMAIN h = Fields, Sound(h), NEW o, NEW check
  PROVE  FindingOf(check, h, o) = Nothing
PROOF
  <1> /\ h.trouble = {} /\ h.smi = "works" /\ h.unfinished = {}
      /\ Range(h.gpus) \subseteq {"fine"} /\ Range(h.links) \subseteq {"fine"}
      /\ h.shape # "MI355X-v0.8" \/ IsMultiplanar(h)
    BY SoundFields
  <1> USE DEF Found, Has
  <1>1. /\ CheckOca(h) = Nothing /\ CheckPlugins(h) = Nothing /\ CheckVersion(h) = Nothing
        /\ CheckRttcc(h, o) = Nothing /\ CheckEcc(h) = Nothing /\ CheckRemap(h) = Nothing
    BY DEF CheckOca, OcaCompleted, CheckPlugins, CheckVersion, CheckRttcc, CheckEcc, CheckRemap
  <1>2. /\ CheckCount(h) = Nothing /\ CheckPcie(h) = Nothing /\ CheckBus(h) = Nothing
        /\ CheckLinks(h, o) = Nothing /\ CheckRoutes(h, o) = Nothing /\ CheckSequence(h, o) = Nothing
    BY DEF CheckCount, CheckPcie, CheckBus, CheckLinks, CheckRoutes, CheckSequence
  <1>3. /\ CheckGid(h, o) = Nothing /\ CheckMtu(h, o) = Nothing /\ CheckImex(h) = Nothing
        /\ CheckFlapping(h, o) = Nothing /\ CheckWpa(h, o) = Nothing /\ CheckFabric(h) = Nothing
    BY DEF CheckGid, CheckMtu, CheckImex, CheckFlapping, CheckWpa, CheckFabric
  <1>4. /\ CheckPages(h) = Nothing /\ CheckNvlink(h) = Nothing /\ CheckDcgmi(h) = Nothing
        /\ CheckRocminfo(h) = Nothing /\ CheckNhc(h) = Nothing
    BY DEF CheckPages, CheckNvlink, CheckDcgmi, CheckRocminfo, CheckNhc
  <1>5. CheckIps(h, o) = Nothing
    BY DEF CheckIps, Nothing
  <1> QED
    BY <1>1, <1>2, <1>3, <1>4, <1>5 DEF FindingOf

LEMMA SilentLog == CheckXids(<<>>) = NoXids
PROOF
  <1>1. Range(<<>>) = {}
    BY DEF Range
  <1>2. CodesWith(<<>>, "critical") = {} /\ CodesWith(<<>>, "gpu_reset_reboot") = {}
    BY <1>1 DEF CodesWith
  <1> QED
    BY <1>1, <1>2 DEF CheckXids, NoXids

SoundInv == changes = 0 /\ Sound(host) => reasons = {} /\ action = "None" /\ oca /\ xids = NoXids

LEMMA SoundStep == PassInv /\ SoundInv /\ [Next]_vars => SoundInv'
PROOF
  <1> SUFFICES ASSUME PassInv, SoundInv, [Next]_vars, changes' = 0, Sound(host')
               PROVE  reasons' = {} /\ action' = "None" /\ oca' /\ xids' = NoXids
    BY DEF SoundInv
  <1>1. ~Change
    BY DEF Change, Become, PassInv
  <1>2. UNCHANGED <<host, changes>>
    BY <1>1 DEF Next, vars, AskOca, Check, ScanXids, DecideReset, Publish, Die, Conclude
  <1>3. Sound(host) /\ DOMAIN host = Fields /\ reasons = {} /\ action = "None" /\ oca /\ xids = NoXids
    BY <1>2 DEF SoundInv, PassInv, Later
  <1>4. ASSUME Conclude(Nothing) PROVE reasons' = {} /\ action' = "None"
    BY <1>3, <1>4 DEF Conclude, Nothing, RecommendedAction
  <1>5. CASE AskOca
    <2>1. OcaCompleted(host)
      BY <1>3 DEF Sound, OcaCompleted
    <2>2. CheckOca(host) = Nothing
      BY <2>1 DEF CheckOca, Found
    <2> QED
      BY <1>3, <1>4, <1>5, <2>1, <2>2 DEF AskOca
  <1>6. CASE Check
    <2>1. Conclude(FindingOf(Checks[step], host, oca)) /\ UNCHANGED <<oca, xids>>
      BY <1>6 DEF Check
    <2> QED
      BY <1>3, <1>4, <2>1, SoundFindsNothing
  <1>7. CASE ScanXids
    <2>1. Dmesg = <<>>
      BY <1>3, SoundFields DEF Dmesg
    <2> QED
      BY <1>3, <1>7, <2>1, SilentLog DEF ScanXids
  <1>8. CASE DecideReset
    <2>1. xids' = NoXids
      BY <1>3, <1>8 DEF DecideReset
    <2>2. SummarizeXids(NoXids, "None") = Nothing
      BY DEF SummarizeXids, NoXids, Nothing
    <2>4. xids'.reset = {}
      BY <2>1 DEF NoXids
    <2>3. Conclude(Nothing) /\ oca' = oca
      BY <1>8, <2>1, <2>2, <2>4 DEF DecideReset
    <2> QED
      BY <1>3, <1>4, <2>1, <2>3
  <1>9. CASE Publish \/ Die \/ UNCHANGED vars
    BY <1>3, <1>9 DEF Publish, Die, vars
  <1> QED
    BY <1>1, <1>5, <1>6, <1>7, <1>8, <1>9 DEF Next

\* Whatever is found of whatever host, the published record says why a node is to be repaired, and a host
\* without troubles that nothing happens to gets a clean one.
THEOREM RecordsAreExplained == Spec => []RecordIsExplained
PROOF
  <1>1. Init => SoundInv
    BY DEF Init, SoundInv
  <1>2. PassInv /\ SoundInv => RecordIsExplained
    <2> SUFFICES ASSUME PassInv, SoundInv, Published PROVE RecordIsExplained
      BY DEF RecordIsExplained
    <2>1. record = [recommendation |-> Verdict, status |-> Status(reasons)]
      BY DEF PassInv
    <2>2. Verdict # "Healthy" => action # "None"
      BY DEF Verdict
    <2>3. action # "None" => reasons # {}
      BY DEF PassInv
    <2>4. Sound(host) /\ changes = 0 => Verdict = "Healthy" /\ Status(reasons) = {}
      BY DEF SoundInv, Verdict, Status, Foremost
    <2> QED
      BY <2>1, <2>2, <2>3, <2>4, StatusSpeaks DEF RecordIsExplained, Sound
  <1> QED
    BY <1>1, <1>2, SoundStep, PassInvariant, PTL DEF Spec

(***************************************************************************)
(* Critical Xids.                                                          *)
(***************************************************************************)

(* A line asks for a termination, and none of its code for a reset.          *)
Condemned(log) ==
  \E i \in DOMAIN log :
    /\ IsXid(log[i]) /\ ActionOf(log[i]) = "critical"
    /\ \A j \in DOMAIN log :
         IsXid(log[j]) /\ log[j].code = log[i].code => ActionOf(log[j]) # "gpu_reset_reboot"

LEMMA CondemnedIsCritical == ASSUME NEW log, Condemned(log) PROVE CheckXids(log).critical # {}
PROOF
  <1>1. PICK i \in DOMAIN log :
          /\ IsXid(log[i]) /\ ActionOf(log[i]) = "critical"
          /\ \A j \in DOMAIN log :
               IsXid(log[j]) /\ log[j].code = log[i].code => ActionOf(log[j]) # "gpu_reset_reboot"
    BY DEF Condemned
  <1> DEFINE code == log[i].code
             seen == {ActionOf(l) : l \in {x \in Range(log) : IsXid(x) /\ x.code = code}}
             Top(s) == s \in seen \cup {NoAction} /\ \A t \in seen : Rank(t) <= Rank(s)
  <1>2. "critical" \in seen /\ "gpu_reset_reboot" \notin seen
    BY <1>1 DEF Range
  <1>3. /\ \A t : t # "gpu_reset_reboot" => Rank(t) \in 0..2 /\ (Rank(t) = 2 => t = "critical")
        /\ Rank("critical") = 2 /\ NoAction # "gpu_reset_reboot"
    BY DEF Rank, NoAction
  <1>4. Top("critical") /\ \A s : Top(s) => s = "critical"
    <2> HIDE DEF seen
    <2> QED
      BY <1>2, <1>3
  <1>5. SeverityOf(log, code) = CHOOSE s : Top(s)
    BY DEF SeverityOf
  <1>6. SeverityOf(log, code) = "critical"
    <2> HIDE DEF Top
    <2> QED
      BY <1>4, <1>5
  <1>7. code \in {l.code : l \in {x \in Range(log) : IsXid(x)}}
    BY <1>1 DEF Range
  <1> QED
    BY <1>6, <1>7 DEF CheckXids, CodesWith

Steady == /\ ~host.mute /\ host.log = began.log /\ changes < 2 /\ ~Unreadable(host.boots)
          /\ Condemned(host.log)

CondemnedInv == Steady => (step = 18 => xids.critical # {}) /\ (step > 18 => action = "Terminate")

LEMMA CondemnedStep == PassInv /\ CondemnedInv /\ [Next]_vars => CondemnedInv'
PROOF
  <1> SUFFICES ASSUME PassInv, CondemnedInv, [Next]_vars, Steady'
               PROVE  (step' = 18 => xids'.critical # {}) /\ (step' > 18 => action' = "Terminate")
    BY DEF CondemnedInv
  <1>0. step \in Nat
    BY DEF PassInv
  <1>1. Steady
    <2>1. CASE Change
      <3>1. changes' = changes + 1 /\ changes \in Nat /\ began' = began
        BY <2>1 DEF Change, Become, PassInv
      <3>2. changes = 0 /\ host = began
        BY <3>1 DEF Steady, PassInv
      <3>3. Later(host, host')
        BY <2>1, ChangeIsLater DEF PassInv, Later
      <3>4. ~host'.mute /\ host'.log = began.log /\ ~Unreadable(host'.boots) /\ Condemned(host'.log)
        BY <3>1 DEF Steady
      <3> QED
        BY <3>2, <3>3, <3>4 DEF Steady, Later
    <2>2. CASE ~Change
      <3>1. UNCHANGED <<host, began, changes>>
        BY <2>2 DEF Next, vars, AskOca, Check, ScanXids, DecideReset, Publish, Die, Conclude
      <3> QED
        BY <3>1 DEF Steady
    <2> QED
      BY <2>1, <2>2
  <1>2. (step = 18 => xids.critical # {}) /\ (step > 18 => action = "Terminate")
    BY <1>1 DEF CondemnedInv
  <1>3. Dmesg = host.log
    BY <1>1 DEF Dmesg, Steady
  <1>4. ASSUME NEW f, Conclude(f), action = "Terminate" PROVE action' = "Terminate"
    BY <1>4 DEF Conclude, RecommendedAction
  <1>5. CASE AskOca \/ Check
    <2>1. step # 17 /\ step # 18 /\ step' = step + 1 /\ \E f : Conclude(f)
      BY <1>5, CheckOrder DEF AskOca, Check, At, Conclude
    <2> QED
      BY <1>0, <1>2, <1>4, <2>1
  <1>6. CASE ScanXids
    <2>1. step = 17 /\ step' = 18 /\ xids' = CheckXids(host.log)
      BY <1>0, <1>3, <1>6, CheckOrder DEF ScanXids, At, PassInv
    <2> QED
      BY <1>1, <2>1, CondemnedIsCritical DEF Steady
  <1>7. CASE DecideReset
    <2>1. step = 18 /\ step' = 19
      BY <1>7, CheckOrder DEF DecideReset, At, Conclude, PassInv
    <2>2. XidsAt(host.log) # {}
      BY <1>1 DEF Steady, Condemned, XidsAt
    <2>3. ~ResetRaises(Dmesg, host.boots)
      BY <1>1, <1>3, <2>2 DEF ResetRaises, Steady
    <2>4. xids' = xids
      BY <1>7, <2>3 DEF DecideReset
    <2>5. PICK reset : Conclude(SummarizeXids(xids, reset))
      BY <1>7, <2>4 DEF DecideReset
    <2>6. SummarizeXids(xids, reset).ask = "Terminate"
      BY <1>2, <2>1 DEF SummarizeXids
    <2> QED
      BY <2>1, <2>5, <2>6 DEF Conclude, RecommendedAction
  <1>8. CASE Change \/ Publish \/ Die \/ UNCHANGED vars
    <2>1. UNCHANGED <<action, xids>> /\ (step' = step \/ (step = 27 /\ step' = 28))
      BY <1>8, CheckOrder DEF Change, Become, Publish, Die, vars
    <2>2. CASE step' = step
      BY <1>2, <2>1, <2>2
    <2>3. CASE step = 27 /\ step' = 28
      BY <1>2, <2>1, <2>3
    <2> QED
      BY <2>1, <2>2, <2>3
  <1> QED
    BY <1>5, <1>6, <1>7, <1>8 DEF Next

\* Whatever the catalog says of whatever other lines the kernel logged: a critical Xid that no reset outranks
\* ends in a termination, also when the decision about resets of other codes fails.
THEOREM CriticalTerminates == Spec => []CriticalXidTerminates
PROOF
  <1>1. Init => CondemnedInv
    BY DEF Init, CondemnedInv
  <1>2. PassInv /\ CondemnedInv => CriticalXidTerminates
    <2> SUFFICES ASSUME PassInv, CondemnedInv, Published, Steady PROVE record.recommendation = "Terminate"
      BY DEF CriticalXidTerminates, Steady, Condemned
    <2>1. action = "Terminate" /\ record.recommendation = Verdict
      BY DEF PassInv, CondemnedInv
    <2> QED
      BY <2>1 DEF Verdict
  <1> QED
    BY <1>1, <1>2, CondemnedStep, PassInvariant, PTL DEF Spec

(***************************************************************************)
(* Several troubles.                                                       *)
(***************************************************************************)

Heft(f) == V!Weight(f.ask)

LEMMA Weights ==
  /\ V!Weight("Terminate") = 3 /\ V!Weight("None") = 0
  /\ \A a \in {"FabricManagerRestart", "Reboot", "Reset_GPU"} : V!Weight(a) = 2
  /\ \A a : V!Weight(a) \in 0..3
PROOF
  BY DEF V!Weight

(* f asks for nothing graver than k.                                         *)
Less(f, k) == Heft(f) <= Heft(k)

LEMMA LessFacts == (\A k : Less(Nothing, k)) /\ \A f : Less(f, f)
PROOF
  <1>1. \A f : Heft(f) \in 0..3
    BY Weights DEF Heft
  <1>2. Heft(Nothing) = 0
    BY Weights DEF Heft, Nothing
  <1> QED
    BY <1>1, <1>2 DEF Less

BadLinks(h) == "unreadable" \notin Range(h.links) /\ Range(h.links) \cap {"error", "down", "bad signal"} # {}

(* g is h with fewer of its troubles, or with nvidia-smi at work: each check *)
(* finds as grave a thing on h, but for three that then cannot ask.          *)
Milder(g, h) ==
  /\ g.shape = h.shape /\ g.planes = h.planes /\ g.unfinished = h.unfinished /\ g.trouble \subseteq h.trouble
  /\ g.smi = h.smi \/ g.smi = "works"
  /\ BadLinks(g) => BadLinks(h)
  /\ Less(CheckRemap(g), CheckRemap(h))
  /\ h.smi \in Smi

LEMMA MilderFindsLess ==
  ASSUME NEW g, NEW h, Milder(g, h), NEW o \in BOOLEAN, NEW c \in Range(Checks)
  PROVE  \/ Less(FindingOf(c, g, o), FindingOf(c, h, o))
         \/ g.smi # h.smi /\ h.smi # "works" /\ Heft(FindingOf(c, g, o)) <= 2
PROOF
  <1> USE LessFacts DEF Milder, Has, IsMultiplanar, Railed, Found
  <1>1. /\ Less(CheckOca(g), CheckOca(h)) /\ Less(CheckPlugins(g), CheckPlugins(h))
        /\ Less(CheckVersion(g), CheckVersion(h)) /\ Less(CheckRttcc(g, o), CheckRttcc(h, o))
    BY DEF CheckOca, OcaCompleted, CheckPlugins, CheckVersion, CheckRttcc
  <1>2. /\ Less(CheckPcie(g), CheckPcie(h)) /\ Less(CheckBus(g), CheckBus(h))
        /\ Less(CheckLinks(g, o), CheckLinks(h, o))
    BY DEF CheckPcie, CheckBus, CheckLinks, BadLinks
  <1>3. /\ Less(CheckRoutes(g, o), CheckRoutes(h, o)) /\ Less(CheckSequence(g, o), CheckSequence(h, o))
        /\ Less(CheckGid(g, o), CheckGid(h, o)) /\ Less(CheckMtu(g, o), CheckMtu(h, o))
    BY DEF CheckRoutes, CheckSequence, CheckGid, CheckMtu
  <1>4. /\ Less(CheckImex(g), CheckImex(h)) /\ Less(CheckFlapping(g, o), CheckFlapping(h, o))
        /\ Less(CheckWpa(g, o), CheckWpa(h, o)) /\ Less(CheckFabric(g), CheckFabric(h))
    BY DEF CheckImex, CheckFlapping, CheckWpa, CheckFabric
  <1>5. /\ Less(CheckPages(g), CheckPages(h)) /\ Less(CheckDcgmi(g), CheckDcgmi(h))
        /\ Less(CheckRocminfo(g), CheckRocminfo(h)) /\ Less(CheckNhc(g), CheckNhc(h))
    BY DEF CheckPages, CheckDcgmi, CheckRocminfo, CheckNhc
  <1>6. Less(CheckIps(g, o), CheckIps(h, o))
    <2>1. CheckIps(g, o).ask = "None" \/ CheckIps(g, o).ask = CheckIps(h, o).ask
      BY DEF CheckIps
    <2>2. V!Weight("None") <= V!Weight(CheckIps(h, o).ask) /\ \A x : V!Weight(x) <= V!Weight(x)
      BY Weights
    <2> QED
      BY <2>1, <2>2 DEF Less, Heft
  <1>7. g.smi = h.smi => /\ Less(CheckEcc(g), CheckEcc(h)) /\ Less(CheckCount(g), CheckCount(h))
                         /\ Less(CheckNvlink(g), CheckNvlink(h))
    BY DEF CheckEcc, CheckCount, CheckNvlink, Smi
  <1>8. Heft(CheckEcc(g)) <= 2 /\ Heft(CheckCount(g)) <= 2 /\ Heft(CheckNvlink(g)) <= 2
    <2>1. Heft(Nothing) = 0 /\ \A r : Heft([reasons |-> r, ask |-> "Reboot"]) = 2
      BY Weights DEF Heft, Nothing
    <2>2. \A p, r : Heft(Found(p, r, "Reboot")) <= 2
      BY <2>1
    <2> HIDE DEF Found
    <2> QED
      BY <2>2 DEF CheckEcc, CheckCount, CheckNvlink
  <1>9. g.smi # h.smi => h.smi # "works"
    OBVIOUS
  <1>10. CASE c \in {"ecc", "count", "nvlink"}
    BY <1>7, <1>8, <1>9, <1>10 DEF FindingOf
  <1>11. CASE c \notin {"ecc", "count", "nvlink"}
    BY <1>1, <1>2, <1>3, <1>4, <1>5, <1>6, <1>11 DEF FindingOf
  <1> QED
    BY <1>10, <1>11

LEMMA WellFields ==
  ASSUME NEW b, DOMAIN b = Fields
  PROVE  /\ DOMAIN Well(b) = Fields /\ Well(b).shape = b.shape /\ Well(b).planes = b.planes
         /\ Well(b).unfinished = b.unfinished /\ Well(b).trouble = {} /\ Well(b).smi = "works"
         /\ Well(b).gpus = [i \in DOMAIN b.gpus |-> "fine"] /\ Well(b).links = [i \in DOMAIN b.links |-> "fine"]
PROOF
  BY DEF Well, Fields

LEMMA FineFindsNothing ==
  ASSUME NEW g, NEW S, g.gpus = [i \in S |-> "fine"]
  PROVE  CheckRemap(g) = Nothing
PROOF
  BY DEF CheckRemap, Found, Range

(* The rows of one GPU, after which none asks for a reboot.                  *)
LEMMA RowsFindLess ==
  ASSUME NEW b, NEW g, b.gpus \in Seq(Rows), NEW i \in DOMAIN b.gpus, \A k \in Curable(b.gpus) : k <= i,
         g.shape = b.shape, g.smi = b.smi,
         g.gpus = [[j \in DOMAIN b.gpus |-> "fine"] EXCEPT ![i] = b.gpus[i]]
  PROVE  Less(CheckRemap(g), CheckRemap(b))
PROOF
  <1>1. DOMAIN g.gpus = DOMAIN b.gpus /\ \A j \in DOMAIN b.gpus : g.gpus[j] = IF j = i THEN b.gpus[i] ELSE "fine"
    OBVIOUS
  <1>2. \A j \in DOMAIN b.gpus : j \in Int /\ b.gpus[j] \in Rows
    OBVIOUS
  <1>3. CASE b.gpus[i] \notin {"pending", "over 512"}
    <2>1. Range(g.gpus) \cap {"pending", "over 512"} = {}
      BY <1>1, <1>3 DEF Range
    <2> QED
      BY <2>1, LessFacts DEF CheckRemap, Found
  <1>4. CASE b.gpus[i] \in {"pending", "over 512"}
    <2>1. Range(b.gpus) \cap {"pending", "over 512"} # {} /\ Range(g.gpus) \cap {"pending", "over 512"} # {}
      BY <1>1, <1>4 DEF Range
    <2>2. CASE IsMI(g.shape) \/ g.smi # "works"
      BY <2>2, LessFacts DEF CheckRemap, Found
    <2>3. CASE ~(IsMI(g.shape) \/ g.smi # "works")
      <3>1. CheckRemap(g).ask = RemapAsk(g.gpus) /\ CheckRemap(b).ask = RemapAsk(b.gpus)
        BY <2>1, <2>3 DEF CheckRemap, Found
      <3>2. CASE b.gpus[i] = "pending"
        <4>1. Lost(g.gpus) = {} /\ Curable(b.gpus) # {}
          BY <1>1, <3>2 DEF Lost, Curable
        <4>2. RemapAsk(g.gpus) \in {"Reboot", "None"} /\ RemapAsk(b.gpus) \in {"Terminate", "Reboot"}
          BY <4>1 DEF RemapAsk
        <4> QED
          BY <3>1, <4>2, Weights DEF Less, Heft
      <3>3. CASE b.gpus[i] = "over 512"
        <4>1. i \in Lost(b.gpus) /\ i \notin Curable(b.gpus)
          BY <3>3 DEF Lost, Curable
        <4>2. \A j \in Curable(b.gpus) : j < i
          <5>1. Curable(b.gpus) \subseteq DOMAIN b.gpus
            BY DEF Curable
          <5>2. \A j \in Curable(b.gpus) : j \in Int /\ j <= i /\ j # i
            BY <1>2, <4>1, <5>1
          <5>3. \A x, y : x \in Int /\ y \in Int /\ x <= y /\ x # y => x < y
            OBVIOUS
          <5> QED
            BY <1>2, <5>2, <5>3
        <4>3. RemapAsk(b.gpus) = "Terminate"
          BY <4>1, <4>2 DEF RemapAsk
        <4> QED
          BY <3>1, <4>3, Weights DEF Less, Heft
      <3> QED
        BY <1>4, <3>2, <3>3
    <2> QED
      BY <2>2, <2>3
  <1> QED
    BY <1>3, <1>4

(* Where every link is fine there is none to report.                         *)
LEMMA FineLinksAreNotBad ==
  ASSUME NEW h, NEW S, h.links = [i \in S |-> "fine"]
  PROVE  ~BadLinks(h)
PROOF
  <1>1. Range(h.links) \subseteq {"fine"}
    BY DEF Range
  <1> QED
    BY <1>1 DEF BadLinks

(* A host with one of the troubles of b.                                     *)
LEMMA SingleIsMilder ==
  ASSUME NEW b, DOMAIN b = Fields, b.smi \in Smi, b.gpus \in Seq(Rows), NEW g \in Singly(b)
  PROVE  Milder(g, b)
PROOF
  <1> DEFINE Same == g.shape = b.shape /\ g.planes = b.planes /\ g.unfinished = b.unfinished
             w == Well(b)
  <1> w.shape = b.shape /\ w.planes = b.planes /\ w.unfinished = b.unfinished /\ w.trouble = {}
      /\ w.smi = "works" /\ DOMAIN w = Fields
      /\ w.gpus = [i \in DOMAIN b.gpus |-> "fine"] /\ w.links = [i \in DOMAIN b.links |-> "fine"]
    BY WellFields
  <1> HIDE DEF w
  <1> USE DEF Fields
  <1>0. \A h, S : h.links = [i \in S |-> "fine"] => ~BadLinks(h)
    BY FineLinksAreNotBad
  <1>1. ASSUME NEW t \in b.trouble, g = [w EXCEPT !.trouble = {t}] PROVE Milder(g, b)
    <2>1. Same /\ g.trouble = {t} /\ g.smi = "works" /\ g.gpus = w.gpus /\ g.links = w.links
      BY <1>1
    <2>2. Less(CheckRemap(g), CheckRemap(b))
      BY <2>1, FineFindsNothing, LessFacts
    <2> QED
      BY <1>0, <2>1, <2>2 DEF Milder
  <1>2. ASSUME NEW i \in DOMAIN b.gpus, b.smi = "works", \A k \in Curable(b.gpus) : k <= i,
               g = [w EXCEPT !.gpus[i] = b.gpus[i]]
        PROVE  Milder(g, b)
    <2>1. Same /\ g.trouble = {} /\ g.smi = "works" /\ g.gpus = [w.gpus EXCEPT ![i] = b.gpus[i]]
          /\ g.links = w.links
      BY <1>2
    <2>2. Less(CheckRemap(g), CheckRemap(b))
      BY <1>2, <2>1, RowsFindLess
    <2> QED
      BY <1>0, <2>1, <2>2 DEF Milder
  <1>3. ASSUME NEW i \in DOMAIN b.links, "unreadable" \notin Range(b.links), g = [w EXCEPT !.links[i] = b.links[i]]
        PROVE  Milder(g, b)
    <2>1. Same /\ g.trouble = {} /\ g.smi = "works" /\ g.gpus = w.gpus
          /\ g.links = [w.links EXCEPT ![i] = b.links[i]]
      BY <1>3
    <2>2. Less(CheckRemap(g), CheckRemap(b))
      BY <2>1, FineFindsNothing, LessFacts
    <2>3. BadLinks(g) => BadLinks(b)
      <3>1. Range(g.links) \subseteq {"fine"} \cup Range(b.links)
        BY <2>1 DEF Range
      <3> QED
        BY <1>3, <3>1 DEF BadLinks
    <2> QED
      BY <2>1, <2>2, <2>3 DEF Milder
  <1>4. ASSUME g = [w EXCEPT !.smi = b.smi] PROVE Milder(g, b)
    <2>1. Same /\ g.trouble = {} /\ g.smi = b.smi /\ g.gpus = w.gpus /\ g.links = w.links
      BY <1>4
    <2>2. Less(CheckRemap(g), CheckRemap(b))
      BY <2>1, FineFindsNothing, LessFacts
    <2> QED
      BY <1>0, <2>1, <2>2 DEF Milder
  <1> QED
    BY <1>1, <1>2, <1>3, <1>4 DEF Singly, w

(* Without nvidia-smi one of two checks finds as much as those that need it. *)
LEMMA SmiIsMissed ==
  ASSUME NEW b, b.smi # "works", NEW o
  PROVE  Heft(FindingOf("pcie", b, o)) >= 2 \/ Heft(FindingOf("fabric", b, o)) >= 2
PROOF
  <1>1. CASE IsGB(b.shape)
    <2>1. FindingOf("fabric", b, o).ask = "FabricManagerRestart"
      BY <1>1 DEF FindingOf, CheckFabric, Found
    <2> QED
      BY <2>1, Weights DEF Heft
  <1>2. CASE ~IsGB(b.shape)
    <2>1. FindingOf("pcie", b, o).ask = "Terminate"
      BY <1>2 DEF FindingOf, CheckPcie, Found
    <2> QED
      BY <2>1, Weights DEF Heft
  <1> QED
    BY <1>1, <1>2

(* As long as metadata service and nvidia-smi answer as in the beginning,    *)
(* every check so far counted for as much as it does on the host of then.    *)
CountedInv ==
  host.planes = began.planes /\ host.smi = began.smi =>
    \A j \in 1..26 : j < step => Heft(FindingOf(Checks[j], began, oca)) <= worst

LEMMA CountedStep == TypeOK /\ PassInv /\ CountedInv /\ [Next]_vars => CountedInv'
PROOF
  <1> SUFFICES ASSUME TypeOK, PassInv, CountedInv, [Next]_vars,
                      host'.planes = began'.planes, host'.smi = began'.smi,
                      NEW j \in 1..26, j < step'
               PROVE  Heft(FindingOf(Checks[j], began', oca')) <= worst'
    BY DEF CountedInv
  <1>0. /\ step \in 1..28 /\ worst \in 0..3 /\ oca \in BOOLEAN /\ DOMAIN Checks = 1..26 /\ Len(Checks) = 26
        /\ \A f : Heft(f) \in 0..3
    BY CheckOrder, Weights DEF PassInv, TypeOK, Heft
  <1>1. CASE Change
    <2>1. /\ UNCHANGED <<began, step, oca, worst>> /\ host' # host
      BY <1>1 DEF Change, Become
    <2>2. host.planes = began.planes /\ host.smi = began.smi
      <3>1. Later(began, host) /\ Later(host, host')
        BY <1>1, ChangeIsLater DEF PassInv, Later
      <3> QED
        BY <2>1, <3>1 DEF Later
    <2> QED
      BY <2>1, <2>2 DEF CountedInv
  <1>2. CASE UNCHANGED <<host, began, oca, worst, step>>
    BY <1>2 DEF CountedInv
  <1>3. ASSUME UNCHANGED <<host, began, oca>>, step <= 26, step' = step + 1, worst \in 0..3, worst' \in 0..3,
               worst' >= worst, Heft(FindingOf(Checks[step], began, oca)) <= worst'
        PROVE  Heft(FindingOf(Checks[j], began', oca')) <= worst'
    <2>1. j < step \/ j = step
      BY <1>0, <1>3
    <2>2. ASSUME j < step PROVE Heft(FindingOf(Checks[j], began, oca)) <= worst
      BY <1>3, <2>2 DEF CountedInv
    <2> QED
      BY <1>0, <1>3, <2>1, <2>2
  <1>4. ASSUME NEW f, Conclude(f)
        PROVE  /\ UNCHANGED <<host, began>> /\ step' = step + 1
               /\ worst' \in 0..3 /\ worst' >= worst /\ worst' >= Heft(f)
    BY <1>0, <1>4 DEF Conclude, V!Graver, Heft
  <1>5. CASE AskOca
    <2>1. step = 1 /\ j = 1 /\ Checks[1] = "oca"
      BY <1>0, <1>4, <1>5, CheckOrder DEF AskOca, At
    <2>2. FindingOf("oca", began, oca') = CheckOca(host)
      BY DEF PassInv, Later, FindingOf, CheckOca, OcaCompleted
    <2> QED
      BY <1>4, <1>5, <2>1, <2>2 DEF AskOca
  <1>6. CASE Check
    <2>1. Conclude(FindingOf(Checks[step], host, oca)) /\ step <= 26 /\ UNCHANGED oca
      BY <1>0, <1>6 DEF Check
    <2>2. Checks[step] \in Range(Checks)
      BY <1>0, <2>1 DEF Range
    <2>3. UNCHANGED <<host, began>>
      BY <1>4, <2>1
    <2>4. Milder(began, host)
      <3>1. Later(began, host) /\ host.planes = began.planes /\ host.smi = began.smi /\ host.smi \in Smi
        BY <2>3 DEF PassInv, TypeOK
      <3>2. CheckRemap(began) = CheckRemap(host) /\ (BadLinks(began) <=> BadLinks(host))
        BY <3>1 DEF Later, CheckRemap, BadLinks
      <3> QED
        BY <3>1, <3>2, LessFacts DEF Later, Milder
    <2>5. Less(FindingOf(Checks[step], began, oca), FindingOf(Checks[step], host, oca))
      BY <1>0, <2>2, <2>3, <2>4, MilderFindsLess
    <2>6. Heft(FindingOf(Checks[step], began, oca)) <= worst'
      BY <1>0, <1>4, <2>1, <2>5 DEF Less
    <2> QED
      BY <1>0, <1>3, <1>4, <2>1, <2>3, <2>6
  <1>7. CASE ScanXids \/ DecideReset
    <2>1. step <= 26 /\ step' = step + 1 /\ UNCHANGED <<host, began, oca>>
      BY <1>0, <1>7 DEF ScanXids, DecideReset, At, Conclude
    <2>2. worst' \in 0..3 /\ worst' >= worst
      BY <1>0, <1>4, <1>7 DEF ScanXids, DecideReset
    <2>3. FindingOf(Checks[step], began, oca) = Nothing
      BY <1>7 DEF ScanXids, DecideReset, At, FindingOf
    <2>4. Heft(Nothing) = 0
      BY Weights DEF Heft, Nothing
    <2> QED
      BY <1>0, <1>3, <2>1, <2>2, <2>3, <2>4
  <1>8. CASE Publish \/ Die
    <2>1. step = 27 /\ UNCHANGED <<host, began, oca, worst>>
      BY <1>0, <1>8 DEF Publish, Die
    <2> QED
      BY <2>1 DEF CountedInv
  <1> QED
    BY <1>1, <1>2, <1>5, <1>6, <1>7, <1>8 DEF Next, vars

\* On every host, with any troubles at once and more appearing meanwhile: the verdict is as grave as on a host
\* with only one of its troubles, but for the two ways in which one check hides its own findings.
THEOREM NothingIsHidden == Spec => []NoTroubleHidesAnother
PROOF
  <1>1. Init => CountedInv
    BY DEF Init, CountedInv
  <1>2. TypeOK /\ PassInv /\ CountedInv => NoTroubleHidesAnother
    <2> SUFFICES ASSUME TypeOK, PassInv, CountedInv, Published, host.planes = began.planes, host.smi = began.smi,
                        NEW g \in Singly(began), NEW i \in DOMAIN Checks
                 PROVE  V!Weight(record.recommendation) >= Heft(FindingOf(Checks[i], g, oca))
      BY DEF NoTroubleHidesAnother, Heft
    <2>0. /\ \A j \in 1..26 : Heft(FindingOf(Checks[j], began, oca)) <= worst
          /\ i \in 1..26 /\ worst \in 0..3 /\ worst = V!Weight(action) /\ oca \in BOOLEAN
          /\ \A f : Heft(f) \in 0..3
      BY CheckOrder, Weights DEF PassInv, CountedInv, TypeOK, Heft
    <2>1. V!Weight(record.recommendation) >= worst /\ V!Weight(record.recommendation) \in 0..3
      <3>1. Verdict = action \/ Verdict = "Terminate" \/ (Verdict = "Healthy" /\ action = "None")
        BY DEF Verdict
      <3>2. record.recommendation = Verdict
        BY DEF PassInv
      <3> QED
        BY <2>0, <3>1, <3>2, Weights
    <2>2. Milder(g, began)
      <3>1. DOMAIN began = Fields /\ began.smi \in Smi /\ began.gpus \in Seq(Rows)
        BY ParameterAssumption DEF PassInv, Fields
      <3> QED
        BY <3>1, SingleIsMilder
    <2>3. Checks[i] \in Range(Checks)
      BY <2>0, CheckOrder DEF Range
    <2>4. \/ Less(FindingOf(Checks[i], g, oca), FindingOf(Checks[i], began, oca))
          \/ began.smi # "works" /\ Heft(FindingOf(Checks[i], g, oca)) <= 2
      BY <2>0, <2>2, <2>3, MilderFindsLess
    <2>5. Heft(FindingOf(Checks[i], g, oca)) <= worst
      <3>1. CASE began.smi # "works" /\ Heft(FindingOf(Checks[i], g, oca)) <= 2
        <4>1. worst >= 2
          <5>1. Heft(FindingOf("pcie", began, oca)) <= worst /\ Heft(FindingOf("fabric", began, oca)) <= worst
            BY <2>0, CheckOrder
          <5> QED
            BY <2>0, <3>1, <5>1, SmiIsMissed
        <4> QED
          BY <2>0, <3>1, <4>1
      <3>2. CASE Less(FindingOf(Checks[i], g, oca), FindingOf(Checks[i], began, oca))
        BY <2>0, <3>2 DEF Less
      <3> QED
        BY <2>4, <3>1, <3>2
    <2> QED
      BY <2>0, <2>1, <2>5
  <1> QED
    BY <1>1, <1>2, CountedStep, PassInvariant, PassiveTypeOK, PTL DEF Spec
=============================================================================
