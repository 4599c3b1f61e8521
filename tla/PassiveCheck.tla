---------------------------- MODULE PassiveCheck ----------------------------
(* One pass of check_gpu_setup.py over a host whose condition may change     *)
(* under it: check after check, the gravest action so far, the look at the   *)
(* host's reboots, and the record it leaves for the management service.      *)
EXTENDS HostChecks

CONSTANTS Hosts,     \* the hosts a pass may begin with
          Late,      \* troubles that may appear while it runs
          LateLines, \* lines the kernel may log meanwhile
          MaxChanges

ASSUME ParameterAssumption ==
  /\ MaxChanges \in Nat
  /\ \A h \in Hosts : /\ DOMAIN h = {"shape", "planes", "trouble", "unfinished", "smi", "gpus", "links",
                                     "log", "mute", "boots"}
                      /\ h.planes \in Nat /\ h.smi \in Smi /\ h.mute \in BOOLEAN
                      /\ h.gpus \in Seq(Rows)
                      /\ h.boots \in Seq([hours : Nat, future : BOOLEAN, leap : BOOLEAN])

VARIABLES
  host,    \* the host, as it is now
  began,   \* history: as it was when the pass began
  step,    \* the next check
  oca,     \* the cloud agent had finished when it was asked
  xids,    \* what the kernel log said
  action, reasons,
  worst,   \* history: the weight of the gravest finding
  record,  \* what is published
  changes

vars == <<host, began, step, oca, xids, action, reasons, worst, record, changes>>

V == INSTANCE HealthVerdict WITH verdict <- record.recommendation

Action == {"None", "Wait_For_OCA", "Check_nhc_log", "Enable_Instance_RDMA_Plugins",
           "FabricManagerRestart", "Reboot", "Reset_GPU", "Terminate"}

Unpublished == [recommendation |-> "none", status |-> {}]

TypeOK ==
  /\ host.smi \in Smi /\ host.mute \in BOOLEAN /\ host.planes \in Nat
  /\ step \in 1..(Len(Checks) + 2)
  /\ oca \in BOOLEAN /\ xids.exhausted \in BOOLEAN
  /\ action \in Action /\ worst \in 0..3
  /\ record.recommendation \in (Action \ {"None"}) \cup {"none", "Healthy"}
  /\ changes \in 0..MaxChanges

Init ==
  /\ host \in Hosts /\ began = host /\ step = 1 /\ oca = TRUE /\ xids = NoXids
  /\ action = "None" /\ reasons = {} /\ worst = 0 /\ record = Unpublished /\ changes = 0

(***************************************************************************)
(* The host while the pass runs.                                           *)
(***************************************************************************)

Become(h) ==
  /\ step <= Len(Checks) /\ changes < MaxChanges /\ h # host
  /\ host' = h /\ changes' = changes + 1
  /\ UNCHANGED <<began, step, oca, xids, action, reasons, worst, record>>

Change ==
  \/ \E t \in Late : Become([host EXCEPT !.trouble = @ \cup {t}])
  \/ \E l \in LateLines : Become([host EXCEPT !.log = Append(@, l)])
  \/ host.log # <<>> /\ Become([host EXCEPT !.log = Tail(@)])
  \/ Become([host EXCEPT !.smi = "hangs"])
  \/ Become([host EXCEPT !.mute = TRUE])
  \/ Become([host EXCEPT !.planes = 1])

(***************************************************************************)
(* The pass.                                                               *)
(***************************************************************************)

\* Mutant: the reset of the GPUs is not held against a termination.
RecommendedLoose(current, ask) ==
  IF ask = "None" THEN current
  ELSE IF current = "Terminate" /\ ask # "Reset_GPU" THEN current
  ELSE IF ask = "Wait_For_OCA" /\ current \in {"FabricManagerRestart", "Reboot", "Reset_GPU", "Check_nhc_log"}
  THEN current
  ELSE IF /\ ask \in {"Check_nhc_log", "Enable_Instance_RDMA_Plugins"}
          /\ current \in {"FabricManagerRestart", "Reboot", "Reset_GPU"}
  THEN current
  ELSE ask

\* Mutant: to wait for the cloud agent replaces whatever there was.
RecommendedLast(current, ask) ==
  IF ask = "None" \/ (current = "Terminate" /\ ask # "Terminate") THEN current ELSE ask

(* Later findings replace earlier ones, but graver ones stay.                *)
RecommendedAction(current, ask) ==
  IF ask = "None" THEN current
  ELSE IF ask = "Terminate" \/ current = "Terminate" THEN "Terminate"
  ELSE IF ask = "Wait_For_OCA" /\ current \in {"FabricManagerRestart", "Reboot", "Reset_GPU", "Check_nhc_log"}
  THEN current
  ELSE IF /\ ask \in {"Check_nhc_log", "Enable_Instance_RDMA_Plugins"}
          /\ current \in {"FabricManagerRestart", "Reboot", "Reset_GPU"}
  THEN current
  ELSE ask

Conclude(finding) ==
  /\ reasons' = reasons \cup finding.reasons
  /\ action' = RecommendedAction(action, finding.ask)
  /\ worst' = V!Graver(worst, V!Weight(finding.ask))
  /\ step' = step + 1
  /\ UNCHANGED <<host, began, record, changes>>

At(check) == step <= Len(Checks) /\ Checks[step] = check

AskOca ==
  /\ At("oca")
  /\ oca' = OcaCompleted(host) /\ Conclude(CheckOca(host))
  /\ UNCHANGED xids

Check ==
  /\ step <= Len(Checks) /\ Checks[step] \notin {"oca", "xids", "reset"}
  /\ Conclude(FindingOf(Checks[step], host, oca))
  /\ UNCHANGED <<oca, xids>>

Dmesg == IF host.mute THEN <<>> ELSE host.log

ScanXids ==
  /\ At("xids")
  /\ xids' = CheckXids(Dmesg) /\ step' = step + 1
  /\ UNCHANGED <<host, began, oca, action, reasons, worst, record, changes>>

(* An exception while it decides about the reset loses all that was found.   *)
DecideReset ==
  /\ At("reset")
  /\ xids' = IF xids.reset # {} /\ ResetRaises(Dmesg, host.boots) THEN NoXids ELSE xids
  /\ Conclude(SummarizeXids(xids', IF xids'.reset = {} THEN "None" ELSE ResetAsks(Dmesg, host.boots)))
  /\ UNCHANGED oca

\* Mutant: the reboots of a day are not looked at.
RebootedTooOftenToday(boots) == CountWithin(boots, 2) > 0

RebootedTooOften(boots) == CountWithin(boots, 2) > 0 \/ CountWithin(boots, 24) > 5

Verdict ==
  IF action = "None" THEN "Healthy"
  ELSE IF action = "Reboot" /\ RebootedTooOften(host.boots) THEN "Terminate"
  ELSE action

RdmaReasons == <<"RDMA Link down", "WPA Auth Error", "RDMA Route Missing", "RDMA GID Index Error",
                 "RDMA Missing IP", "RDMA OVS MTU Error", "RDMA Rail IPv6 Sequence Error",
                 "RDMA Link flap", "RDMA Auth flap">>

\* Mutant: the reasons about RDMA are left out.
StatusSilent(rs) == rs \ Range(RdmaReasons)

(* Of the reasons about RDMA the first of the list stands for all.           *)
Foremost(rs) == {RdmaReasons[i] : i \in {j \in DOMAIN RdmaReasons :
                                          RdmaReasons[j] \in rs /\ \A k \in 1..j-1 : RdmaReasons[k] \notin rs}}
Status(rs) == (rs \ Range(RdmaReasons)) \cup Foremost(rs)

Publish ==
  /\ step = Len(Checks) + 1
  /\ ~(action = "Reboot" /\ Unreadable(host.boots))
  /\ record' = [recommendation |-> Verdict, status |-> Status(reasons)]
  /\ step' = step + 1
  /\ UNCHANGED <<host, began, oca, xids, action, reasons, worst, changes>>

(* Nothing catches the exception of a date that cannot be read.              *)
Die ==
  /\ step = Len(Checks) + 1
  /\ action = "Reboot" /\ Unreadable(host.boots)
  /\ step' = step + 1
  /\ UNCHANGED <<host, began, oca, xids, action, reasons, worst, record, changes>>

Next == Change \/ AskOca \/ Check \/ ScanXids \/ DecideReset \/ Publish \/ Die

Spec == Init /\ [][Next]_vars

(***************************************************************************)
(* Properties.                                                             *)
(***************************************************************************)

Published == record # Unpublished

\* A pass is a pass of HealthVerdict: whatever the order of the findings, recommended_action never
\* ends with less than the gravest of them and never with more, but for a reboot too many.
Implements == V!Spec

(* A host with one of its troubles only.                                     *)
Well(h) == [h EXCEPT !.trouble = {}, !.smi = "works", !.gpus = [i \in DOMAIN @ |-> "fine"],
                     !.links = [i \in DOMAIN @ |-> "fine"], !.log = <<>>]
Singly(h) ==
  {[Well(h) EXCEPT !.trouble = {t}] : t \in h.trouble}
  \cup {[Well(h) EXCEPT !.gpus[i] = h.gpus[i]] :
           i \in {j \in DOMAIN h.gpus : h.smi = "works" /\ \A k \in Curable(h.gpus) : k <= j}}
  \cup {[Well(h) EXCEPT !.links[i] = h.links[i]] : i \in {j \in DOMAIN h.links : "unreadable" \notin Range(h.links)}}
  \cup {[Well(h) EXCEPT !.smi = h.smi]}

\* No trouble hides another: the verdict on a host is as grave as on a host with only one of the
\* troubles it had from the beginning, for checks that share a tool or replace each other's action
\* (as long as neither the metadata service nor nvidia-smi changes its mind meanwhile), but for what two
\* checks do hide: the rows of a GPU before one that asks for a reboot, and links beside an unreadable one.
NoTroubleHidesAnother ==
  Published /\ host.planes = began.planes /\ host.smi = began.smi =>
    \A h \in Singly(began), i \in DOMAIN Checks :
      V!Weight(record.recommendation) >= V!Weight(FindingOf(Checks[i], h, oca).ask)

\* An Xid that is critical ends in a termination whatever else is in a log that stays as it is, even
\* other Xids of its code, unless one of these asks for a reset (the program ranks that higher).
CriticalXidTerminates ==
  Published /\ ~host.mute /\ host.log = began.log /\ changes < 2 /\ ~Unreadable(host.boots)
    /\ (\E i \in DOMAIN host.log : IsXid(host.log[i]) /\ ActionOf(host.log[i]) = "critical"
          /\ \A j \in DOMAIN host.log :
               IsXid(host.log[j]) /\ host.log[j].code = host.log[i].code
                 => ActionOf(host.log[j]) # "gpu_reset_reboot")
    => record.recommendation = "Terminate"

(* Reboots of the host by the clock, not by the program's reading of dates.  *)
ReallyWithin(hours) == Cardinality({i \in DOMAIN Reboots(host.boots) : host.boots[i].hours <= hours})
OftenRebooted == ReallyWithin(2) > 0 \/ ReallyWithin(24) > 5

Misdated == \E i \in DOMAIN Reboots(host.boots) : host.boots[i].future

\* A host that was just rebooted, or six times in a day, is not rebooted again but given back; a host
\* is given back for its reboots only when it really was, or when the date of one, which has no year, is
\* taken for one to come.
EscalatedByReboots ==
  Published /\ action = "Reboot" =>
    record.recommendation = IF OftenRebooted \/ Misdated THEN "Terminate" ELSE "Reboot"

(* The program does not know the interfaces of one shape, and finds fault.   *)
Known(h) == h.shape # "MI355X-v0.8" \/ IsMultiplanar(h)

\* What is recommended is explained by the status that drains the node, and a host without troubles
\* throughout the pass is called healthy in both, if the program knows its interfaces.
RecordIsExplained ==
  Published =>
    /\ record.recommendation # "Healthy" => record.status # {}
    /\ reasons # {} => record.status # {}
    /\ changes = 0 /\ host = Well(host) /\ host.unfinished = {} /\ Known(host)
         => record = [recommendation |-> "Healthy", status |-> {}]
=============================================================================
