------------------------------ MODULE XidChecks ------------------------------
(* xid_checker.py and gpu_reset_reboot: what the kernel log says about the   *)
(* GPUs.  A line of the log is a record; a code's entry of NVIDIA's catalog  *)
(* has an action, and for the NVLink codes an ordered list of rules that     *)
(* decode the rest of the line.                                              *)
EXTENDS Integers, FiniteSets, SequencesExt

CONSTANTS
  Catalog,   \* code -> [action, unused, rules]
  Overridden \* the codes whose action the program fixes to a warning

NoAction == "none"

ASSUME CatalogAssumption ==
  /\ IsFiniteSet(DOMAIN Catalog)
  /\ \A code \in DOMAIN Catalog : DOMAIN Catalog[code] = {"action", "unused", "rules"}

Warnings == {"WARNING", "RUN_FIELDDIAG", "RUN_DCGMEUD", "CUSTOM", "RESTART_APP", "IGNORE",
             "XID_154_EVAL", "XID_154"}
Resets   == {"GPU_RESET_REBOOT", "COMPONENT_RESET", "RESTART_VM", "RESTART_BM", "REPLACE_VM",
             "WORKFLOW_XID_48", "CHECK_UVM", "RESET_GPU", "RESET_FABRIC"}

(* Whatever is not known is critical.                                        *)
MapAction(s) ==
  IF s = "NONE" THEN NoAction
  ELSE IF s \in Warnings THEN "warning"
  ELSE IF s \in Resets THEN "gpu_reset_reboot"
  ELSE "critical"

(* The bits the pattern fixes, lowest first; a word is as wide as it needs.  *)
IntrMatches(pattern, bits) ==
  \A i \in DOMAIN pattern :
    pattern[i] # "-" => pattern[i] = (IF i \in DOMAIN bits THEN bits[i] ELSE "0")

(* No status in the rule is any status.                                      *)
MatchesRule(rule, line) ==
  /\ rule.statuses = {} \/ line.status \in rule.statuses
  /\ IntrMatches(rule.pattern, line.bits)

RulesOf(code) == IF code \in DOMAIN Catalog THEN Catalog[code].rules ELSE <<>>

DecodesFirst(code) ==
  code \in DOMAIN Catalog /\ Catalog[code].action = "WORKFLOW_NVLINK5_ERR" /\ RulesOf(code) # <<>>

GetAction(code) ==
  IF code \in DOMAIN Catalog /\ Catalog[code].unused THEN "warning"
  ELSE IF DecodesFirst(code) THEN NoAction
  ELSE IF code \in Overridden THEN "warning"
  ELSE IF code \in DOMAIN Catalog /\ Catalog[code].action # "" THEN MapAction(Catalog[code].action)
  ELSE "critical"

(* The first rule that matches; the line asks nothing when none does.        *)
DecodeNvl5(line) ==
  LET hits == SelectSeq(RulesOf(line.code), LAMBDA r : MatchesRule(r, line))
  IN  IF hits = <<>> THEN NoAction ELSE MapAction(hits[1].resolution)

(* A 154 says itself what the driver wants.                                  *)
Recovery(to) ==
  CASE to \in {"GPU Reset Required", "Drain and Reset", "Node Reboot Required"} -> "gpu_reset_reboot"
    [] to = "None" -> NoAction
    [] to = "unreadable" -> GetAction(154)
    [] OTHER -> "critical"

ActionOf(line) ==
  IF line.nvl5 /\ RulesOf(line.code) # <<>> THEN DecodeNvl5(line)
  ELSE IF line.code = 154 THEN Recovery(line.to)
  ELSE GetAction(line.code)

IsXid(line) == line.kind = "xid"

\* Mutant: a severity without a rank of its own.
RankForgotten(severity) ==
  CASE severity = "warning" -> 1 [] severity = "gpu_reset_reboot" -> 2 [] OTHER -> 0

Rank(severity) ==
  CASE severity = "warning" -> 1 [] severity = "critical" -> 2 [] severity = "gpu_reset_reboot" -> 3
    [] OTHER -> 0

(* A code has the severity of its highest-ranking line.                      *)
SeverityOf(log, code) ==
  LET seen == {ActionOf(l) : l \in {x \in Range(log) : IsXid(x) /\ x.code = code}}
  IN  CHOOSE s \in seen \cup {NoAction} : \A t \in seen : Rank(t) <= Rank(s)

CodesWith(log, severity) ==
  {code \in {l.code : l \in {x \in Range(log) : IsXid(x)}} : SeverityOf(log, code) = severity}

(* check_gpu_xid                                                             *)
CheckXids(log) ==
  [exhausted |-> \E l \in Range(log) : l.kind = "insufficient resources",
   critical  |-> CodesWith(log, "critical"),
   reset     |-> CodesWith(log, "gpu_reset_reboot")]

NoXids == [exhausted |-> FALSE, critical |-> {}, reset |-> {}]

(***************************************************************************)
(* gpu_reset_reboot.  A boot is [hours, future, leap]: how long ago it was; *)
(* whether its date, read as one of this year, is still to come; whether it *)
(* was on February 29, a date the program cannot read without its year.     *)
(***************************************************************************)

(* The newest first; the oldest, the host's first start, is no reboot.       *)
Reboots(boots) == IF boots = <<>> THEN <<>> ELSE Front(boots)

Unreadable(boots) == \E b \in Range(Reboots(boots)) : b.leap

CountWithin(boots, hours) ==
  Cardinality({i \in DOMAIN Reboots(boots) : boots[i].future \/ boots[i].hours <= hours})

ResetOrGiveUp(boots) ==
  IF CountWithin(boots, 12) > 0 \/ CountWithin(boots, 24) > 3 THEN "Terminate" ELSE "Reset_GPU"

(* It reads the log again; a probe of the switch is the trace of a reset,    *)
(* which counts when it is later than every Xid.                             *)
Probes(log) == {i \in DOMAIN log : log[i].kind = "probe"}
XidsAt(log) == {i \in DOMAIN log : IsXid(log[i])}
ResetDone(log) == \E p \in Probes(log) : \A x \in XidsAt(log) : x < p

(* A probe, and no Xid left in the log.                                      *)
ResetRaises(log, boots) ==
  \/ Probes(log) # {} /\ XidsAt(log) = {}
  \/ log # <<>> /\ ~ResetDone(log) /\ Unreadable(boots)

ResetAsks(log, boots) ==
  IF log = <<>> \/ ResetDone(log) THEN "None" ELSE ResetOrGiveUp(boots)
=============================================================================
