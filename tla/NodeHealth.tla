----------------------------- MODULE NodeHealth -----------------------------
(* One node and everybody who watches its health.  healthchecks.sh, run by   *)
(* slurmd and as the prolog of a job, runs the passive check when its log is *)
(* old, greps the log and drains or resumes the node; jobs of the active     *)
(* check and operators run programs of their own; all of them rewrite one    *)
(* file.  The service copies that file, OCI's event and Slurm's state into   *)
(* the node's row, and `mgmt recommendations run` acts on the row.  (What a  *)
(* passive check concludes is PassiveCheck; who drains for maintenance is    *)
(* MaintenanceEvents.)                                                       *)
EXTENDS Recommendations

CONSTANTS Troubles,  \* what may befall the host
          Programs,  \* who runs checks: "hcp", "prolog", "manual", "active"
          Happenings, \* which disturbances there are
          MaxHappenings

Verdicts == {"Healthy", "Reboot", "Reset_GPU", "Terminate", "Enable_Instance_RDMA_Plugins"}

ASSUME ParameterAssumption ==
  /\ Troubles \subseteq (Verdicts \ {"Healthy"}) \cup {"hang"}
  /\ {"hcp", "prolog"} \subseteq Programs /\ Programs \subseteq {"hcp", "prolog", "manual", "active"}
  /\ MaxHappenings \in Nat

VARIABLES
  trouble,  \* what the host suffers from
  rebooted, \* within the last two hours
  log,      \* latest_healthcheck.log: younger than a minute; says Healthcheck::; of
            \* a check without --slurm, which never says it
  file,     \* the record in http_server/files/healthchecks, or torn
  pc, mem,  \* where each program is, and what it has read
  slurm,    \* who drained the node, and the job on it
  event,    \* OCI's maintenance event of the node ...
  near,     \* ... whose window is less than five minutes off
  row,      \* the node's row
  recom,    \* a run of mgmt recommendations
  gone,     \* the instance was terminated
  judged,   \* history: the last check with --slurm to look found no trouble
  checked,  \* history: a passive check dated after the repair was published
  sure,     \* history: the scripts that grepped the log while the node was drained by
            \* one of them, with no check without --slurm to have emptied the log
  left      \* disturbances still to come

host  == <<trouble, rebooted>>
vars == <<host, log, file, pc, mem, slurm, event, near, row, recom, gone, judged, checked, sure, left>>

Passive == Programs \ {"active"}
Scripts == {"hcp", "prolog"}

(* A result: absent from a file that was torn when somebody read it; given   *)
(* after the repair; older than another that was published.                  *)
Result == [passive : Verdicts \cup {"absent"}, after : BOOLEAN, old : BOOLEAN]
Event  == [kind : {"none", "REPAIR", "TERMINATE"}, state : {"none", "SCHEDULED", "STARTED", "SUCCEEDED"}]
Copy   == [passive : Verdicts \cup {"absent"}, after : BOOLEAN, event : Event]
Nil  == [passive |-> "absent", after |-> FALSE, old |-> FALSE]
Torn == [passive |-> "torn", after |-> FALSE, old |-> FALSE]

FreshRow == [passive |-> "absent", after |-> FALSE, silent |-> FALSE, late |-> FALSE,
             unconfigured |-> FALSE, event |-> NoEvent, slurm |-> [drained |-> FALSE, busy |-> FALSE],
             latest |-> FALSE]
Read(r) == [passive |-> r.passive, after |-> r.after, event |-> r.event]
Idle == [pc |-> "idle", action |-> "none", row |-> Read(FreshRow), repaired |-> FALSE, resumed |-> FALSE]

TypeOK ==
  /\ trouble \in Troubles \cup {"none"} /\ rebooted \in BOOLEAN
  /\ log \in [fresh : BOOLEAN, says : BOOLEAN, mute : BOOLEAN]
  /\ file \in Result \cup {Torn}
  /\ pc \in [Programs -> {"idle", "wait", "judge", "load", "open", "dump", "grep", "show", "drain", "resume"}]
  /\ mem \in [Programs -> Result]
  /\ slurm \in [drain : {"no", "health", "prolog", "other", "down", "absent"},
                job : {"none", "user", "active"}]
  /\ event \in Event /\ near \in BOOLEAN
  /\ row \in [passive : Verdicts \cup {"absent"}, after : BOOLEAN, silent : BOOLEAN, late : BOOLEAN,
              unconfigured : BOOLEAN, event : Event, slurm : [drained : BOOLEAN, busy : BOOLEAN],
              latest : BOOLEAN]
  /\ recom \in [pc : {"idle", "planned", "asked", "ready"}, action : Range(Order) \cup {"none"}, row : Copy,
                repaired : BOOLEAN, resumed : BOOLEAN]
  /\ recom.action = "none" => recom.pc = "idle"
  /\ gone \in BOOLEAN /\ judged \in BOOLEAN /\ checked \in BOOLEAN /\ sure \subseteq Scripts
  /\ left \in 0..MaxHappenings

Init ==
  /\ trouble = "none" /\ rebooted = FALSE
  /\ log = [fresh |-> FALSE, says |-> FALSE, mute |-> FALSE] /\ file = Nil
  /\ pc = [p \in Programs |-> "idle"] /\ mem = [p \in Programs |-> Nil]
  /\ slurm = [drain |-> "no", job |-> "none"] /\ event = NoEvent /\ near = FALSE
  /\ row = FreshRow /\ recom = Idle /\ gone = FALSE
  /\ judged = TRUE /\ checked = TRUE /\ sure = {} /\ left = MaxHappenings

Happens(what) == what \in Happenings /\ left > 0 /\ left' = left - 1

Up == ~gone /\ trouble # "hang"

(***************************************************************************)
(* The programs of the host.                                               *)
(***************************************************************************)

Goto(p, where) == pc' = [pc EXCEPT ![p] = where]

(* The log is opened for writing, which empties it.                          *)
StartCheck(p) == Goto(p, "judge") /\ log' = [fresh |-> TRUE, says |-> FALSE, mute |-> p \notin Scripts]

RunScript(p) == IF log.fresh THEN Goto(p, "grep") /\ UNCHANGED log ELSE StartCheck(p)

\* Mutant: a drained node is not checked.
CheckedUndrained == slurm.job = "none" /\ slurm.drain = "no"

(* HealthCheckNodeState: a node without a job, drained or not.               *)
CheckedBySlurm == slurm.job = "none" /\ slurm.drain # "absent"

(* slurmd, every five minutes.                                               *)
HealthCheckProgram ==
  /\ Up /\ pc["hcp"] = "idle" /\ CheckedBySlurm
  /\ RunScript("hcp")
  /\ UNCHANGED <<host, file, mem, slurm, event, near, row, recom, gone, judged, checked, sure, left>>

(* An operator, or mgmt nodes healthchecks: without --slurm.                 *)
Manual ==
  /\ Up /\ "manual" \in Programs /\ pc["manual"] = "idle" /\ Happens("manual")
  /\ StartCheck("manual")
  /\ UNCHANGED <<host, file, mem, slurm, event, near, row, recom, gone, judged, checked, sure>>

Verdict ==
  IF trouble \in {"none", "hang"} THEN "Healthy"
  ELSE IF trouble = "Reboot" /\ rebooted THEN "Terminate"
  ELSE trouble

\* Mutant: the line is left out for a host that OCI is to take back.
DrainsRepairable(verdict) == verdict \notin {"Healthy", "Terminate"}

Drains(verdict) == verdict # "Healthy"

(* The lines for the script are written for --slurm only.                    *)
Judge(p) ==
  /\ Up /\ p \in Passive /\ pc[p] = "judge"
  /\ mem' = [mem EXCEPT ![p].passive = Verdict]
  /\ log' = [log EXCEPT !.fresh = TRUE, !.says = @ \/ (p \in Scripts /\ Drains(Verdict))]
  /\ judged' = IF p \in Scripts THEN Verdict = "Healthy" ELSE judged
  /\ Goto(p, "load")
  /\ UNCHANGED <<host, file, slurm, event, near, row, recom, gone, checked, sure, left>>

\* Mutant: what is torn is not told from what is there.
ReadableAlways == file

(* A file that cannot be decoded is as good as none.                         *)
Readable == IF file = Torn THEN Nil ELSE file

(* A passive check replaces its own result in what it read and dates it now; *)
(* the active one keeps the passive result as it read it.                    *)
Load(p) ==
  /\ Up /\ pc[p] = "load"
  /\ mem' = [mem EXCEPT ![p] = IF p \in Passive THEN [passive |-> @.passive, after |-> TRUE, old |-> FALSE]
                               ELSE Readable]
  /\ Goto(p, "open")
  /\ UNCHANGED <<host, log, file, slurm, event, near, row, recom, gone, judged, checked, sure, left>>

Open(p) ==
  /\ Up /\ pc[p] = "open"
  /\ file' = Torn /\ Goto(p, "dump")
  /\ UNCHANGED <<host, log, mem, slurm, event, near, row, recom, gone, judged, checked, sure, left>>

(* The copies that others read are now older than the file.                  *)
Dump(p) ==
  /\ Up /\ pc[p] = "dump"
  /\ file' = mem[p]
  /\ mem' = [q \in Programs |-> IF q = p THEN Nil
                                ELSE IF p \in Passive /\ q \notin Passive /\ mem[q].passive # "absent"
                                     THEN [mem[q] EXCEPT !.old = TRUE] ELSE mem[q]]
  /\ row' = [row EXCEPT !.latest = @ /\ p \notin Passive]
  /\ checked' = (checked \/ (p \in Passive /\ mem[p].after))
  /\ Goto(p, IF p \in Scripts THEN "grep" ELSE "idle")
  /\ UNCHANGED <<host, log, slurm, event, near, recom, gone, judged, sure, left>>

(* The reasons the script takes for its own, or for a prolog that failed.    *)
Lifts(drain) == drain \in {"health", "prolog"}

(* The script greps the log, ...                                             *)
Grep(p) ==
  /\ Up /\ p \in Scripts /\ pc[p] = "grep"
  /\ Goto(p, IF log.says THEN "drain" ELSE "show")
  /\ sure' = IF Lifts(slurm.drain) /\ ~log.mute THEN sure \cup {p} ELSE sure \ {p}
  /\ UNCHANGED <<host, log, file, mem, slurm, event, near, row, recom, gone, judged, checked, left>>

(* ... asks Slurm for the reason ...                                         *)
Show(p) ==
  /\ Up /\ p \in Scripts /\ pc[p] = "show"
  /\ Goto(p, IF Lifts(slurm.drain) THEN "resume" ELSE "idle")
  /\ sure' = IF Lifts(slurm.drain) THEN sure ELSE sure \ {p}
  /\ UNCHANGED <<host, log, file, mem, slurm, event, near, row, recom, gone, judged, checked, left>>

(* ... and resumes whatever the node is drained for by then.                 *)
Resume(p) ==
  /\ Up /\ p \in Scripts /\ pc[p] = "resume"
  /\ slurm' = [slurm EXCEPT !.drain = IF @ = "absent" THEN @ ELSE "no"]
  /\ recom' = [recom EXCEPT !.resumed = @ \/ (recom.pc = "ready" /\ slurm.drain \notin {"no", "absent"})]
  /\ Goto(p, "idle") /\ sure' = sure \ {p}
  /\ UNCHANGED <<host, log, file, mem, event, near, row, gone, judged, checked, left>>

(* Or it drains the node; in a job the script fails: the job is requeued and *)
(* the node drained for that.                                                *)
Drain(p) ==
  /\ Up /\ p \in Scripts /\ pc[p] = "drain"
  /\ IF p = "prolog"
     THEN /\ slurm' = [slurm EXCEPT !.drain = IF @ = "no" THEN "prolog" ELSE @, !.job = "none"]
          /\ pc' = [q \in Programs |-> IF q \in {p, "active"} THEN "idle" ELSE pc[q]]
     ELSE /\ slurm' = [slurm EXCEPT !.drain = IF @ = "absent" THEN @ ELSE "health"]
          /\ Goto(p, "idle")
  /\ sure' = {}
  /\ UNCHANGED <<host, log, file, mem, event, near, row, recom, gone, judged, checked, left>>

(***************************************************************************)
(* Jobs, time, and what befalls the node.                                  *)
(***************************************************************************)

Submit(kind) ==
  /\ Up /\ slurm = [drain |-> "no", job |-> "none"] /\ pc["prolog"] = "idle" /\ Happens(kind)
  /\ slurm' = [slurm EXCEPT !.job = kind]
  /\ IF log.fresh THEN UNCHANGED log ELSE log' = [fresh |-> TRUE, says |-> FALSE, mute |-> FALSE]
  /\ pc' = [pc EXCEPT !["prolog"] = IF log.fresh THEN "grep" ELSE "judge",
                      ![IF kind = "active" THEN "active" ELSE "prolog"] =
                         IF kind = "active" THEN "wait" ELSE IF log.fresh THEN "grep" ELSE "judge"]
  /\ UNCHANGED <<host, file, mem, event, near, row, recom, gone, judged, checked, sure>>

(* After its tests, which are ActiveTests, the active check writes its part. *)
ActiveCheck ==
  /\ Up /\ "active" \in Programs /\ pc["active"] = "wait" /\ pc["prolog"] = "idle"
  /\ Goto("active", "load")
  /\ UNCHANGED <<host, log, file, mem, slurm, event, near, row, recom, gone, judged, checked, sure, left>>

JobEnds ==
  /\ Up /\ slurm.job # "none" /\ pc["prolog"] = "idle"
  /\ slurm.job = "active" => pc["active"] = "idle"
  /\ slurm' = [slurm EXCEPT !.job = "none"]
  /\ UNCHANGED <<host, log, file, pc, mem, event, near, row, recom, gone, judged, checked, sure, left>>

Minute ==
  /\ log.fresh /\ log' = [log EXCEPT !.fresh = FALSE]
  /\ UNCHANGED <<host, file, pc, mem, slurm, event, near, row, recom, gone, judged, checked, sure, left>>

TwoHours ==
  /\ rebooted /\ rebooted' = FALSE
  /\ UNCHANGED <<trouble, log, file, pc, mem, slurm, event, near, row, recom, gone, judged, checked, sure, left>>

Befall(t) ==
  /\ Up /\ trouble = "none" /\ Happens("trouble")
  /\ trouble' = t
  /\ slurm' = [slurm EXCEPT !.drain = IF t = "hang" /\ @ = "no" THEN "down" ELSE @]
  /\ UNCHANGED <<rebooted, log, file, pc, mem, event, near, row, recom, gone, judged, checked, sure>>

(* The host starts again, which takes longer than the log stays fresh, and   *)
(* nothing that ran goes on.                                                 *)
Restarted ==
  /\ rebooted' = TRUE /\ log' = [log EXCEPT !.fresh = FALSE]
  /\ pc' = [p \in Programs |-> "idle"] /\ mem' = [p \in Programs |-> Nil] /\ sure' = {}
  /\ slurm' = [slurm EXCEPT !.job = "none", !.drain = IF @ = "down" THEN "no" ELSE @]

Crash ==
  /\ Up /\ Happens("crash") /\ Restarted
  /\ UNCHANGED <<trouble, file, event, near, row, recom, gone, judged, checked>>

Scontrol(drain) ==
  /\ ~gone /\ slurm.drain # drain /\ Happens("scontrol")
  /\ slurm' = [slurm EXCEPT !.drain = drain]
  /\ recom' = [recom EXCEPT !.resumed = @ \/ (drain = "no" /\ recom.pc = "ready")]
  /\ UNCHANGED <<host, log, file, pc, mem, event, near, row, gone, judged, checked, sure>>

(***************************************************************************)
(* OCI's event.                                                            *)
(***************************************************************************)

Announce(kind) ==
  /\ ~gone /\ event = NoEvent /\ Happens("event")
  /\ event' = [kind |-> kind, state |-> "SCHEDULED"]
  /\ UNCHANGED <<host, log, file, pc, mem, slurm, near, row, recom, gone, judged, checked, sure>>

Approach ==
  /\ event.state = "SCHEDULED" /\ ~near /\ near' = TRUE
  /\ UNCHANGED <<host, log, file, pc, mem, slurm, event, row, recom, gone, judged, checked, sure, left>>

Begins ==
  /\ event = [kind |-> "REPAIR", state |-> "SCHEDULED"] /\ near
  /\ event' = [event EXCEPT !.state = "STARTED"]
  /\ UNCHANGED <<host, log, file, pc, mem, slurm, near, row, recom, gone, judged, checked, sure, left>>

(* Every result so far is from before the end of the repair.  A node that was *)
(* down because it did not answer comes back to Slurm when it does.          *)
Ends ==
  /\ event = [kind |-> "REPAIR", state |-> "STARTED"]
  /\ event' = [event EXCEPT !.state = "SUCCEEDED"]
  /\ trouble' \in {trouble, "none"}
  /\ file' = [file EXCEPT !.after = FALSE]
  /\ mem' = [p \in Programs |-> [mem[p] EXCEPT !.after = FALSE]]
  /\ row' = [row EXCEPT !.after = FALSE]
  /\ LET back == slurm.drain = "down" /\ trouble' = "none"
     IN  /\ slurm' = [slurm EXCEPT !.drain = IF back THEN "no" ELSE @]
         /\ recom' = [recom EXCEPT !.row.after = FALSE, !.resumed = @ \/ (back /\ recom.pc = "ready")]
  /\ checked' = FALSE
  /\ UNCHANGED <<rebooted, log, pc, near, gone, judged, sure, left>>

(***************************************************************************)
(* The service and mgmt recommendations run.                               *)
(***************************************************************************)

(* The database keeps the results by their time: an old one that reappears   *)
(* in the file is stored below the latest, unless the status did not change  *)
(* between the two.                                                          *)
Stored(r) ==
  LET taken == [r EXCEPT !.passive = file.passive, !.after = file.after, !.latest = ~file.old]
  IN  IF file = Torn \/ file.passive = "absent" \/ ~Up THEN {r}
      ELSE IF ~file.old THEN {taken}
      ELSE IF row.latest /\ (row.passive = "Healthy") # (file.passive = "Healthy") THEN {r}
      ELSE {r, taken}

Fetch ==
  /\ ~gone
  /\ row' \in Stored([row EXCEPT !.silent = ~Up, !.unconfigured = (slurm.drain = "absent"),
                                 !.event = event,
                                 !.slurm = [drained |-> slurm.drain \notin {"no", "absent"},
                                            busy |-> slurm.job # "none"]])
  /\ UNCHANGED <<host, log, file, pc, mem, slurm, event, near, recom, gone, judged, checked, sure, left>>

(* A lookup of the events that fails ends the run before it begins.          *)
Plan(modes) ==
  /\ ~gone /\ recom.pc = "idle" /\ Candidates(row, modes) # {}
  /\ LET action == Chosen(Candidates(row, modes))
     IN  /\ ~Held(row, action, event, near)
         /\ action # "reconfigure" => Allowed(row.slurm)
         /\ recom' = [pc |-> "planned", action |-> action, row |-> Read(row), repaired |-> FALSE, resumed |-> FALSE]
  /\ UNCHANGED <<host, log, file, pc, mem, slurm, event, near, row, gone, judged, checked, sure, left>>

(* Other nodes may have taken their ten minutes before this one is ready.    *)
AskOci ==
  /\ recom.pc = "planned"
  /\ recom' = IF Held(recom.row, recom.action, event, near) THEN Idle
              ELSE [recom EXCEPT !.pc = IF recom.action = "reconfigure" THEN "ready" ELSE "asked",
                                 !.repaired = Repaired(event)]
  /\ UNCHANGED <<host, log, file, pc, mem, slurm, event, near, row, gone, judged, checked, sure, left>>

NotAsked ==
  /\ recom.pc \in {"planned", "asked"}
  /\ recom' = Idle
  /\ UNCHANGED <<host, log, file, pc, mem, slurm, event, near, row, gone, judged, checked, sure, left>>

\* Mutant: Slurm is asked through the row.
AskSlurmStored ==
  /\ recom.pc = "asked"
  /\ recom' = IF Allowed(row.slurm) THEN [recom EXCEPT !.pc = "ready", !.resumed = FALSE] ELSE Idle
  /\ UNCHANGED <<host, log, file, pc, mem, slurm, event, near, row, gone, judged, checked, sure, left>>

AskSlurm ==
  /\ recom.pc = "asked"
  /\ recom' = IF Allowed([drained |-> slurm.drain \notin {"no", "absent"}, busy |-> slurm.job # "none"])
              THEN [recom EXCEPT !.pc = "ready", !.resumed = FALSE] ELSE Idle
  /\ UNCHANGED <<host, log, file, pc, mem, slurm, event, near, row, gone, judged, checked, sure, left>>

(* What an action cures, or does not.                                        *)
Cures(action) ==
  trouble' \in {trouble} \cup (IF trouble = "hang" /\ action = "reboot" THEN {"none"}
                               ELSE IF action \in DOMAIN Advice /\ trouble = Advice[action] THEN {"none"}
                               ELSE {})

(* An error of OCI is logged, and the run goes on to the next node.          *)
Act ==
  /\ recom.pc = "ready" /\ ~gone
  /\ recom' = Idle
  /\ \/ UNCHANGED <<host, log, pc, mem, sure, slurm, gone>>
     \/ recom.action = "terminate" /\ gone' = TRUE /\ UNCHANGED <<host, log, pc, mem, sure, slurm>>
     \/ /\ recom.action \in {"reboot", "reset_gpus", "enable_rdma"} /\ Cures(recom.action)
        /\ IF recom.action = "reboot" THEN Restarted
           ELSE Up /\ UNCHANGED <<rebooted, log, pc, mem, sure, slurm>>
        /\ UNCHANGED gone
     \/ /\ recom.action = "reconfigure" /\ Up
        /\ slurm' = [slurm EXCEPT !.drain = IF @ = "absent" THEN "no" ELSE @]
        /\ UNCHANGED <<host, log, pc, mem, sure, gone>>
  /\ UNCHANGED <<file, event, near, row, judged, checked, left>>

Step(p) == Judge(p) \/ Load(p) \/ Open(p) \/ Dump(p) \/ Grep(p) \/ Show(p) \/ Resume(p) \/ Drain(p)

Next ==
  \/ HealthCheckProgram \/ Manual \/ ActiveCheck \/ JobEnds \/ Minute \/ TwoHours
  \/ \E p \in Programs : Step(p)
  \/ \E kind \in {"user"} \cup (Programs \cap {"active"}) : Submit(kind)
  \/ \E t \in Troubles : Befall(t)
  \/ Crash
  \/ \E drain \in {"no", "other", "absent"} : Scontrol(drain)
  \/ \E kind \in {"REPAIR", "TERMINATE"} : Announce(kind)
  \/ Approach \/ Begins \/ Ends
  \/ Fetch
  \/ \E modes \in SUBSET Modes : Plan(modes)
  \/ AskOci \/ NotAsked \/ AskSlurm \/ Act

(* A file is torn for an instant, so not whenever the service reads it.      *)
Fairness ==
  /\ WF_vars(HealthCheckProgram) /\ WF_vars(ActiveCheck) /\ WF_vars(JobEnds)
  /\ WF_vars(Minute) /\ WF_vars(Fetch) /\ SF_vars(Fetch /\ file # Torn)
  /\ \A p \in Programs : WF_vars(Step(p))

Spec == Init /\ [][Next]_vars /\ Fairness

(***************************************************************************)
(* Properties.                                                             *)
(***************************************************************************)

\* A reboot, a reset or a termination by `mgmt recommendations run` never hits a job, unless the node was
\* resumed after Slurm was asked about it, by somebody or because it answers again: what was planned on
\* the row is asked again.
JobsSpared ==
  [][recom.pc = "ready" /\ recom.action # "reconfigure" /\ recom' = Idle /\ slurm.job # "none"
       => recom.resumed]_vars

\* After a repair `mgmt recommendations run` acts on the health check's verdict only when a passive check
\* dated after the repair was published, wherever older results survive: in the row, in the file, in what
\* a program that is about to write has read. (A check dates its verdict when it comes to write it: one
\* that looked before the end of the repair and is dated after it counts.)
RepairIsChecked ==
  [][recom.pc = "ready" /\ recom' = Idle /\ recom.repaired /\ recom.action \in DOMAIN Advice
       /\ recom.row.passive = Advice[recom.action]
       => checked]_vars

\* When the health check has drained the node and a script greps the log, that script resumes the node
\* from this drain only if the last check with --slurm to look found the host well, unless a check
\* without it had emptied the log. (A drain set after the script grepped is resumed all the same.)
DrainedUntilWell == [][\A p \in sure : Resume(p) /\ Lifts(slurm.drain) => judged]_vars

\* A trouble that stays reaches the row, whatever files are torn and results lost on the way.
TroubleIsReported ==
  (trouble # "none") ~>
    \/ trouble = "none" \/ gone \/ row.unconfigured
    \/ IF trouble = "hang" THEN row.silent ELSE row.passive \in {trouble, "Terminate"}
=============================================================================
