------------------------- MODULE MaintenanceEvents -------------------------
(* The maintenance events of one compute node.  OCI announces, moves and     *)
(* ends them; each pass of the management service reads the node's Slurm     *)
(* state, lists the events, chooses one, reads its details, moves its        *)
(* window, drains or resumes the node, and stores what it saw                *)
(* (process_instance_maintenance_events, mgmt/lib/functions.py).  Between    *)
(* any two of these calls operators and the health-check program of the      *)
(* node change the same Slurm state, and OCI the same event.                 *)
EXTENDS Integers, Sequences

CONSTANTS Event,     \* the events' ids, in the order of their windows
          NoEvent,   \* the id column before there is an event
          Managed,   \* those whose display_name mgmt acts upon
          Detailed,  \* those whose details name a fault id
          Policy,    \* maintenance.json: without and with a known fault id
          Faults,    \* the calls that may fail
          MaxOps,    \* bound on what operators and health checks change
          MaxFaults  \* bound on failed calls

Actions == {"always", "never", "healthcheck"}

ASSUME ParameterAssumption ==
  /\ Event \subseteq Nat /\ NoEvent \notin Event
  /\ Managed \subseteq Event /\ Detailed \subseteq Event
  /\ Policy \in [BOOLEAN -> [drain : Actions, schedule : Actions]]
  /\ Faults \subseteq {"sinfo", "details", "list", "get", "reschedule", "scontrol", "crash"}
  /\ MaxOps \in Nat /\ MaxFaults \in Nat

VARIABLES
  ev,        \* each event in OCI: its state, and where its window stands
  finished,  \* the events that ended, in the order of time_finished
  slurm,     \* the node in Slurm: absent, not drained, or who drained it
  sick,      \* the passive health check recommends a repair
  script,    \* what healthchecks.sh decided to do with the node
  stored,    \* maintenance_event_id and _lifecycle_state of the node's row
  pc,        \* where the pass is
  seen,      \* the pass's slurm_info: Slurm's state, or drained and no reason told
  copy,      \* the pass's event
  may,       \* the actions the policy enables for it
  touched,   \* history: somebody else changed Slurm since the pass read it
  ops, faults

oci  == <<ev, finished>>
node == <<slurm, sick, script, touched>>
pass == <<pc, seen, copy, may>>
vars == <<oci, node, pass, stored, ops, faults>>

Pending  == {"SCHEDULED", "STARTED", "PROCESSING"}
Excluded == {"FAILED", "CANCELED"}
States   == Pending \cup Excluded \cup {"SUCCEEDED"}
(* A window is known by where it stands on the clock: gone by, within the    *)
(* five minutes of MAINTENANCE_EVENT_SCHEDULED_WINDOW_LIMIT, or further off. *)
Windows  == {"past", "near", "far"}
Slurm    == {"absent", "up", "ime", "healthcheck", "other"}
Info     == Slurm \cup {"unknown"}
Copy     == [id : Event, state : States \cup {"none"}, window : Windows, detailed : BOOLEAN]

TypeOK ==
  /\ ev \in [Event -> [state : States \cup {"none"}, window : Windows]]
  /\ finished \in Seq(Event)
  /\ slurm \in Slurm /\ sick \in BOOLEAN /\ touched \in BOOLEAN
  /\ script \in {"idle", "drain", "resume"}
  /\ stored \in [id : Event \cup {NoEvent}, state : States \cup {"none"}]
  /\ pc \in {"idle", "list", "detail", "reschedule", "drain", "resume", "store"}
  /\ seen \in Info
  /\ copy \in Copy \cup {NoEvent}
  /\ (pc \notin {"idle", "list"}) => copy \in Copy
  /\ may \subseteq {"drain", "schedule"}
  /\ ops \in 0..MaxOps /\ faults \in 0..MaxFaults

Init ==
  /\ ev = [e \in Event |-> [state |-> "none", window |-> "far"]]
  /\ finished = << >>
  /\ slurm = "up" /\ sick = FALSE /\ script = "idle" /\ touched = FALSE
  /\ stored = [id |-> NoEvent, state |-> "none"]
  /\ pc = "idle" /\ seen = "absent" /\ copy = NoEvent /\ may = {}
  /\ ops = 0 /\ faults = 0

Fails(call) == call \in Faults /\ faults < MaxFaults /\ faults' = faults + 1

(***************************************************************************)
(* OCI.                                                                    *)
(***************************************************************************)

Announce(e) ==
  /\ ev[e].state = "none"
  /\ \E w \in {"near", "far"} : ev' = [ev EXCEPT ![e] = [state |-> "SCHEDULED", window |-> w]]
  /\ UNCHANGED <<finished, node, pass, stored, ops, faults>>

Approach(e) ==
  /\ ev[e].state = "SCHEDULED" /\ ev[e].window = "far"
  /\ ev' = [ev EXCEPT ![e].window = "near"]
  /\ UNCHANGED <<finished, node, pass, stored, ops, faults>>

(* The window opens and nothing happens yet.                                 *)
Lapse(e) ==
  /\ ev[e].state = "SCHEDULED" /\ ev[e].window = "near"
  /\ ev' = [ev EXCEPT ![e].window = "past"]
  /\ UNCHANGED <<finished, node, pass, stored, ops, faults>>

Proceed(e) ==
  /\ \/ ev[e].state = "SCHEDULED" /\ ev[e].window # "far"
        /\ ev' = [ev EXCEPT ![e].state = "STARTED"]
     \/ ev[e].state = "STARTED" /\ ev' = [ev EXCEPT ![e].state = "PROCESSING"]
  /\ UNCHANGED <<finished, node, pass, stored, ops, faults>>

End(e) ==
  /\ \E s \in IF ev[e].state = "SCHEDULED" THEN {"CANCELED"} ELSE {"SUCCEEDED", "FAILED"} :
        ev' = [ev EXCEPT ![e].state = s]
  /\ ev[e].state \in {"SCHEDULED", "PROCESSING"}
  /\ finished' = Append(finished, e)
  /\ UNCHANGED <<node, pass, stored, ops, faults>>

(***************************************************************************)
(* Slurm and the people and programs that use it.                          *)
(***************************************************************************)

(* scontrol by an operator, or the node leaving and joining Slurm.           *)
Others(s) ==
  /\ ops < MaxOps /\ ops' = ops + 1
  /\ slurm # s /\ slurm' = s
  /\ touched' = (pc # "idle")
  /\ UNCHANGED <<oci, sick, script, pass, stored, faults>>

Passive ==
  /\ ops < MaxOps /\ ops' = ops + 1
  /\ sick' = ~sick
  /\ UNCHANGED <<oci, slurm, script, touched, pass, stored, faults>>

(* healthchecks.sh reads the reason of the node outside a job ...            *)
ScriptReads ==
  /\ script = "idle" /\ slurm # "absent"
  /\ script' = IF sick THEN IF slurm = "ime" THEN "idle" ELSE "drain"
               ELSE IF slurm = "healthcheck" THEN "resume" ELSE "idle"
  /\ UNCHANGED <<oci, slurm, sick, touched, pass, stored, ops, faults>>

(* ... and sets its state, whatever the reason has become.                   *)
ScriptActs ==
  /\ script # "idle"
  /\ script' = "idle"
  /\ slurm' = IF slurm = "absent" THEN "absent"
              ELSE IF script = "resume" THEN "up" ELSE "healthcheck"
  /\ touched' = (pc # "idle" /\ (touched \/ slurm' # slurm))
  /\ UNCHANGED <<oci, sick, pass, stored, ops, faults>>

(***************************************************************************)
(* Choosing the event.                                                     *)
(***************************************************************************)

(* MAINTENANCE_EVENT_STATE_PRIORITY and the start of the window, the two     *)
(* leading parts of the sort key; the id is the third.                       *)
Rank(s)      == CASE s = "PROCESSING" -> 0 [] s = "STARTED" -> 1 [] s = "SCHEDULED" -> 2 [] OTHER -> 3
Opens(w)     == CASE w = "past" -> 0 [] w = "near" -> 1 [] OTHER -> 2
Before(e, f) ==
  LET re == Rank(ev[e].state)    rf == Rank(ev[f].state)
      we == Opens(ev[e].window)  wf == Opens(ev[f].window)
  IN re < rf \/ (re = rf /\ (we < wf \/ (we = wf /\ e < f)))
First(e, S)  == e \in S /\ \A f \in S \ {e} : Before(e, f)

InStates(S)    == {e \in Event : ev[e].state \in S}
Ended(e, f)    == \E i, j \in DOMAIN finished : i < j /\ finished[i] = e /\ finished[j] = f
LastEnded(e, S) == e \in S /\ \A f \in S \ {e} : Ended(f, e)

\* Mutant: no detour from a missed window to a later event.
GeneralFirst(e) ==
  LET candidates == InStates(Pending \cup {"SUCCEEDED"})
  IN \E f \in candidates :
       /\ First(f, candidates)
       /\ IF ev[f].state = "SUCCEEDED" THEN LastEnded(e, candidates) ELSE e = f

(* _select_instance_maintenance_event chooses e.                             *)
General(e) ==
  LET candidates == InStates(Pending \cup {"SUCCEEDED"})
      movable    == {f \in InStates({"SCHEDULED"}) \cap Managed : ev[f].window = "far"}
      Missed(f)  == f \in InStates({"SCHEDULED"}) \cap Managed /\ ev[f].window = "past"
  IN \E f \in candidates :
       /\ First(f, candidates)
       /\ IF ev[f].state = "SUCCEEDED" THEN LastEnded(e, candidates)
          ELSE IF Missed(f) /\ movable # {} THEN First(e, movable)
          ELSE e = f

\* Mutant: the stored event is not looked for among the failed and cancelled.
SelectedGeneral(e) == General(e)

(* _select_instance_maintenance_event_for_node: a stored event that failed   *)
(* or was cancelled is shown until something newer supersedes it.            *)
Selected(e) ==
  LET newer == {f \in InStates({"SUCCEEDED"}) : Ended(stored.id, f)}
  IN IF /\ stored.id \in InStates(Excluded)
        /\ InStates(Pending) = {}
     THEN IF newer # {} THEN LastEnded(e, newer) ELSE e = stored.id
     ELSE General(e)

(***************************************************************************)
(* One pass of the service.                                                *)
(***************************************************************************)

(* The pass goes on with `step`; what it knew is gone when it is over.        *)
GoTo(step, c, m) ==
  /\ pc' = step
  /\ IF step = "idle" THEN seen' = "absent" /\ copy' = NoEvent /\ may' = {} /\ touched' = FALSE
     ELSE copy' = c /\ may' = m /\ UNCHANGED <<seen, touched>>

(* get_slurm_state.  When sinfo fails the dictionary is empty; when sinfo    *)
(* gives no reason and scontrol show node fails, or leaves the node out, a   *)
(* drained node is one whose reason is not known.                            *)
ReadSlurm ==
  /\ pc = "idle" /\ pc' = "list"
  /\ \/ seen' = slurm /\ UNCHANGED faults
     \/ Fails("sinfo") /\ seen' = "absent"
     \/ slurm \notin {"absent", "up"} /\ Fails("details") /\ seen' = "unknown"
  /\ UNCHANGED <<oci, node, copy, may, stored, ops>>

Snapshot(e, d) == [id |-> e, state |-> ev[e].state, window |-> ev[e].window, detailed |-> d]

\* Mutant: `if event is None: continue` is missing.
ListAlways ==
  /\ pc = "list"
  /\ \/ \E e \in Event : Selected(e) /\ GoTo("detail", Snapshot(e, FALSE), {})
     \/ (\A e \in Event : ~Selected(e)) /\ GoTo("detail", NoEvent, {})
  /\ UNCHANGED <<oci, slurm, sick, script, stored, ops, faults>>

(* list_instance_maintenance_events and the choice.  The list has no fault   *)
(* ids; when it fails, or offers nothing, the pass is over.                  *)
List ==
  /\ pc = "list"
  /\ \/ \E e \in Event : Selected(e) /\ GoTo("detail", Snapshot(e, FALSE), {}) /\ UNCHANGED faults
     \/ (\A e \in Event : ~Selected(e)) /\ GoTo("idle", copy, may) /\ UNCHANGED faults
     \/ Fails("list") /\ GoTo("idle", copy, may)
  /\ UNCHANGED <<oci, slurm, sick, script, stored, ops>>

(* _maintenance_event_policy and _maintenance_action_enabled.                *)
Enabled(c) ==
  LET p == Policy[c.detailed]
      On(v) == v = "always" \/ (v = "healthcheck" /\ sick)
  IN (IF On(p.drain) THEN {"drain"} ELSE {}) \cup (IF On(p.schedule) THEN {"schedule"} ELSE {})

\* Mutant: success resumes every drained node, whoever drained it.
SlurmStepResumesAll(c, m) ==
  CASE c.state = "SUCCEEDED" ->
         (CASE seen = "absent" -> "idle" [] seen = "up" -> "store" [] OTHER -> "resume")
    [] c.state \in Pending /\ "drain" \in m ->
         (CASE seen = "absent" -> "idle" [] seen \in {"up", "healthcheck"} -> "drain" [] OTHER -> "store")
    [] OTHER -> "store"

\* Mutant: a node missing from sinfo is taken for one with nothing to resume.
SlurmStepNoDeferral(c, m) ==
  CASE c.state = "SUCCEEDED" -> IF seen = "ime" THEN "resume" ELSE "store"
    [] c.state \in Pending /\ "drain" \in m ->
         IF seen \in {"up", "healthcheck"} THEN "drain" ELSE "store"
    [] OTHER -> "store"

(* What to do about Slurm: the next step of the pass, "idle" when the event  *)
(* is put off to the next one.                                               *)
SlurmStep(c, m) ==
  CASE c.state = "SUCCEEDED" ->
         (CASE seen = "absent" -> "idle" [] seen = "ime" -> "resume" [] OTHER -> "store")
    [] c.state \in Pending /\ "drain" \in m ->
         (CASE seen = "absent" -> "idle" [] seen \in {"up", "healthcheck"} -> "drain" [] OTHER -> "store")
    [] OTHER -> "store"

\* Mutant: without maintenance_should_own_slurm, an event stored in its present
\* state is never looked at again.
HandleStepOnce(c, m) ==
  LET far     == c.state = "SCHEDULED" /\ c.window = "far"
      current == ~far /\ stored = [id |-> c.id, state |-> c.state]
  IN IF c.id \notin Managed \/ current THEN "store"
     ELSE IF far /\ "schedule" \in m THEN "reschedule"
     ELSE SlurmStep(c, m)

(* _handle_maintenance_event.                                                *)
HandleStep(c, m) ==
  LET far     == c.state = "SCHEDULED" /\ c.window = "far"
      current == ~far /\ stored = [id |-> c.id, state |-> c.state]
      owns    == "drain" \in m /\ c.state \in Pending /\ seen \in {"up", "healthcheck"}
  IN IF c.id \notin Managed \/ (current /\ ~owns) THEN "store"
     ELSE IF far /\ "schedule" \in m THEN "reschedule"
     ELSE SlurmStep(c, m)

Handle(c) == GoTo(HandleStep(c, Enabled(c)), c, Enabled(c))

(* get_instance_maintenance_event gives the event as it is now; on failure   *)
(* the copy stays what the list said.                                        *)
Detail ==
  /\ pc = "detail"
  /\ \/ Handle(Snapshot(copy.id, copy.id \in Detailed)) /\ UNCHANGED faults
     \/ Fails("get") /\ Handle(copy)
  /\ UNCHANGED <<oci, slurm, sick, script, stored, ops>>

(* _reschedule_maintenance_event: OCI moves only what has not begun, and     *)
(* returns the event as it is then.                                          *)
Reschedule ==
  /\ pc = "reschedule"
  /\ \/ LET c == [copy EXCEPT !.window = "near", !.detailed = copy.id \in Detailed]
        IN /\ ev[copy.id].state = "SCHEDULED"
           /\ ev' = [ev EXCEPT ![copy.id].window = "near"]
           /\ GoTo(SlurmStep(c, may), c, may)
           /\ UNCHANGED faults
     \/ /\ \/ ev[copy.id].state # "SCHEDULED" /\ UNCHANGED faults
           \/ Fails("reschedule")
        /\ GoTo("idle", copy, may) /\ UNCHANGED ev
  /\ UNCHANGED <<finished, slurm, sick, script, stored, ops>>

(* update_slurm_node_state; scontrol refuses a node Slurm does not have.     *)
UpdateSlurm ==
  /\ pc \in {"drain", "resume"}
  /\ \/ /\ slurm # "absent"
        /\ slurm' = IF pc = "drain" THEN "ime" ELSE "up"
        /\ GoTo("store", copy, may) /\ UNCHANGED faults
     \/ /\ \/ slurm = "absent" /\ UNCHANGED faults
           \/ Fails("scontrol")
        /\ GoTo("idle", copy, may) /\ UNCHANGED slurm
  /\ UNCHANGED <<oci, sick, script, stored, ops>>

\* Mutant: what is recorded is always read again.
StoreAfresh ==
  /\ pc = "store"
  /\ stored' = [id |-> copy.id, state |-> ev[copy.id].state]
  /\ GoTo("idle", copy, may)
  /\ UNCHANGED <<oci, slurm, sick, script, ops, faults>>

(* _store_maintenance_event reads the details once more when it has none.    *)
Store ==
  /\ pc = "store"
  /\ \/ /\ stored' = [id |-> copy.id,
                      state |-> IF copy.detailed THEN copy.state ELSE ev[copy.id].state]
        /\ UNCHANGED faults
     \/ /\ Fails("get") /\ ~copy.detailed
        /\ stored' = [id |-> copy.id, state |-> copy.state]
  /\ GoTo("idle", copy, may)
  /\ UNCHANGED <<oci, slurm, sick, script, ops>>

Crash ==
  /\ pc # "idle"
  /\ Fails("crash") /\ GoTo("idle", copy, may)
  /\ UNCHANGED <<oci, slurm, sick, script, stored, ops>>

Service == ReadSlurm \/ List \/ Detail \/ Reschedule \/ UpdateSlurm \/ Store

Next ==
  \/ \E e \in Event : Announce(e) \/ Approach(e) \/ Lapse(e) \/ Proceed(e) \/ End(e)
  \/ \E s \in {"absent", "up", "other"} : Others(s)
  \/ Passive \/ ScriptReads \/ ScriptActs
  \/ Service
  \/ Crash

Spec == Init /\ [][Next]_vars

(* The timer starts a pass every minute, no call of it waits without a time  *)
(* limit, and windows open when the clock reaches them.  Nothing obliges OCI *)
(* to start or end an event, nor an operator to act.                         *)
FairSpec == Spec /\ WF_vars(Service) /\ \A e \in Event : WF_vars(Lapse(e))

(***************************************************************************)
(* Safety.                                                                 *)
(***************************************************************************)

(* The pass is about to take over or lift a drain that is neither its own    *)
(* nor the health check's only if somebody set it after the pass had read    *)
(* Slurm: nothing the pass decides or the policy says leads there otherwise. *)
ForeignDrainKept ==
  pc \in {"drain", "resume"} /\ slurm = "other" => touched

(* A managed event the pass saw as succeeded is recorded as such, which      *)
(* keeps later passes from resuming the node, only when the node is no       *)
(* longer drained for maintenance, or when Slurm did not tell the pass why   *)
(* it is drained: the code then takes the drain for somebody else's and      *)
(* records the success with its own drain still set.                         *)
ResumedBeforeStored ==
  [][pc = "store" /\ copy.id \in Managed /\ copy.state = "SUCCEEDED"
       /\ stored' # stored => slurm # "ime" \/ seen = "unknown"]_vars

(* What makes the two inductive: while the pass has not acted, Slurm is as   *)
(* it read it or somebody else changed it, and nobody else drains for        *)
(* maintenance; it acts only on grounds it read; an event it saw succeed     *)
(* has succeeded for good.                                                   *)
Reading == {"list", "detail", "reschedule", "drain", "resume"}

Fresh ==
  pc \in Reading =>
    /\ seen \in Slurm \ {"absent"} /\ slurm # seen => touched
    /\ seen \notin {"absent", "ime", "unknown"} => slurm # "ime"

Grounds ==
  /\ pc = "drain" => seen \in {"up", "healthcheck"} /\ copy.state \in Pending
  /\ pc = "resume" => seen = "ime"
  /\ pc = "reschedule" => copy.state = "SCHEDULED"
  /\ pc \notin {"idle", "list"} /\ copy.state = "SUCCEEDED" => ev[copy.id].state = "SUCCEEDED"

Resumed ==
  pc = "store" /\ copy.id \in Managed /\ copy.state = "SUCCEEDED"
    => slurm # "ime" \/ seen = "unknown" \/ stored = [id |-> copy.id, state |-> "SUCCEEDED"]

IInv == TypeOK /\ Fresh /\ Grounds /\ Resumed

(***************************************************************************)
(* Liveness.                                                               *)
(***************************************************************************)

Active == {"STARTED", "PROCESSING"}

(* While a managed event is under way the node does not stay available to    *)
(* jobs, nor drained only until its health check is content: under a policy  *)
(* that drains, every lasting event finds it drained again and again, but    *)
(* while one that mgmt does not act upon is under way and may be chosen.     *)
ActiveIsDrained ==
  \A e \in Managed :
    (ev[e].state \in Active /\ \A d \in BOOLEAN : Policy[d].drain = "always")
      ~> \/ ev[e].state \notin Active \/ slurm \in {"ime", "other", "absent"}
         \/ InStates(Active) \ Managed # {}

(* The last event of the node to end has succeeded and no other is under     *)
(* way or planned, whether or not mgmt acts upon the others.                 *)
Over(e) ==
  /\ ev[e].state = "SUCCEEDED" /\ InStates(Pending) = {}
  /\ LastEnded(e, InStates(Excluded \cup {"SUCCEEDED"}))

(* A node drained for maintenance comes back once the maintenance is over,   *)
(* if the details of the event name a fault id.  Of an event without one,    *)
(* _store_maintenance_event reads the state once more and may record a       *)
(* success that no pass has acted upon; an event of another kind that ends   *)
(* later takes the place of this one.  Both leave the node drained.          *)
CompletionResumes ==
  \A e \in Managed \cap Detailed : Over(e) ~> (~Over(e) \/ slurm # "ime")

(* A managed event far in the future is moved close, under a policy that     *)
(* schedules, also when another managed event has missed its window; not     *)
(* while some event is under way, nor as long as an event that mgmt does not *)
(* act upon is planned: once its window has passed it is chosen before any.  *)
FarIsMoved ==
  \A e \in Managed :
    (ev[e].state = "SCHEDULED" /\ ev[e].window = "far" /\ \A d \in BOOLEAN : Policy[d].schedule = "always")
      ~> \/ ev[e].window # "far" \/ ev[e].state # "SCHEDULED"
         \/ InStates(Active) # {} \/ InStates({"SCHEDULED"}) \ Managed # {}

(* The database does not go on showing as unfinished an event that ended,    *)
(* while the calls of the passes succeed and the node is known to Slurm.     *)
Outdated(e) ==
  stored.id = e /\ stored.state # ev[e].state /\ ev[e].state \in Excluded \cup {"SUCCEEDED"}
StoredCatchesUp ==
  \A e \in Event : Outdated(e) ~> (~Outdated(e) \/ slurm = "absent")

=============================================================================
