---------------------------- MODULE HealthVerdict ----------------------------
(* What a pass of the health checks promises: the recommendation it ends     *)
(* with is as grave as the gravest thing it found, no more and no less,      *)
(* except that a reboot may become a termination.                            *)
EXTENDS Integers

VARIABLES action, worst, verdict

vars == <<action, worst, verdict>>

Action == {"None", "Wait_For_OCA", "Check_nhc_log", "Enable_Instance_RDMA_Plugins",
           "FabricManagerRestart", "Reboot", "Reset_GPU", "Terminate"}

(* To wait or look; to repair in place; to give the host back.               *)
Weight(a) ==
  CASE a = "Terminate" -> 3
    [] a \in {"FabricManagerRestart", "Reboot", "Reset_GPU"} -> 2
    [] a \in {"Wait_For_OCA", "Check_nhc_log", "Enable_Instance_RDMA_Plugins"} -> 1
    [] OTHER -> 0

Graver(m, n) == IF m < n THEN n ELSE m

Init == action = "None" /\ worst = 0 /\ verdict = "none"

Find(a) ==
  /\ verdict = "none"
  /\ worst' = Graver(worst, Weight(a))
  /\ action' \in {action, a} /\ Weight(action') = worst'
  /\ UNCHANGED verdict

Publish ==
  /\ verdict = "none"
  /\ verdict' \in (IF action = "None" THEN {"Healthy"}
                   ELSE IF action = "Reboot" THEN {"Reboot", "Terminate"} ELSE {action})
  /\ UNCHANGED <<action, worst>>

Next == (\E a \in Action : Find(a)) \/ Publish

Spec == Init /\ [][Next]_vars
=============================================================================
