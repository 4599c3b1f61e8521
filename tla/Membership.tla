----------------------------- MODULE Membership -----------------------------
(* What the control plane promises of an address of the cluster, whichever   *)
(* instances hold it one after the other, and whatever messages, passes and  *)
(* commands do at the same time: it is registered, configured, marked and    *)
(* retired in this order, it is retired and taken out of Slurm only when its *)
(* instance was given up, and the exceptions are those of operators.         *)

CONSTANTS Addr

VARIABLES
  stage,     \* of each address
  givenUp,   \* those of which somebody asked to terminate an instance
  touched,   \* those an operator changed beside the pass that is under way
  registered \* those in Slurm

vars == <<stage, givenUp, touched, registered>>

Init ==
  /\ stage = [a \in Addr |-> "absent"]
  /\ givenUp = {} /\ touched = {} /\ registered = {}

Moved(S, s) == stage' = [a \in Addr |-> IF a \in S THEN s ELSE stage[a]]

(* A message, a rescan or the first answer of a node; at any stage.          *)
Join(S) == Moved(S, "joining") /\ UNCHANGED <<givenUp, touched, registered>>

Configure(a) ==
  /\ stage[a] = "joining" /\ Moved({a}, "member")
  /\ UNCHANGED <<givenUp, touched, registered>>

Leave(a) ==
  /\ a \in givenUp /\ stage[a] # "absent" /\ Moved({a}, "leaving")
  /\ UNCHANGED <<givenUp, touched, registered>>

Depart(a) ==
  /\ stage[a] = "leaving" /\ Moved({a}, "absent")
  /\ UNCHANGED <<givenUp, touched, registered>>

(* A pass ends with what it decided before the operator came.                *)
Override(a) ==
  /\ a \in touched /\ stage[a] # "absent" /\ \E s \in {"member", "absent"} : Moved({a}, s)
  /\ UNCHANGED <<givenUp, touched, registered>>

Register(a) == registered' = registered \cup {a} /\ UNCHANGED <<stage, givenUp, touched>>

(* The playbook, with what its query found: an address an operator changed   *)
(* since may be joining again, or have no row any more.                      *)
Unregister(S) ==
  /\ \A a \in S : stage[a] = "leaving" \/ a \in touched
  /\ registered' = registered \ S
  /\ UNCHANGED <<stage, givenUp, touched>>

EndPass == touched' = {} /\ UNCHANGED <<stage, givenUp, registered>>

(* Terminate, reconfigure or add, delete.                                    *)
Operate(a) ==
  /\ \/ givenUp' = givenUp \cup {a} /\ (UNCHANGED stage \/ (stage[a] # "absent" /\ Moved({a}, "leaving")))
     \/ UNCHANGED givenUp /\ (UNCHANGED stage \/ \E s \in {"joining", "absent"} : Moved({a}, s))
  /\ touched' \in {touched, touched \cup {a}}
  /\ UNCHANGED registered

Next ==
  \/ EndPass
  \/ \E S \in SUBSET Addr : Join(S) \/ Unregister(S)
  \/ \E a \in Addr : Configure(a) \/ Leave(a) \/ Depart(a) \/ Override(a) \/ Register(a) \/ Operate(a)

Spec == Init /\ [][Next]_vars
=============================================================================
