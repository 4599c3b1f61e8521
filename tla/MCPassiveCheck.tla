--------------------------- MODULE MCPassiveCheck ---------------------------
(* Small instances of PassiveCheck for TLC: hosts of six shapes with one     *)
(* trouble, two of the graver ones, or two bad GPUs or links; logs with up   *)
(* to three lines; boots around every limit the program has.                 *)
EXTENDS PassiveCheck

Entry(a, unused, rules) == [action |-> a, unused |-> unused, rules |-> rules]
Rule(pattern, statuses, resolution) == [pattern |-> pattern, statuses |-> statuses, resolution |-> resolution]

(* 145 is decoded by its rules; 31 only warns; 48 asks for a reset.          *)
SmallCatalog ==
  [code \in {31, 48, 79, 145} |->
     CASE code = 31 -> Entry("RESTART_APP", FALSE, <<>>)
       [] code = 48 -> Entry("WORKFLOW_XID_48", FALSE, <<>>)
       [] code = 79 -> Entry("RESTART_BM", FALSE, <<>>)
       [] code = 145 -> Entry("WORKFLOW_NVLINK5_ERR", FALSE,
                              <<Rule(<<"1", "-">>, {"s"}, "CONTACT_SUPPORT"),
                                Rule(<<"1", "0">>, {}, "RESET_GPU"),
                                Rule(<<"0", "-">>, {}, "IGNORE")>>)]

Xid(code, nvl5, bits, status, to) ==
  [kind |-> "xid", code |-> code, nvl5 |-> nvl5, bits |-> bits, status |-> status, to |-> to]
Plain(code) == Xid(code, FALSE, <<>>, "", "unreadable")
Nvl5(bits, status) == Xid(145, TRUE, bits, status, "unreadable")
Line(kind) == [kind |-> kind]

Logs ==
  {<<Plain(31)>>, <<Plain(48)>>, <<Plain(74)>>, <<Plain(99)>>, <<Plain(145)>>,
   <<Xid(154, FALSE, <<>>, "", "Node Reboot Required")>>, <<Xid(154, FALSE, <<>>, "", "Odd")>>,
   <<Xid(154, FALSE, <<>>, "", "None")>>, <<Plain(154)>>,
   <<Nvl5(<<"1", "1">>, "s")>>, <<Nvl5(<<"1">>, "t")>>, <<Nvl5(<<"0", "1">>, "s")>>,
   <<Nvl5(<<"1", "1">>, "t")>>,
   <<Nvl5(<<"0", "1">>, "s"), Nvl5(<<"1", "1">>, "s")>>, <<Nvl5(<<"1", "1">>, "s"), Nvl5(<<"1">>, "t")>>,
   <<Plain(48), Plain(99)>>, <<Line("insufficient resources")>>,
   <<Plain(48), Line("probe")>>, <<Line("probe"), Plain(48)>>, <<Line("probe")>>}

Boot(hours) == [hours |-> hours, future |-> FALSE, leap |-> FALSE]
First  == Boot(5000)
Calm   == <<First>>
NewYear == [hours |-> 400, future |-> TRUE, leap |-> FALSE]
LeapDay == [hours |-> 400, future |-> FALSE, leap |-> TRUE]
BootsOf == {Calm, <<Boot(1)>>, <<Boot(2), First>>, <<Boot(11), First>>, <<Boot(3), Boot(4), Boot(13), Boot(14), First>>,
            <<Boot(13), Boot(14), Boot(15), Boot(16), First>>,
            [i \in 1..7 |-> IF i = 7 THEN First ELSE Boot(2 + i)], <<LeapDay, First>>, <<NewYear, First>>}

Host(shape, planes) ==
  [shape |-> shape, planes |-> planes, trouble |-> {}, unfinished |-> {}, smi |-> "works",
   gpus |-> <<"fine", "fine">>, links |-> <<"fine", "fine">>, log |-> <<>>, mute |-> FALSE, boots |-> Calm]

Good == {Host("H100.8", 1), Host("B300.8", 4), Host("GB300.4", 4), Host("GB200.4", 1), Host("MI300X.8", 1)}
Unknown == Host("MI355X-v0.8", 1)

Grave == {"volatile ecc", "lost gpu", "narrow pcie", "off the bus", "rails out of order", "plugin off",
          "unauthenticated", "fabric", "nhc error", "dcgmi failure"}
Trouble == Grave \cup {"old agent", "rttcc", "route missing", "gid", "ovs mtu", "imex", "flap", "bad pages",
                       "no ip", "two ips", "nvlink", "rocminfo"}

Sick ==
  {[g EXCEPT !.trouble = {s, t}] : g \in Good, s \in Grave, t \in Grave}
  \cup {[g EXCEPT !.trouble = {t}] : g \in Good, t \in Trouble}
  \cup {[g EXCEPT !.trouble = {t}, !.unfinished = {"authentication"}] : g \in Good, t \in Grave}
  \cup {[g EXCEPT !.trouble = {t}, !.smi = s] : g \in Good, t \in {"volatile ecc", "lost gpu", "fabric", "nvlink"}, s \in Smi}
  \cup {[g EXCEPT !.gpus[2] = r] : g \in Good, r \in {"pending", "failure", "over 512", "up to 512"}}
  \cup {[g EXCEPT !.links[1] = l] : g \in Good, l \in {"error", "down", "bad signal", "unreadable"}}

Logged == {[g EXCEPT !.log = l, !.boots = b] : g \in {Host("H100.8", 1)}, l \in Logs, b \in BootsOf}
Rebooted == {[g EXCEPT !.trouble = {t}, !.boots = b] : g \in Good, t \in {"lost gpu", "no ip"}, b \in BootsOf}

(* Rows and links of both of two.                                            *)
Twice ==
  {[g EXCEPT !.gpus = <<r, s>>] : g \in {Host("H100.8", 1), Host("GB300.4", 4)}, r \in Rows, s \in Rows}
  \cup {[g EXCEPT !.links = <<l, k>>] : g \in {Host("H100.8", 1)}, l \in {"error", "down"},
                                         k \in {"error", "bad signal", "unreadable"}}

SmallHosts == Good \cup {Unknown} \cup Sick \cup Twice \cup Logged \cup Rebooted

SomeLines == {Plain(99), Line("probe")}
==============================================================================
