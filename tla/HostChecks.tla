----------------------------- MODULE HostChecks -----------------------------
(* The checks of check_gpu_setup.py, each as what it concludes of a host.    *)
(* A host is a record: its shape, its RDMA planes, a set of troubles, what   *)
(* the cloud agent has not finished, what nvidia-smi or amd-smi does, the    *)
(* row remapping of each GPU, the links as mlxlink shows them, the kernel    *)
(* log, and its boots.  A check that raises an exception reports nothing.    *)
EXTENDS XidChecks

Has(h, trouble) == trouble \in h.trouble

IsMI(shape) == shape \in {"MI300X.8", "MI355X-v0.8", "MI355X-v1.8"}
IsGB(shape) == shape \in {"GB200.4", "GB200-v2.4", "GB200-v3.4", "GB300.4"}

(* As the metadata service tells, each time it is asked; the rails to expect *)
(* are known for three shapes only.                                          *)
IsMultiplanar(h) == h.planes > 1
Railed(h) == IsMultiplanar(h) /\ h.shape \in {"B300.8", "B300.HS.8", "GB300.4"}

Smi == {"works", "hangs", "absent", "no devices"}

(* What a check found: a reason to drain the node, an action to recommend.   *)
Nothing == [reasons |-> {}, ask |-> "None"]
Found(condition, reason, ask) == IF condition THEN [reasons |-> {reason}, ask |-> ask] ELSE Nothing

(* No state file of the cloud agent says anything but COMPLETED.             *)
OcaCompleted(h) == h.shape = "GB200.4" \/ h.unfinished = {}

CheckOca(h) == Found(~OcaCompleted(h), "OCA Not completed", "Wait_For_OCA")

CheckPlugins(h) ==
  Found(Has(h, "plugin off"), "Instance RDMA Plugin Status Error", "Enable_Instance_RDMA_Plugins")

CheckVersion(h) == Found(Has(h, "old agent"), "OCA version Error", "None")

CheckRttcc(h, oca) ==
  Found(oca /\ ~IsMI(h.shape) /\ Has(h, "rttcc"), "RTTCC Error", "None")

(* Errors since the last boot; the aggregate ones are only logged.           *)
CheckEcc(h) ==
  Found(~IsMI(h.shape) /\ h.smi = "works" /\ Has(h, "volatile ecc"), "ECC Error", "Reboot")

(* The last GPU with something to say decides: one that asks for a reboot    *)
(* takes back the termination an earlier one asked for.                      *)
Rows == {"fine", "pending", "failure", "over 512", "up to 512"}

Lost(gpus) == {i \in DOMAIN gpus : gpus[i] \in {"failure", "over 512"}}
Curable(gpus) == {i \in DOMAIN gpus : gpus[i] \in {"pending", "up to 512"}}

RemapAsk(gpus) ==
  IF \E i \in Lost(gpus) : \A j \in Curable(gpus) : j < i THEN "Terminate"
  ELSE IF Curable(gpus) # {} THEN "Reboot"
  ELSE "None"

(* A failure alone says nothing.                                             *)
CheckRemap(h) ==
  Found(~IsMI(h.shape) /\ h.smi = "works" /\ Range(h.gpus) \cap {"pending", "over 512"} # {},
        "Remap Error", RemapAsk(h.gpus))

(* Without nvidia-smi the bus is searched instead, where the program knows   *)
(* what it should find; a hang of nvidia-smi is an exception here.           *)
CheckCount(h) ==
  Found(CASE h.smi = "works"      -> Has(h, "lost gpu")
          [] h.smi = "hangs"      -> IsMI(h.shape)
          [] h.smi = "no devices" -> TRUE
          [] h.smi = "absent"     -> /\ Has(h, "lost gpu")
                                     /\ IsGB(h.shape) \/ h.shape \in {"H100.8", "H200.8", "B200.8"},
        "Missing GPU Error", "Reboot")

(* No answer is a failure of this check.                                     *)
CheckPcie(h) ==
  Found(~IsGB(h.shape) /\ (h.smi # "works" \/ Has(h, "narrow pcie")), "GPU PCIe Width Error", "Terminate")

CheckBus(h) == Found(Has(h, "off the bus"), "GPU Bus Error", "Terminate")

(* One device that cannot be read ends the check without a result.           *)
CheckLinks(h, oca) ==
  Found(/\ oca /\ "unreadable" \notin Range(h.links)
        /\ Range(h.links) \cap {"error", "down", "bad signal"} # {},
        "RDMA Link down", "Terminate")

CheckRoutes(h, oca) ==
  Found(oca /\ Railed(h) /\ Has(h, "route missing"), "RDMA Route Missing", "Reboot")

CheckSequence(h, oca) ==
  Found(oca /\ Railed(h) /\ Has(h, "rails out of order"),
        "RDMA Rail IPv6 Sequence Error", "Wait_For_OCA")

CheckGid(h, oca) == Found(oca /\ Has(h, "gid"), "RDMA GID Index Error", "Wait_For_OCA")

CheckMtu(h, oca) ==
  Found(oca /\ Railed(h) /\ Has(h, "ovs mtu"), "RDMA OVS MTU Error", "Reboot")

CheckImex(h) ==
  Found(h.shape = "GB300.4" /\ IsMultiplanar(h) /\ Has(h, "imex"), "IMEX Error", "Reboot")

CheckFlapping(h, oca) == Found(oca /\ Has(h, "flap"), "RDMA Link flap", "None")

(* The summary of the Xids, with what was decided about a reset.             *)
SummarizeXids(xids, reset) ==
  [reasons |-> (IF xids.exhausted THEN {"NVRM insufficient resources"} ELSE {})
               \cup (IF xids.critical # {} \/ reset = "Terminate" THEN {"Xid Error"} ELSE {})
               \cup (IF reset = "Reset_GPU" THEN {"Reset_GPU"} ELSE {}),
   ask |-> IF xids.exhausted \/ xids.critical # {} THEN "Terminate" ELSE reset]

(* Every interface has to be authenticated, except on the oldest GB shapes;  *)
(* the program does not know the interfaces of one shape it runs on.         *)
CheckWpa(h, oca) ==
  Found(oca /\ (\/ h.shape = "MI355X-v0.8" /\ ~IsMultiplanar(h)
                \/ /\ IsMultiplanar(h) \/ h.shape \notin {"GB200.4", "GB200-v2.4"}
                   /\ Has(h, "unauthenticated")),
        "WPA Auth Error", "Reboot")

(* No answer is a failure of this check too.                                 *)
CheckFabric(h) ==
  Found(/\ IsGB(h.shape) \/ h.shape \in {"H100.8", "H200.8", "B200.8", "B300.8", "B300.HS.8"}
        /\ h.smi # "works" \/ Has(h, "fabric"),
        "NVIDIA Fabric Error", "FabricManagerRestart")

(* The pages it finds are logged and not returned; not being able to ask is. *)
CheckPages(h) ==
  Found(IsMI(h.shape) /\ h.smi # "works", "GPU Bad page error", "Reboot")

CheckIps(h, oca) ==
  [reasons |-> IF oca /\ h.shape # "GB200.4"
               THEN (IF Has(h, "no ip") THEN {"RDMA Missing IP"} ELSE {})
                    \cup (IF Has(h, "two ips") THEN {"Multiple IPs"} ELSE {})
               ELSE {},
   ask |-> IF oca /\ h.shape # "GB200.4" /\ (Has(h, "no ip") \/ Has(h, "two ips"))
           THEN "Reboot" ELSE "None"]

CheckNvlink(h) ==
  Found(~IsMI(h.shape) /\ h.shape # "RTXPRO.8" /\ h.smi = "works" /\ Has(h, "nvlink"),
        "NVLink speed Error", "Reboot")

CheckDcgmi(h) ==
  Found(~IsMI(h.shape) /\ Has(h, "dcgmi failure"), "dcgmi health check failed", "Reboot")

CheckRocminfo(h) ==
  Found(IsMI(h.shape) /\ Has(h, "rocminfo"), "rocminfo health check failed", "Reboot")

CheckNhc(h) == Found(Has(h, "nhc error"), "LBNL node health check failed", "Check_nhc_log")

(* In the program's order.                                                   *)
Checks == <<"oca", "plugins", "version", "rttcc", "ecc", "remap", "count", "pcie", "bus", "links",
            "routes", "sequence", "gid", "mtu", "imex", "flapping", "xids", "reset", "wpa", "fabric",
            "pages", "ips", "nvlink", "dcgmi", "rocminfo", "nhc">>

FindingOf(check, h, oca) ==
  CASE check = "oca"      -> CheckOca(h)
    [] check = "plugins"  -> CheckPlugins(h)
    [] check = "version"  -> CheckVersion(h)
    [] check = "rttcc"    -> CheckRttcc(h, oca)
    [] check = "ecc"      -> CheckEcc(h)
    [] check = "remap"    -> CheckRemap(h)
    [] check = "count"    -> CheckCount(h)
    [] check = "pcie"     -> CheckPcie(h)
    [] check = "bus"      -> CheckBus(h)
    [] check = "links"    -> CheckLinks(h, oca)
    [] check = "routes"   -> CheckRoutes(h, oca)
    [] check = "sequence" -> CheckSequence(h, oca)
    [] check = "gid"      -> CheckGid(h, oca)
    [] check = "mtu"      -> CheckMtu(h, oca)
    [] check = "imex"     -> CheckImex(h)
    [] check = "flapping" -> CheckFlapping(h, oca)
    [] check = "wpa"      -> CheckWpa(h, oca)
    [] check = "fabric"   -> CheckFabric(h)
    [] check = "pages"    -> CheckPages(h)
    [] check = "ips"      -> CheckIps(h, oca)
    [] check = "nvlink"   -> CheckNvlink(h)
    [] check = "dcgmi"    -> CheckDcgmi(h)
    [] check = "rocminfo" -> CheckRocminfo(h)
    [] check = "nhc"      -> CheckNhc(h)
    [] OTHER              -> Nothing
=============================================================================
