SPECIFICATION FairSpec
CONSTANTS
  Node = {n1, n2}
  Addr = {a1}
  NoRow = NoRow
  NoAddr = NoAddr
  Ops = {"terminate", "console", "reboot"}
  ManageHosts = FALSE
  MaxOps = 1
  MaxFaults = 1
CHECK_DEADLOCK FALSE
PROPERTIES QueuedIsConfigured TerminatedLeaves
