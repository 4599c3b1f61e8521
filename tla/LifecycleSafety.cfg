SPECIFICATION Spec
CONSTANTS
  Node = {n1, n2}
  Addr = {a1}
  NoRow = NoRow
  NoAddr = NoAddr
  Ops = {"terminate", "console", "reconfigure", "reconfigureAll", "reboot", "add", "delete", "sync"}
  ManageHosts = TRUE
  MaxOps = 2
  MaxFaults = 1
CONSTRAINT Disturbances
SYMMETRY Symmetric
CHECK_DEADLOCK FALSE
INVARIANTS TypeOK ArchivedByRequest
PROPERTIES ClearedBeforeArchived ConfiguredByPlaybook ImplementsMembership
