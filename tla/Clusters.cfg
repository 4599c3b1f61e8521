SPECIFICATION FairSpec
CONSTANTS
  Fabric <- TwoFabrics
  Hosts <- HostsOfFabrics
  Minimum = 1
  MaxGmcs = 3
  MaxConfigs = 3
  MaxCreates = 2
  MaxOps = 3
  MaxFaults = 1
  Commands = {"create", "add", "delete", "delete some", "update"}
  Faults = {"oci", "limited", "slow", "host"}
CHECK_DEADLOCK FALSE
INVARIANTS InventoryKept ReportedDeletes UpdatedIsUniform
PROPERTY AvailableIsUsed
