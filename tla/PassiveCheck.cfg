SPECIFICATION Spec
CONSTANTS
  Catalog <- SmallCatalog
  Overridden = {45, 74}
  Hosts <- SmallHosts
  Late = {"fabric", "rails out of order"}
  LateLines <- SomeLines
  MaxChanges = 2
CHECK_DEADLOCK FALSE
INVARIANTS NoTroubleHidesAnother CriticalXidTerminates EscalatedByReboots RecordIsExplained
PROPERTY Implements
