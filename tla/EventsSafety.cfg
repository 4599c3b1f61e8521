SPECIFICATION Spec
CONSTANTS
  Event = {1, 2}
  NoEvent = NoEvent
  Managed = {1, 2}
  Detailed = {2}
  Policy <- MixedPolicy
  Faults = {"sinfo", "details", "list", "get", "reschedule", "scontrol", "crash"}
  MaxOps = 1
  MaxFaults = 1
CHECK_DEADLOCK FALSE
INVARIANTS TypeOK ForeignDrainKept
PROPERTY ResumedBeforeStored
