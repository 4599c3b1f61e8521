SPECIFICATION FairSpec
CONSTANTS
  Event = {1, 2}
  NoEvent = NoEvent
  Managed = {1, 2}
  Detailed = {2}
  Policy <- AlwaysPolicy
  Faults = {}
  MaxOps = 1
  MaxFaults = 0
CHECK_DEADLOCK FALSE
PROPERTIES ActiveIsDrained CompletionResumes FarIsMoved StoredCatchesUp
