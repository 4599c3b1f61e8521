SPECIFICATION Spec
CONSTANTS
  Node = {1, 2, 3}
  NoNode = NoNode
  Spare = {2, 3}
  Kinds <- BrokenLink
  Faults = {"scontrol", "job", "copy", "report"}
  MaxFaults = 1
CHECK_DEADLOCK FALSE
INVARIANTS TypeOK SoundIsNotCondemned
PROPERTY BrokenStaysReserved
CONSTRAINT FewJobs
