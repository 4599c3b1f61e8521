SPECIFICATION FairSpec
CONSTANTS
  Node = {1, 2}
  NoNode = NoNode
  Spare = {}
  Kinds <- BrokenGPU
  Faults = {"delay", "fetch", "sinfo", "crash", "job", "report", "copy", "scontrol"}
  MaxFaults = 1
CHECK_DEADLOCK FALSE

PROPERTY SoundIsReleased
