SPECIFICATION Spec
CONSTANTS
  Rigs <- MCRigs
  Devices = {"mlx5_0", "mlx5_1"}
  Gpus = {0, 1}
CHECK_DEADLOCK FALSE
INVARIANT PassedIsMeasured
PROPERTIES FailureIsRecorded
