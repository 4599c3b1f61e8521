SPECIFICATION Spec
CONSTANTS
  Run = {r1, r2}
  Name = {"gpu", "burst"}
  Partition = {"compute", "other"}
  Cluster = {"home", "second"}
  Home = "home"
  Import <- QueueFiles
  Down = Down
  Faults = {"abort", "restart", "reconfigure"}
  MaxOps = 2
  MaxFaults = 2
SYMMETRY Runs
CHECK_DEADLOCK FALSE
INVARIANTS TypeOK ReportedIsWritten ReplayRepairs RunningIsOnDisk
