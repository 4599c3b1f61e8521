SPECIFICATION Spec
CONSTANTS
  Troubles = {"Reboot", "hang"}
  Programs = {"hcp", "prolog", "manual", "active"}
  Happenings = {"manual", "trouble", "user", "active", "crash", "scontrol", "event"}
  MaxHappenings = 2
CHECK_DEADLOCK FALSE
INVARIANT TypeOK
PROPERTIES JobsSpared RepairIsChecked DrainedUntilWell TroubleIsReported
