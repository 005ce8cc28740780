SPECIFICATION HostSpec

CONSTANTS
  None = None
  Updaters = {u1, u2}
  Versions = {1, 2}
  MaxInstalls = 2
  MaxFaults = 2
  MaxCommands = 2

INVARIANTS
  InstalledIsWhole
  ConfigIsValidated
  DoctorIsRight

PROPERTIES
  InstallReportsTrue

CHECK_DEADLOCK FALSE
