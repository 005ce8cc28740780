SPECIFICATION CallSpec

CONSTANTS
  None = None
  Machines = {m1, m2}
  Secs = {1}
  Ties = {1, 2}
  Kind <- MCKind
  Batches <- MCBatches
  MaxUploads = 2
  MaxBroken = 1
  MaxFaults = 1
  MaxKills = 1
  BadIds = {"a"}
  MaxAttempts = 5

INVARIANTS
  ProcTypeOK
  ArchivedIsComplete
  StoredOnce
  PassedOverIsExplained

PROPERTIES
  CursorAdvances
  ImplementsDelivery
  EveryObjectConsumed
