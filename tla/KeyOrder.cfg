SPECIFICATION CallSpec

CONSTANTS
  None = None
  Machines = {m1}
  Secs = {1, 2}
  Ties = {1, 2}
  Kind <- MCKind
  Batches <- MCBatches
  MaxUploads = 2
  MaxBroken = 0
  MaxFaults = 0
  MaxKills = 0
  BadIds = {}
  MaxAttempts = 1

INVARIANT
  NothingPassedOver
