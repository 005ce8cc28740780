SPECIFICATION SelfSpec

CONSTANTS
  Requests = {m, n}
  Msgs = {m, n}
  ChanCap = 1
  None = None

SYMMETRY MCSymmetry

INVARIANTS
  HealthIsTrue
  PassIsProven
  FailureIsExplained

CHECK_DEADLOCK FALSE
