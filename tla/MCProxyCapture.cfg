SPECIFICATION ProxySpec

CONSTANTS
  Requests = {r1, r2, r3}
  ChanCap = 1
  None = None

INVARIANTS
  ProxyTypeOK
  EventsInOrder
  NothingLeftBehind
  PanicsExplained

PROPERTY
  ShutdownTerminates

CHECK_DEADLOCK FALSE
