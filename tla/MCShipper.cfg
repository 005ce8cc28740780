SPECIFICATION ShipFairSpec

CONSTANTS
  w1 = w1
  b1 = b1
  proxy = proxy
  bot = bot
  None = None
  Writers = {w1, b1}
  Procs = {proxy, bot}
  ProcOf <- MCProcOf
  MaxCalls <- MCMaxCalls
  MaxInodes = 3
  MaxFaults = 1
  RotateSize = 2
  MaxShipFaults = 2
  MaxShipKills = 1
  MaxTroubles = 2

INVARIANTS
  TypeOK
  ShipTypeOK
  LinesContiguous
  LateLinesBounded
  KillsLoseNoFile
  DuplicatesNeedFaults

PROPERTIES
  ImplementsCaptureFile
  ShippingDrains
  CaptureRotates
  AppendReturns
