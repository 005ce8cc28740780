SPECIFICATION ShipSpec

CONSTANTS
  w1 = w1
  b1 = b1
  proxy = proxy
  bot = bot
  None = None
  Writers = {w1, b1}
  Procs = {proxy, bot}
  ProcOf <- MCProcOf
  MaxCalls <- MCMaxCalls
  MaxInodes = 3
  MaxFaults = 0
  RotateSize = 1
  MaxShipFaults = 0
  MaxShipKills = 0
  MaxTroubles = 2

INVARIANTS
  AckedIsKept
