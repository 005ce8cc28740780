SPECIFICATION RunsSpec

CONSTANTS
  None = None
  here = here
  there = there
  Runs = {r1, r2}
  Dirs = {here, there}
  DirOf <- MCDirOf
  Earlier <- MCEarlier
  Modes = {"backoff", "prompt", "fresh", "block"}
  Threshold = 2
  Keep = 2
  Exits = {"ok", "error_exit"}
  MaxFaults = 1

SYMMETRY Symmetry

INVARIANTS
  LedgerIsTheEnd
  GuardIsRight

CHECK_DEADLOCK FALSE
