SPECIFICATION GenSpec

CONSTANTS
  e1 = e1
  e2 = e2
  e3 = e3
  e4 = e4
  Runs = {g1, g2}
  Events = {e1, e2, e3, e4}
  Captured <- MCCaptured
  Second = 2
  Limit = 1
  Texts = {x}
  MaxReady = 1
  MaxQuestions = 3
  MaxGenFaults = 1

SYMMETRY Symmetry

INVARIANTS
  QuestionsLostToFaults
  ReadyBounded
  PassedIsSeenOrLate
