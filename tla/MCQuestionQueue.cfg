SPECIFICATION QueueFairSpec

CONSTANTS
  e1 = e1
  e2 = e2
  None = None
  Runs = {g1}
  Events = {e1, e2}
  Captured <- MCCaptured
  Second = 2
  Limit = 2
  MaxReady = 1
  MaxQuestions = 2
  MaxGenFaults = 1
  Ticks = {t1, t2}
  Texts = {fine, long}
  Refused = {long}
  MaxTickFaults = 1

INVARIANTS
  QueueTypeOK
  MessagesExplained
  AnswersExplained

PROPERTIES
  ImplementsGenerator
  EveryQuestionSent
  EveryDecisionSeen
