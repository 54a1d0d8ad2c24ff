SPECIFICATION Spec
CONSTANTS
  Size = 2
  Breakpoints = {1}
  MaxQueued = 2
  MaxEvents = 2
CHECK_DEADLOCK FALSE
INVARIANTS
  TypeOK
  NoLostWakeup
  AtMostOneLateStep
  QuietIsReady
  RunKeepsProcessor
  PausedOffersResume
PROPERTIES
  StopEndsRun
  PauseTakesHold
