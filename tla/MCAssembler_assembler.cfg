SPECIFICATION Spec
CONSTANTS
  Programs <- AllPrograms
  Custom <- Pseudo
  DataStart <- NearData
  BranchReach = 8
  JumpReach = 1048576
INVARIANTS
  JumpsReachTheirLabels
  DataLabelsNameTheirData
  BreakpointsStopAtTheirLine
  RefusesExactlyTheIllFormed
CHECK_DEADLOCK FALSE
