SPECIFICATION Spec
CONSTANTS
  Register = {0, 1, 2}
  Word <- Words
  Size = 3
  Alu <- TheAlu
  ImmWord <- TheImm
  JumpTo <- TheJumpTo
  Link <- TheLink
  Programs <- IntegerPrograms
  Starts <- TheStart
  Vms = {"h_f"}
CHECK_DEADLOCK FALSE
PROPERTIES
  RunsAsSingleCycle
