SPECIFICATION SpecHistory
CONSTANTS
  Register = {0, 1, 2}
  Word <- Words
  Size = 2
  Alu <- TheAlu
  ImmWord <- TheImm
  JumpTo <- TheJumpTo
  Link <- TheLink
  Programs <- AllPrograms
  Starts <- TheStart
  Vms = {"nh_nf", "nh_f", "h_nf", "h_f"}
  MaxHistory = 7
PROPERTIES
  ImplementsTimeline
  StepsAgainTheSame
