SPECIFICATION Spec
CONSTANTS
  Register = {0, 1, 2}
  Word <- Words
  Size = 3
  Alu <- TheAlu
  ImmWord <- TheImm
  JumpTo <- TheJumpTo
  Link <- TheLink
  Programs <- AllPrograms
  Starts <- TheStart
  Vms = {"nh_nf", "nh_f", "h_nf", "h_f"}
CHECK_DEADLOCK FALSE
INVARIANTS
  TypeOK
  NothingLeftBehind
PROPERTIES
  ExecutesInOrder
  Finishes
