SPECIFICATION Spec
CONSTANTS
  Lines <- TheLines
  RoundingModes <- AllModes
INVARIANTS
  TypeOK
  ExecutesExactly
  ReadsBack
  AcceptsExactly
