SPECIFICATION Spec
CONSTANTS
  Width = 8
  Chunk = 2
  Operands <- SomeOperands
  Magnitudes <- SomeMagnitudes
INVARIANTS
  TypeOK
  IntegersAsSpecified
  FloatsAsSpecified
  ConversionsSaturate
  LoadsItsConstant
CHECK_DEADLOCK FALSE
