SPECIFICATION Spec
VIEW WithoutRequest
CONSTANTS
  MemSize = 4
  Values = {0}
  Configs <- OrderConfigs
  Accesses <- OrderAccesses
  Scripts <- NoScript
  Paths = {}
PROPERTIES
  ReplacementOrder
