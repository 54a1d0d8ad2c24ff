SPECIFICATION Spec
VIEW WithoutRequest
CONSTANTS
  MemSize = 6
  Values = {0, 1}
  Configs <- SpanConfigs
  Accesses <- SpanAccesses
  Scripts <- NoScript
  Paths = {}
PROPERTIES
  NearbyCellsUntouched
