SPECIFICATION Spec
VIEW WithoutRequest
CONSTANTS
  MemSize = 3
  Values = {0, 1}
  Configs <- CustomConfigs
  Accesses <- CustomAccesses
  Scripts <- AnyScript
  Paths = {"good", "bad"}
PROPERTIES
  ImplementsFlatMemory
  NoEarlyReplacement
