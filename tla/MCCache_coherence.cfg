SPECIFICATION Spec
VIEW WithoutRequest
CONSTANTS
  MemSize = 6
  Values = {0, 1}
  Configs <- CoherenceConfigs
  Accesses <- CoherenceAccesses
  Scripts <- NoScript
  Paths = {}
INVARIANTS
  TypeOK
  UniqueTags
  CleanLinesMatchMemory
  DirtyOnlyUnderWriteBack
PROPERTIES
  ImplementsFlatMemory
