SPECIFICATION Spec
VIEW WithoutRequest
CONSTANTS
  AddressSpace = 4
  MemSize = 3
  Values = {0, 1}
  Accesses <- SomeAccesses
  Stores <- SomeStores
  Code = {1}
  Images <- SomeImages
  DefaultConfig <- Default
  L1Configs <- SomeL1
  InstructionConfigs <- SomeInstruction
  L2Configs <- SomeL2
  UndoBypassesCaches = FALSE
  MaxHistory = 1
INVARIANTS
  FetchesWhatWasLoaded
PROPERTIES
  ImplementsFlatMemory
  UndoRestoresMemory
