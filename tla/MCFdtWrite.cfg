CONSTANTS
  NodeNames <- MCNodeNames
  PropValues <- MCPropValues
  Regions <- MCRegions
  MaxRegions = 1
  Buffers = {47, 64, 90, 117, 150}
  Offsets <- MCOffsets
  Given <- MCGiven
  Asked <- MCAsked
  phandle <- MCphandle
  linux_phandle <- MClinux_phandle
  compatible <- MCcompatible
  aliases <- MCaliases
  FDT_MAX_PHANDLE = 3
SPECIFICATION Spec
INVARIANTS HoldsWhatWasWritten StagesSound QueriesAgree
PROPERTIES RefusalKeepsBlob
CHECK_DEADLOCK FALSE
VIEW MCView
