CONSTANTS
  Blobs <- MCBlobs
  NodeNames <- MCNodeNames
  PropNames <- MCPropNames
  Values <- MCValues
  Regions <- MCRegions
  Buffers <- MCBuffers
  Versions = {16, 17}
  Slack = 16
  Growth = 12
  MaxData <- MCMaxData
SPECIFICATION Spec
INVARIANTS BlobSound
PROPERTIES FailureLeavesBlob EditsAsAsked
VIEW MCView
