SPECIFICATION FairSpec
CONSTANTS
  PartSize = 2
  Concurrency = 2
  MaxUploadParts = 2
  AbortAttempts = 2
  Buffers = {b1, b2}
  NoBuffer = NoBuffer
  PipeCapacity = 1
  MaxDump = 2
PROPERTIES
  FailureSurfaces
  NothingStaysBehind
  StreamDrains
