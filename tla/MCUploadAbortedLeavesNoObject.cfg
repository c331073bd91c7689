SPECIFICATION Spec
CONSTANTS
  PartSize = 2
  Concurrency = 2
  MaxUploadParts = 3
  AbortAttempts = 3
  Buffers = {b1, b2, b3}
  NoBuffer = NoBuffer
  PipeCapacity = 1
  MaxDump = 5
SYMMETRY BufferSymmetry
INVARIANT
  AbortedLeavesNoObject
