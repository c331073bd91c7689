SPECIFICATION Spec
CONSTANTS
  DumpSize = 2
  CipherSize = 2
  Outputs <- MCOutputs
INVARIANTS
  SamplesAreTrue
  ExitIsHonest
PROPERTIES
  SamplesAdvance
  QuietAfterReturn
  
