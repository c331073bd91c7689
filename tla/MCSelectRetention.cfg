SPECIFICATION Spec
CONSTANTS
  NumBackups = 7
  BucketOf <- MCBucketOf
  MaxCount = 3
INVARIANTS
  LoopKeepsThePolicy
  SecondPassDropsNothing
