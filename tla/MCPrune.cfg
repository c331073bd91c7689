SPECIFICATION Spec
CONSTANTS
  NumBackups = 3
  BucketOf <- MCBucketOf
  Passes = {p1, p2}
  BatchSize = 1
  PolicyChoices <- MCPolicyChoices
  WriterKinds = {"ours"}
SYMMETRY PassSymmetry
CHECK_DEADLOCK FALSE
INVARIANTS
  TypeOK
  NewestSurvives
  RetainedSurvive
  NoOrphanByDelete
  OkPassIsComplete
