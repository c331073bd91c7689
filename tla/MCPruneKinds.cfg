SPECIFICATION Spec
CONSTANTS
  NumBackups = 2
  BucketOf <- MCBucketOf
  Passes = {p1, p2}
  BatchSize = 2
  PolicyChoices <- MCPolicyChoices
  WriterKinds = {"ours", "misref", "foreign", "newer", "corrupt"}
SYMMETRY PassSymmetry
CHECK_DEADLOCK FALSE
INVARIANTS
  OthersUntouched
