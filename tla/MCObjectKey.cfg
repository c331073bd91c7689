SPECIFICATION Spec
CONSTANTS
  Chars <- MCChars
  Configs <- ManyConfigs
  Jobs = {j1, j2}
  BackupIDs <- ThreeIDs
  MaxEdits = 1
SYMMETRY JobSymmetry
INVARIANTS
  OwnBackupsOnly
  ScopesApart
  
  PolicyCoversKeys
