SPECIFICATION Spec
CONSTANTS
  Chars <- MCChars
  Configs <- UnderscoreHosts
  Jobs = {j1, j2}
  BackupIDs <- ThreeIDs
  MaxEdits = 0
INVARIANT
  OwnBackupsOnly
