SPECIFICATION Spec
CONSTANTS
  Unit <- MCUnit
  Files <- MCFiles
  Handle <- MCHandle
  MaxEdits = 2
  MaxTime = 2
INVARIANT
  TrueMeansReloaded
