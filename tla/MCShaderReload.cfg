SPECIFICATION FairSpec
CONSTANTS
  Unit <- MCUnit
  Files <- MCFiles
  Handle <- MCHandle
  MaxEdits = 2
  MaxTime = 2
INVARIANTS
  TypeOK
  SourceFresh
  ProgramWhole
  NoLeak
PROPERTY
  EditNoticed
