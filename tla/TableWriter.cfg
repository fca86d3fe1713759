CONSTANTS
  Name = {n1, n2}
  NoFile = NoFile
  MaxRows = 2
  MaxFaults = 2
SPECIFICATION FairSpec
INVARIANTS
  TypeOK
  NothingLostSilently
  StageIsOwned
  WriterOwnsScratch
PROPERTIES
  ExitIsComplete
  ScratchIsRotated
