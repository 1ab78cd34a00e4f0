SPECIFICATION ServicesSpec
CONSTANTS
  Nblks = 4
  SecBlks = 1
  Timeout = 1
  Units <- TwoUnits
  Removable <- Floppy
  Sectors = 3
  MaxReq = 3
  MaxInserts = 4
  MaxVersion = 1
  MaxTime = 2
  MALLOCALIGN = 2
  BLKEXTEND = 8
  HeapBase = 1
  HeapTop = 22
  MlSizes = {0, 1, 3}
  MmInputs <- MCMmInputs
  DkUnits <- MCDkUnits
  DkFloppies <- MCDkFloppies
  DkMedia <- MCDkMedia
  DkOthers <- MCDkOthers
  IoInputs <- MCIoInputs
  CrInputs <- MCCrInputs
  TmCols = 4
  TmRows = 3
  TmInputs <- MCTmInputs
  SePorts <- MCSePorts
  SeStates <- MCSeStates
  SeSpeeds <- MCSeSpeeds
  SeBars <- MCSeBars
  HALF_BITS = 2
  QdNumbers <- MCQdNumbers
  PfInputs <- MCPfInputs
  PfBits <- MCPfBits
  DkReqs <- MCDkReqs
  DkBad <- MCDkBad
  DkMaxDevs = 2
  DkMaxCache = 2
  DkMaxChanges = 1
INVARIANTS CacheRight LibraryRight DevicesRight ConsolesRight
CHECK_DEADLOCK FALSE
