CONSTANTS
  Files <- Names
  Size <- Sizes
  SEG = 2
  MinData = 1
  BlockMod = 4
  MaxTmo = 3
  ErrCodes = {1}
  Offs = {0}
  Reads = {0, 3}
  MaxOpen = 1
  MaxClock = 1
  MaxSess = 2
SPECIFICATION Spec
INVARIANTS TypeOK EofRight OpenRight
PROPERTIES ReadsRight CallEnds
CHECK_DEADLOCK FALSE
