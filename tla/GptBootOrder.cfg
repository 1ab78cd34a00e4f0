CONSTANTS
  N = 3
  EPS = 1
  Layouts <- OrderLayouts
  AttrSets <- SetAttrs
  FlagCmds <- NoCmds
  FaultKinds = {}
  MaxFaults = 0
SPECIFICATION FairSpec
INVARIANTS PriorityOrder EachBootmeTriedSpare
PROPERTIES BootTerminates
