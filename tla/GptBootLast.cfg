CONSTANTS
  N = 2
  EPS = 1
  Layouts <- DeadDfly
  AttrSets <- SetAttrs
  FlagCmds <- NoCmds
  FaultKinds = {}
  MaxFaults = 0
SPECIFICATION Spec
INVARIANTS EachBootmeTried
