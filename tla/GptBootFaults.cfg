CONSTANTS
  N = 2
  EPS = 1
  Layouts <- FaultLayouts
  AttrSets <- SetAttrs
  FlagCmds <- Cmds
  FaultKinds = {"power", "write", "read"}
  MaxFaults = 2
SPECIFICATION Spec
INVARIANTS TypeOK DamageBound AttemptOnce
PROPERTIES BootOnceUnique
