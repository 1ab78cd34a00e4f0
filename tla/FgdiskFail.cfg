CONSTANTS
  N = 2
  EPS = 1
  Media = {12}
  Parts = {2}
  Mbrs <- Disks
  AddArgs <- FailAdds
  ResizeArgs <- FailResizes
  BootSizes = {1, 3}
  ImageSize = 2
  Commands <- FailCommands
  MaxCreates = 1
  MaxCrashes = 0
  MaxFails = 1
SPECIFICATION Spec
INVARIANTS SurvivesFailure Disjoint
CHECK_DEADLOCK FALSE
