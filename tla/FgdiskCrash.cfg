CONSTANTS
  N = 2
  EPS = 1
  Media = {12, 13}
  Parts = {2}
  Mbrs <- Disks
  AddArgs <- CrashAdds
  ResizeArgs <- CrashResizes
  BootSizes = {1, 3}
  ImageSize = 2
  Commands <- CrashCommands
  MaxCreates = 1
  MaxCrashes = 2
  MaxFails = 0
SPECIFICATION Spec
INVARIANTS TypeOK SurvivesCrashes Openable LoaderFinds
PROPERTIES CommandsKeep
CHECK_DEADLOCK FALSE
