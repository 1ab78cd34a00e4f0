CONSTANTS
  N = 2
  EPS = 1
  Media = {12}
  Parts = {2}
  Mbrs <- AgainDisks
  AddArgs <- CrashAdds
  ResizeArgs <- CrashResizes
  BootSizes = {1, 3}
  ImageSize = 2
  Commands <- AgainCommands
  MaxCreates = 2
  MaxCrashes = 1
  MaxFails = 0
SPECIFICATION Spec
INVARIANTS LoaderTable
CHECK_DEADLOCK FALSE
