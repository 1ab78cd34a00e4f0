SPECIFICATION LoaderSpec
CONSTANTS
    ModFiles <- MCModFiles
    ModPaths <- MCModPaths
    ModNames <- MCModNames
    ModDirs <- MCModDirs
    ModHints <- MCModHints
    ModBootfiles <- MCModBootfiles
    ModAuto <- MCModAuto
    ModDelay = 1
    ModKernAddr = 2
    ModPage = 2
    ModTop = 12
    ElfFiles <- MCElfFiles
    ElfHash <- MCElfHash
    ElfPage = 8
    ElfMask = 32
    CondMax = 4
    IncludeMax = 2
    MenuKeys <- MCMenuKeys
    MenuCmds <- MCMenuCmds
    MenuLines = 2
    MenuDelay = 1
    StaleMax = 1
    Consoles <- MCConsoles
    ArgLists <- MCArgLists
    LineEnv <- MCLineEnv
    MaxArgs = 4
    BufSize = 10
    CdPaths <- MCCdPlain
    CdRoom = 12
    BiBoots <- MCBiBoots
    BiPage = 8
    BiInt = 2
    BiSmapMax = 3
    BiPtn = 4
    BiPts = 16
INVARIANTS HandoverRight LoadedRight ElfRight CommandsRight
PROPERTIES LoadEnds
CHECK_DEADLOCK FALSE
