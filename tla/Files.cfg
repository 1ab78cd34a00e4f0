SPECIFICATION MCSpec
CONSTANTS
    Rasize = 3
    Zbufsize = 2
    Discard = 2
    Seekbuf = 2
    Ratio = 2
    NData = 3
    RawLengths = {3, 5}
    Bounds <- MCBounds
    Kinds = {"plain", "gzip", "bzip", "split"}
    MaxRead = 4
    MaxSeek = 8
    MaxFails = 1
    SopenMax = 5
    Devices = {"disk", "cd"}
    Currdev = "disk"
    MaxNomem = 1
    Disks <- MCDisks
    NDADDR = 1
    NIADDR = 2
    Bsize = 2
    Spbs = {1, 2, 4}
    FfsInodes <- MCInodes
    FfsDisk <- MCDisk
    Root = 2
    MaxSymlinks = 3
    FfsPaths <- MCPaths
    FfsMaxRead = 3
    FfsMaxSeek = 13
    FfsMaxFails = 1
    SECSIZ = 2
    FatSecsiz = 4
    Fat12Max = 20
    FatLast = 90
    Half = 8
    DosVolumes <- MCVolumes
    DosPaths <- MCDosPaths
    DosMaxRead = 4
    DosMaxFails = 1
    CdBlock = 4
    CdDiscs <- MCDiscs
    CdPaths <- MCCdPaths
    CdMaxRead = 5
    CdMaxSeek = 7
    CdMaxFails = 1
    NUMCACHE = 2
    HamBuf = 4
    HamDisk <- MCHamDisk
    HamNodes <- MCHamNodes
    HamRoot = 4
    HamPaths <- MCHamPaths
    HamMaxKey = 100
    HamReads = {2, 7}
    HamSeeks = {0, 2, 5, 9}
    HamMaxFails = 1
    HamFuel = 9
    H2Disks <- MCH2Disks
    H2Slots = {1, 2}
    H2Hash <- MCH2Hash
    H2Low = 3
    H2KeyMax = 100
    H2SrootKey = 0
    H2BootKey = 1
    H2Paths <- MCH2Paths
    H2Reads = {7}
    H2Seeks = {5}
    H2Faults = {1, 3}
    H2MaxFails = 1
INVARIANTS AnswersRight DescriptorsRight FsRight
PROPERTIES Implements CallsReturn
