SPECIFICATION StagesSpec
CONSTANTS
    B0Entries <- MCB0Entries
    B0Drives = 2
    B0Ticks = 2
    B0Clock = 4
    MvInputs <- MCMvInputs
    PmMax = 3
    LdInputs <- MCLdInputs
    B2Disks <- MCB2Disks
    B2Labels <- MCB2Labels
    B2Files <- MCB2Files
    B2Configs <- MCB2Configs
    B2Lines <- MCB2Lines
    B2Kbd = FALSE
    B2Lines_max = 3
    BtxIrqs <- MCBtxIrqs
    BtxCalls <- MCBtxCalls
    EbMachines <- MCEbMachines
    EbMaxFails = 2
INVARIANTS ChosenRight BroughtRight BtxRight
CHECK_DEADLOCK FALSE
