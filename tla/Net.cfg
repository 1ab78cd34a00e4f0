SPECIFICATION NetSpec
CONSTANTS
    ARP_NUM = 3
    ArpHosts <- MCArpHosts
    ArpMe = "me"
    ArpTries = 2
    PMAP_NUM = 1
    NfsTree <- MCNfsTree
    NfsPaths <- MCNfsPaths
    NfsReadSize = 2
    NfsMaxLinks = 2
    NfsDirChunk = 2
    NfsMaxRead = 3
    RpcTries = 2
    MaxXid = 9
    LastXid = 18
    DhcpServers <- MCDhcpServers
    BootpTries = 2
    MaxOpens = 2
    MaxDevFails = 1
    Sockets = 2
INVARIANTS RepliesRight LeaseHeld SocketsRight
PROPERTIES NetEnds
CHECK_DEADLOCK FALSE
