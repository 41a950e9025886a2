CONSTANTS
    p1 = p1
    p2 = p2
    Peers <- MCPeers
    MaxCmds = 3
    MaxDrops = 2
SPECIFICATION FairSpec
PROPERTIES KnownChannelPeerReconnected
