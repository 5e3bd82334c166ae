CONSTANTS
    NumChannels = 2
    NumPchs = 1
    NumBgs = 1
    NumBanks = 1
    NumRows = 2
    NumCols = 1
    nCL = 1
    nCCDS = 1
    nBL = 1
    Channels <- MCOne
    Pchs <- MCZero
    Bgs <- MCZero
    Bks <- MCZero
    Rows <- MCOne
    Cols <- MCZero
    T <- MCTiming
    Commands <- MCCommands
    Scope <- MCScope
    Gap <- MCGap
    SpmFollowers <- MCSpmFollowers
    FawLevel <- HBM3FawLevel
    FawDepth <- HBM3FawDepth
    Faw <- HBM3Faw
    InitialSpm = 1
    SpmLatencies <- MCSpmLatencies
    Cfg <- MCCfg
    Reqs <- MCReqs
    NoReq = NoReq
    NoRequest = NoReq
    ChannelOf <- MCChannelOf
    Accepted <- MCAccepted
    Program <- MCProgram
    StatKeys <- ExpansionStats
    StatsDelta <- MCStats
    QueueSize = 2
SPECIFICATION FairSpec
INVARIANTS
    ExactlyOnePlace
PROPERTIES
    ServesEveryRequest
