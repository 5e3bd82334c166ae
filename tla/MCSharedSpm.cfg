CONSTANTS
    NumChannels = 2
    NumPchs = 1
    NumBgs = 1
    NumBanks = 1
    NumRows = 4
    NumCols = 3
    nCL = 2
    nCCDS = 1
    nBL = 1
    Channels <- MCOne
    Pchs <- MCZero
    Bgs <- MCZero
    Bks <- MCZero
    Rows <- MCRows
    Cols <- MCCols
    T <- MCTiming
    Commands <- SparePimCommands
    Scope <- MCScope
    Gap <- MCGap
    SpmFollowers <- MCSpmFollowers
    FawLevel <- HBM3FawLevel
    FawDepth <- HBM3FawDepth
    Faw <- HBM3Faw
    InitialSpm = 1
    SpmLatencies <- MCSpmLatencies
    Cfg <- MCCfg
    Request <- MCTwoRequest
    Reqs <- MCReqs
    NoReq = NoReq
    NoRequest = NoReq
    ChannelOf <- MCChannelOf
    Accepted <- MCReqs
    Program <- EsefProgram
    StatKeys <- ExpansionStats
    StatsDelta <- EsefStats
    QueueSize = 1
    Traces <- MCShortTraces
    FrontendRatio = 3
    MemoryRatio = 2
SPECIFICATION SystemSpec
PROPERTY
    SpmTimedByOwnToken
