CONSTANTS
    NumChannels = 1
    NumPchs = 1
    NumBgs = 1
    NumBanks = 2
    NumRows = 4
    NumCols = 3
    nCL = 2
    nCCDS = 1
    nBL = 1
    Channels <- MCZero
    Pchs <- MCZero
    Bgs <- MCZero
    Bks <- MCOne
    Rows <- MCRows
    Cols <- MCCols
    T <- MCTiming
    Commands <- SparePimCommands
    Scope <- MCScope
    Gap <- MCGap
    SpmFollowers <- MCSpmFollowers
    FawLevel <- HBM3FawLevel
    FawDepth <- HBM3FawDepth
    Faw <- HBM3Faw
    InitialSpm = 1
    SpmLatencies <- MCSpmLatencies
    Cfg <- MCCfg
    Request <- MCRequest
    Reqs <- MCReqs
    NoReq = NoReq
    NoRequest = NoReq
    ChannelOf <- MCChannelOf
    Accepted <- MCReqs
    Program <- EsefProgram
    StatKeys <- ExpansionStats
    StatsDelta <- EsefStats
    QueueSize = 2
    Traces <- MCLongTraces
    FrontendRatio = 1
    MemoryRatio = 1
SPECIFICATION SystemSpec
INVARIANTS
    StatsMatchCommands
PROPERTIES
    RowsServeTheirRequest
    SpmTimedByOwnToken
