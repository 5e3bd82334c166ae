CONSTANTS
    Channels <- MCZero
    Pchs <- MCZero
    Bgs <- MCZero
    Bks <- MCOne
    Rows <- MCOne
    Cols <- MCZero
    Commands <- DDR4Commands
    Scope <- MCScope
    Gap <- MCGap
    SiblingGap <- MCSiblingGap
    FawLevel <- DDR4FawLevel
    FawDepth <- DDR4FawDepth
    Faw <- MCFaw
    nRFC = 3
    Ch = 0
    NumRanks = 1
    Requests <- MCRequests
    NoRequest = NoRequest
    FinalOf <- MCFinal
    AddrsOf <- MCAddrsOneRank
    MaxSize = 1
    PriorityMax = 3
    LowMark = 1
    HighMark = 1
    Cap = 2
    nREFI = 15
    ReadLatency <- MCReadLatency
SPECIFICATION Spec
PROPERTIES
    ReadsSeeWrites
