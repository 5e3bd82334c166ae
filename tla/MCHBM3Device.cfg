CONSTANTS
    Channels <- MCZero
    Pchs <- MCZero
    Bgs <- MCZero
    Bks <- MCOne
    Rows <- MCZero
    Cols <- MCZero
    T <- MCTiming
    Commands <- MCCommands
    Scope <- MCScope
    Gap <- MCGap
    SpmFollowers <- MCSpmFollowers
    FawLevel <- HBM3FawLevel
    FawDepth = 2
    Faw <- HBM3Faw
    InitialSpm = 1
    SpmLatencies <- MCSpmLatencies
    Horizon = 4
SPECIFICATION HbmSpec
INVARIANTS
    AcceptedAreSpaced
