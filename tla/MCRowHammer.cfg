CONSTANTS
    NumRanks = 2
    BanksPerRank = 2
    NumRows = 4
    Hot <- MCHot
    MaxUpdates <- MCMaxUpdates
    ResetPeriod <- MCResetPeriod
    NumTableEntries = 2
    ActivationThreshold = 3
    TwiceThreshold = 4
    PruningThreshold = 1
    RHThreshold = 3
    RfmThreshold = 3
    RowGroupSize = 2
    RccSets = 2
    RccWays = 2
    RccPolicy = "RANDOM"
    TrackingThreshold = 4
    GroupThreshold = 2
    CounterBits = 8
    LineBits = 8
    NumLines = 4
    AddrBits <- MCAddrBits
    NumHrtEntries = 2
    MoveThreshold = 2
    NumRitEntries = 4
    NumQRows = 2
    MaxWaiting = 2
    AboThreshold = 2
    AboActCycles = 8
    AboRecoveryRefs = 1
    AboDelayActs = 2
    MinCycles <- MCMinCycles
    SetupCycles = 2
    PracBufferSize = 33
    RefreshPeriod = 6
    NumFilters = 2
    EpochClk = 3
    NumCounters = 2
    CtrThreshold = 2
    CtrBits = 2
    HashOf <- MCHashOf
    HistSize = 2
    HistMaxFreq = 1
    RhliQuota = 2
    CoreMshrs = 2
    SourceOf <- MCSourceOf
    Leftovers <- MCLeftovers
SPECIFICATION RowHammerSpec
INVARIANTS
    NoActivationEscapes
    RefreshedInTime
    HydraInTime
    CountersKeepTheirPlace
    DataFollowsRows
    HotRowsMove
    RecoveryPaired
    CountersBounded
    HotRowsBlacklisted
PROPERTIES
    CriticalRowsRefreshed
    HeldBack
    HeldRequestsServed
CHECK_DEADLOCK FALSE
