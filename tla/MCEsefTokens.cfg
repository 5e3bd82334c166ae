CONSTANTS
    FrontendConfigs <- MCFrontends
    Configs <- MCConfigs
    Lines <- MCLines
    Place <- MCPlace
    NumRows = 4
    NumCols = 3
    NumPchs = 1
    NumBgs = 2
    NumBanks = 2
    nCL = 2
    nCCDS = 1
    nBL = 1
    NoRequest = NoRequest
    Layouts <- MCLayouts
    BankRows = 8
    BankCols = 4
    KeyRows = 6
    KeyCols = 4
    Width = 2
    Q <- MCQ
    K <- MCK
    V <- MCV
    We <- MCWe
    MaxTokens = 4
SPECIFICATION MCSpec
INVARIANTS
    VocsCountedRight
    OpsFollowProtocol
    SpmLatenciesAddUp
    PlacesApart
    DataPathAgrees
CHECK_DEADLOCK FALSE
