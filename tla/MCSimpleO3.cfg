SPECIFICATION Spec
CONSTANTS
    Cores = {1, 2}
    Spaces = {1, 2}
    VPages = {1, 2}
    PPages = {1, 2, 3}
    Reserved = {}
    NoPage = NoPage
    Offsets = {0, 1}
    NoAddr = NoAddr
    Addrs <- MCAddrs
    LineOf <- MCLineOf
    SetOf <- MCSetOf
    Trace <- MCTrace
    Latency = 2
    Ways = 2
    Mshrs = 2
    Ipc = 2
    Depth = 2
    Expected = 5
    ReadSlots = 1
    WriteSlots = 1
INVARIANTS
    MissesAnswered
    StoresReachMemory
PROPERTIES
    EveryCoreFinishes
