\* PES headers on one PID (-p): the PTS step across wraps and backward
\* steps, and the trend allocation lag, over headers with and without
\* PTS/DTS.
CONSTANTS
    MaxPts = 8
    ScrPerPts = 2
    Pids <- MCVideoPids
    ScrPid <- MCVideoPid
    DoScrStats = TRUE
    DoPesStats = TRUE
    EnableConformance = TRUE
    PtsTicksPerMs = 1
    WrapWindow = 4
    MaxDriftMs = 2
    TrendWarmup = 1
    MaxPackets = 5
    MaxAdvance = 3
    InitNow = 12
    Kinds <- MCPesKinds
    Flags = {0, 2, 3}
    Leads <- MCPtsLeads
    DtsLags = {1}
    Losses = {0}
    CcStarts = {0}
SPECIFICATION Spec
 
INVARIANT TrendFedOnlyWhenAllocated
CHECK_DEADLOCK FALSE
