\* The first PTS of a PID, 2 PTS ticks (the drift threshold) or more
\* after zero: the code compares it with the zeroed pts_last.
CONSTANTS
    MaxPts = 8
    ScrPerPts = 2
    Pids <- MCVideoPids
    ScrPid <- MCVideoPid
    DoScrStats = TRUE
    DoPesStats = TRUE
    EnableConformance = TRUE
    PtsTicksPerMs = 1
    WrapWindow = 4
    MaxDriftMs = 2
    TrendWarmup = 1
    MaxPackets = 2
    MaxAdvance = 0
    InitNow = 0
    Kinds <- MCPesKinds
    Flags = {2}
    Leads <- MCFirstLeads
    DtsLags = {0}
    Losses = {0}
    CcStarts = {0}
SPECIFICATION Spec
INVARIANT JumpWarningSound
CHECK_DEADLOCK FALSE
