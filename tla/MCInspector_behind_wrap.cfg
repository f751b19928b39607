\* PCR on 0x31, PES on 0x100 with every PTS ahead of the PCR: around the
\* wrap of the clocks the raw subtraction PTS*300 - SCR goes negative.
CONSTANTS
    MaxPts = 8
    ScrPerPts = 2
    Pids <- MCPids
    ScrPid <- MCPcrPid
    DoScrStats = TRUE
    DoPesStats = TRUE
    EnableConformance = TRUE
    PtsTicksPerMs = 1
    WrapWindow = 4
    MaxDriftMs = 2
    TrendWarmup = 1
    MaxPackets = 3
    MaxAdvance = 2
    InitNow = 12
    Kinds <- MCScrPesKinds
    Flags = {2}
    Leads <- MCAheadLeads
    DtsLags = {0}
    Losses = {0}
    CcStarts = {0}
SPECIFICATION Spec
INVARIANT BehindWarningSound
CHECK_DEADLOCK FALSE
