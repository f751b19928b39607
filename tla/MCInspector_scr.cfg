\* PCRs on the SCR PID (-s): the reported SCR difference across the wrap
\* of the 27 MHz clock, with gaps up to almost a whole clock period.
CONSTANTS
    MaxPts = 8
    ScrPerPts = 2
    Pids <- MCPcrPids
    ScrPid <- MCPcrPid
    DoScrStats = TRUE
    DoPesStats = FALSE
    EnableConformance = TRUE
    PtsTicksPerMs = 1
    WrapWindow = 4
    MaxDriftMs = 2
    TrendWarmup = 1
    MaxPackets = 6
    MaxAdvance = 9
    InitNow = 10
    Kinds <- MCPcrKinds
    Flags = {2}
    Leads = {0}
    DtsLags = {0}
    Losses = {0}
    CcStarts = {0}
SPECIFICATION Spec
INVARIANT TypeOK
INVARIANT ScrDiffTracksElapsed
CHECK_DEADLOCK FALSE
