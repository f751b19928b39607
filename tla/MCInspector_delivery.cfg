\* PCR on 0x31, PES on 0x100 with and without continuation packets: the
\* delivery span of the previous PES (-Y report).
CONSTANTS
    MaxPts = 8
    ScrPerPts = 2
    Pids <- MCPids
    ScrPid <- MCPcrPid
    DoScrStats = TRUE
    DoPesStats = TRUE
    EnableConformance = TRUE
    PtsTicksPerMs = 1
    WrapWindow = 4
    MaxDriftMs = 2
    TrendWarmup = 1
    MaxPackets = 3
    MaxAdvance = 2
    InitNow = 4
    Kinds <- MCTimingKinds
    Flags = {2}
    Leads <- MCAheadLeads
    DtsLags = {0}
    Losses = {0}
    CcStarts = {0}
SPECIFICATION Spec
INVARIANT DeliverySpanNonNegative
CHECK_DEADLOCK FALSE
