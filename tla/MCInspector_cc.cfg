\* The continuity check alone (no -s, no -p): a PES PID and the null PID,
\* payload and adaptation-only packets, losses of 0, 1 and 16 packets and
\* duplicates, counters starting near the 15 -> 0 wrap.
CONSTANTS
    MaxPts = 8
    ScrPerPts = 2
    Pids <- MCCcPids
    ScrPid <- MCVideoPid
    DoScrStats = FALSE
    DoPesStats = FALSE
    EnableConformance = TRUE
    PtsTicksPerMs = 1
    WrapWindow = 4
    MaxDriftMs = 2
    TrendWarmup = 1
    MaxPackets = 5
    MaxAdvance = 0
    InitNow = 0
    Kinds <- MCCcKinds
    Flags = {2}
    Leads = {0}
    DtsLags = {0}
    Losses <- MCLosses
    CcStarts <- MCCcStarts
SPECIFICATION Spec
INVARIANT CcErrorsCountLosses
CHECK_DEADLOCK FALSE
