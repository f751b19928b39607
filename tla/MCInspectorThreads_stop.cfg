\* -L -t on a network stream: samples added while the reporter clones them,
\* Ctrl-C or the stop timer at any point.
CONSTANTS
    EnableTrendReport = TRUE
    StopSeconds = TRUE
    Live = TRUE
    MaxReads <- MCMaxReads
SPECIFICATION Spec
INVARIANT CloneConsistent
INVARIANT NoReportAfterFree
PROPERTY StopTerminates
\* Both threads end and the process exits.
CHECK_DEADLOCK FALSE
