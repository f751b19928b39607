\* A file read to its end with -L: the main thread leaves the loop without
\* clearing gRunning.
CONSTANTS
    EnableTrendReport = TRUE
    StopSeconds = FALSE
    Live = FALSE
    MaxReads <- MCMaxReads
SPECIFICATION Spec
PROPERTY EofTerminates
CHECK_DEADLOCK FALSE
