\* Any order of PTS values, repeats included.
CONSTANTS
    Clocks <- MCClocks
    MaxItems <- MCMaxItems
SPECIFICATION Spec
INVARIANT OrderedByClock
\* The input ends after MaxItems headers.
CHECK_DEADLOCK FALSE
