\* A PTS lower than every PTS listed so far.
CONSTANTS
    Clocks <- MCClocks
    MaxItems <- MCMaxItems
SPECIFICATION Spec
INVARIANT AllPtsListed
CHECK_DEADLOCK FALSE
