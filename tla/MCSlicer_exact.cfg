CONSTANTS
    Files <- MCFiles
    IndexBlock <- MCIndexBlock
    CopyBlock <- MCCopyBlock
    Requests <- MCRequests

SPECIFICATION Spec

INVARIANT
    SliceExact
