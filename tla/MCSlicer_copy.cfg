CONSTANTS
    Files <- MCFiles
    IndexBlock <- MCIndexBlock
    CopyBlock <- MCCopyBlock
    Requests <- MCRequests

SPECIFICATION Spec

INVARIANTS
    TypeOK
    IndexIsPrefix
    CrashOnlyPastEnd

PROPERTIES
    CopyRefines
