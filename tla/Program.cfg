SPECIFICATION Spec
CONSTANTS
    PAGESZ = 64
    CODEWARN = 16
    STACK = 16
    DANGER = 8
    Texts <- TextsDef
    Cases <- ProgramCases
INVARIANTS
    RunsAsWritten
    RejectedIffIllFormed
    CodeConsistent
    PendingAtPush
    StackConsistent
    StorageAccounted
PROPERTY
    Terminates
