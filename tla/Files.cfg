SPECIFICATION FairSpec
CONSTANTS
    a = a
    Stdin = Stdin
    Stdout = Stdout
    Stderr = Stderr
    Names = {Stdout}
    Kinds = {"F_IN", "F_TRUNC", "F_APPEND", "PIPE_OUT", "PIPE_IN"}
    Pids = {1, 2}
    Reuse = FALSE
    Statuses = {0, 1}
    MaxOpen = 2
INVARIANTS StreamsConsistent ChildrenAccounted CloseGetsItsStatus ExitFinishes
PROPERTIES WaitingEnds
CHECK_DEADLOCK FALSE
