SPECIFICATION FairSpec
CONSTANTS
    Files <- MCFiles
    Seps = {"char", "str", "mlr", "re"}
    Match <- MCMatch
    NL = "n"
    NUL = "0"
    Beyond = {"0", "x"}
    JUMPSZ = 2
    BUFFSZ = 1
    MaxLen = 5
    Letters = {"a", "n", "0"}
INVARIANTS BufferConsistent
PROPERTIES ReadsTheText Answers
CHECK_DEADLOCK FALSE
