SPECIFICATION Spec
CONSTANTS
    x = x
    y = y
    Uninit = Uninit
    IntKeys <- MCInts
    Names = {x, y}
    Val = {Uninit, 7}
    Hash <- HashValue
    MaxInt = 7
    StartMask = 1
    MaxAve = 1
    SplitRound = 2
    MaxSplit = 2
INVARIANTS
    TableConsistent FaultsComeFromMisfiling
PROPERTIES
    DoublingKeepsOrder ImplementsAwkArray
CHECK_DEADLOCK FALSE
