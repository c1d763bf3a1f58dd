SPECIFICATION Spec
CONSTANTS
    Amp = Amp
    Texts <- MCTexts
    Tables <- MCTables
    Repls <- MCRepls
INVARIANTS SubstitutesAsWritten BufferConsistent
PROPERTIES Ends
CHECK_DEADLOCK FALSE
