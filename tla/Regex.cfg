SPECIFICATION MCSpec
CONSTANTS
    Alphabet <- MCAlphabet
    Named <- MCNamed
    Repetitions = TRUE
    PosCap = 8
    MaxLen = 3
INVARIANTS MachineConsistent TestIsMembership MatchIsRight PopsOwnPosition
PROPERTY Terminates
CHECK_DEADLOCK FALSE
