SPECIFICATION Spec
CONSTANTS
    Records <- MCRecords
    Cells <- MCCells
    Null <- MCNull
    Split <- MCSplit
    Join <- MCJoin
    Text <- MCText
    Str <- MCStr
    Num <- MCNum
    Index <- MCIndex
    FSs = {" ", ":"}
    OFSs <- MCOFSs
    Formats <- MCFormats
    DefaultFormat <- MCDefault
    Number = Number
    Illegal = Illegal
    FBANK_SZ = 2
    FBANKV_CHUNK_SIZE = 1
    MaxF = 2
    MaxDepth = 1
INVARIANTS TypeOK NFShadow CellsExist
PROPERTIES LazyIsEager OverrunAtTheVeryEnd
CHECK_DEADLOCK FALSE
