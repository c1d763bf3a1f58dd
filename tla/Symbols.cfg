SPECIFICATION Spec
CONSTANTS
    ZBLOCKSZ = 8
    POOLSZ = 4
    CHUNK = 10
    MaxChunks = 2
    x = x
    y = y
    w = w
    Ids = {x, y, w}
    Keywords = {if}
    Types <- MCTypes
    hash <- MCHash
    Buckets = {1, 2}
    Length <- MCLength
    NodeSize = 24
    Sizes = {16}
    MaxOther = 1
    MaxFunctions = 1
SYMMETRY Symmetry
INVARIANTS TableConsistent HeapAccounted
PROPERTY NamesAreScoped
CHECK_DEADLOCK FALSE
