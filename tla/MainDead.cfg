SPECIFICATION Spec
CONSTANTS
    Names <- MCNames
    Absent = {"m"}
    Text <- MCText
    Args <- MCArgs
    MaxArgs = 1
    MaxChanges = 0
INVARIANT DeadBufferStays
CHECK_DEADLOCK FALSE
