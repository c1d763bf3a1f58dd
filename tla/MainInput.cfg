SPECIFICATION Spec
CONSTANTS
    Names <- MCNames
    Absent = {"m"}
    Text <- MCText
    Args <- MCArgs
    MaxArgs = 3
    MaxChanges = 1
INVARIANT TypeOK
PROPERTIES ReadsTheOperands Returns
CHECK_DEADLOCK FALSE
