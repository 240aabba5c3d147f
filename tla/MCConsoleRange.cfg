SPECIFICATION Spec
CONSTANTS
    MaxRows = 3
    MaxCols = 6
    Byte = 8
    Modes <- MCModes
    Bases = {10, 11}
    Keys = {"a", "sp", "bs", "del", "cr"}
    Prompts = {2, 3, 4}
    MaxLine = 6
    MaxArgs = 2
    Keystrokes = 7
    Commands = 3
INVARIANT
    CallersStayInRange
CHECK_DEADLOCK FALSE
