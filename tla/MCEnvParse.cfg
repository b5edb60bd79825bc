SPECIFICATION EnvSpec
CONSTANTS
    Newline = Newline
    Equals = Equals
    Null = Null
    Files <- MCFiles
    Names <- MCNames
    MaxLength = 6
INVARIANTS
    RightIfUnlike
    ResultOfOneLine
CHECK_DEADLOCK FALSE
