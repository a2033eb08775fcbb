SPECIFICATION FairSpec
CONSTANTS
    Conns = {c1}
    Requests <- Stalled
    Sources <- FileOnly
    MaxBody = 2
    Bad = Bad
    NoLength = NoLength
PROPERTIES
    WritesEnd
CHECK_DEADLOCK FALSE
