SPECIFICATION Spec
CONSTANTS
    Conns = {c1}
    Requests <- OddlySpelled
    Sources <- FileOnly
    MaxBody = 2
    Bad = Bad
    NoLength = NoLength
INVARIANTS
    BodyReadIfAnnounced
CHECK_DEADLOCK FALSE
