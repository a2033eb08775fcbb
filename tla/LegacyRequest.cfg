SPECIFICATION FairSpec
CONSTANTS
    Conns = {c1}
    Requests <- AllRequests
    Sources <- AllSources
    MaxBody = 2
    Bad = Bad
    NoLength = NoLength
INVARIANTS
    TypeOK
    ActsOnIntactOnly
    OnlyListedActs
    ListedNotRefused
    AnswerTellsEffect
    OneWrite
PROPERTIES
    ConnectionsEnd
    DrainsOnly
CHECK_DEADLOCK FALSE
