SPECIFICATION MCSpec
CONSTANTS
    IndexScenario = 590
    IndexLightStart = 605
    IndexLightEnd = 622
    Injections <- ShortLists
    Numbers = {"613", "590"}
    Words = {"on", "off"}
    Sent <- SmallBodies
    MaxEntries = 1
    MaxParams = 3
INVARIANTS
    LightBlocksComplete
    AskedValuesKept
    NeverMisread
    LegacyReportRead
    InjectionRead
PROPERTIES
    InjectAgainSame
CHECK_DEADLOCK FALSE
