SPECIFICATION MCSpec
CONSTANTS
    IndexScenario = 590
    IndexLightStart = 605
    IndexLightEnd = 622
    Injections <- ShortLists
    Numbers = {"613", "590"}
    Words = {"on", "off"}
    Sent <- SmallBodies
    MaxEntries = 0
    MaxParams = 2
INVARIANTS
    FusionApplied
CHECK_DEADLOCK FALSE
