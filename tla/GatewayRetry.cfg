SPECIFICATION FairSpec
CONSTANTS
    d1 = d1
    d2 = d2
    k1 = k1
    k2 = k2
    Devices = {d1, d2}
    Registered = {d1, Admin}
    AuthEnabled = TRUE
    Admin = Admin
    Default = Default
    Ek <- NoEntries
    Guids = {g1}
    NoGuid = NoGuid
    NoReport = NoReport
    MaxReports = 1
    MaxFaults = 2
    MaxRestarts = 1
INVARIANTS
    RepeatsOnlyUnconfirmed
    StrangersLeaveNoTrace
PROPERTIES
    KeepsDeliveryPromise
    EveryActionSettles
