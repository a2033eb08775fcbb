SPECIFICATION Spec
CONSTANTS
    d1 = d1
    d2 = d2
    k1 = k1
    k2 = k2
    Devices = {d1, d2}
    Registered = {d1, d2, Admin}
    AuthEnabled = TRUE
    Admin = Admin
    Default = Default
    Ek <- NoEntries
    Guids = {g1, g2}
    NoGuid = NoGuid
    NoReport = NoReport
    MaxReports = 1
    MaxFaults = 1
    MaxRestarts = 0
SYMMETRY Perms
INVARIANTS
    TypeOK
    RepeatsOnlyUnconfirmed
    OneSuccess
PROPERTIES
    KeepsDeliveryPromise
