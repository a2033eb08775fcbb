SPECIFICATION Spec
CONSTANTS
    d1 = d1
    d2 = d2
    k1 = k1
    k2 = k2
    Devices = {d1, d2}
    Registered = {d1, d2}
    AuthEnabled = TRUE
    Admin = Admin
    Default = Default
    Ek <- TwoEntries
    Guids = {}
    NoGuid = NoGuid
    NoReport = NoReport
    MaxReports = 2
    MaxFaults = 2
    MaxRestarts = 0
SYMMETRY Perms
INVARIANTS
    AnsweredReportIsStored
    ConnectedHasReport
    EachClientItsTable
