SPECIFICATION AttendanceSpec
CONSTANTS
    Users = {u1}
    NoUser = NoUser
    Workers = {w1, w2}
    MaxSessions = 1
    MaxConnects = 2
    Attempts = 1
    LiveKitFaults = TRUE
    DbFaults = TRUE
SYMMETRY WorkerSymmetry
INVARIANTS
    AttendanceTypeOK
    OneOpenVisit
    TotalIsExact
    AttendanceMatchesPresence
