SPECIFICATION Spec
CONSTANTS
    Users = {u1, u2}
    NoUser = NoUser
    Starters = {u1, u2}
    Capacity = 2
    Reqs = {r1, r2}
    Workers = {}
    MaxSessions = 2
    MaxConnects = 1
    Attempts = 1
    LiveKitFaults = FALSE
    DbFaults = FALSE
PROPERTY
    StartSparesLiveMeeting
