SPECIFICATION Spec
CONSTANTS
    Users = {u1}
    NoUser = NoUser
    Starters = {u1}
    Capacity = 2
    Reqs = {r1}
    Workers = {w1}
    MaxSessions = 2
    MaxConnects = 1
    Attempts = 1
    LiveKitFaults = FALSE
    DbFaults = FALSE
PROPERTY
    CleanUpSparesNewMeeting
