SPECIFICATION FairAttendanceSpec
CONSTANTS
    Users = {u1, u2}
    NoUser = NoUser
    Workers = {w1}
    MaxSessions = 1
    MaxConnects = 1
    Attempts = 1
    LiveKitFaults = FALSE
    DbFaults = TRUE
PROPERTIES
    SessionEndsWithRoom
    EmptyRoomIsReclaimed
