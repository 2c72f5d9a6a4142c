SPECIFICATION Spec
CONSTANTS
    Users = {u1}
    NoUser = NoUser
    Starters = {u1}
    Capacity = 1
    Reqs = {r1}
    Workers = {w1}
    MaxSessions = 2
    MaxConnects = 1
    Attempts = 2
    LiveKitFaults = FALSE
    DbFaults = TRUE
CONSTRAINT
    Unmarked
INVARIANTS
    UndisturbedJoinIsCoherent
    StartsLeaveNoSession
