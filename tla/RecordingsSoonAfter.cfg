SPECIFICATION Spec
CONSTANTS
    Topics = {"recording"}
    People = {p1, p2}
    NoOne = NoOne
    MaxSubs = 1
    Free = Free
    MaxBreakouts = 1
    Setters = {}
    MaxAsked = 4
    MaxFaults = 0
    Hosts = {}
    Timer = Timer
    Plans = {}
    Callers = {c1}
    Posters = {w1}
    Screen = Screen
    NoTake = NoTake
    Guests = {}
    Admins = {}
INVARIANTS
    NoRecordingDeleted
